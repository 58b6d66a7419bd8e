---------------------------- MODULE MCChannelPool ----------------------------
(* Instances of ChannelPool for TLC.                                       *)
EXTENDS ChannelPool, TLC

CONSTANTS h1, h2, t1, t2, t3, t4, seedA

\* One seed; the second process has one channel fewer.
Both == [seed |-> seedA, indexes |-> {0, 1}]
One == [seed |-> seedA, indexes |-> {0}]

SameSeed == {Both, One}
AllBoth == [h \in Holders |-> Both]
=============================================================================
