----------------------------- MODULE MCSequencer -----------------------------
(* Instances of Sequencer for TLC.                                         *)
EXTENDS Sequencer, TLC

CONSTANTS s1, s2, s3, p1, p2

\* Two senders in one process and one in the other.
TwoAndOne == (s1 :> p1) @@ (s2 :> p1) @@ (s3 :> p2)
=============================================================================
