------------------------------ MODULE MCWatcher ------------------------------
(* Instances of Watcher for TLC.                                           *)
EXTENDS Watcher, TLC

CONSTANTS i1, i2

Payment(tx, id, count) == [tx |-> tx, id |-> id, count |-> count, kind |-> "payment"]

\* A transaction that pays the pool twice, and an outbound transfer.  The ids are
\* Horizon's: the position is in the low 12 bits.
Twice == << Payment(1, 4097, 2), Payment(1, 4098, 2),
            [tx |-> 2, id |-> 8193, count |-> 1, kind |-> "other"] >>

WithOrWithoutCursor == {NoCursor, 0}
=============================================================================
