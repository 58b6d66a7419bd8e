------------------------------ MODULE MCSponsor ------------------------------
(* Instances of Sponsor for TLC.                                           *)
EXTENDS Sponsor, TLC

CONSTANTS c1, c2, i1, i2, own, other, paid, w1, w2, x1, x2, x3, r1, r2

\* A sponsored call of each of two wallets, and a user-paid one of the first.
Wallets == [b \in Bodies |-> IF b = other THEN w2 ELSE w1]
Modes == [b \in Bodies |-> IF b = paid THEN "forward" ELSE "sponsored"]

Symmetry == Permutations(Txs) \cup Permutations(Calls) \cup Permutations(Ids)
              \cup Permutations(Resolvers)
=============================================================================
