----------------------------- MODULE MCForwards -----------------------------
(* Instances of Forwards for TLC.                                          *)
EXTENDS ForwardsInvariant, TLC

CONSTANTS d1, d2, w1, r1, r2, t1, t2, m1

\* Both deposits belong to the one intent.
MemoOfShared == (d1 :> m1 @@ d2 :> m1)
MemoOfOne == (d1 :> m1)
AllAlike == {<<d1, d2>>, <<d2, d1>>}

\* Hashes that nothing names and that cannot land are interchangeable with new
\* ones: no action and no property reads what was true of them.
Named(t) ==
  \/ \E d \in Deposits : t \in {row[d].sub, row[d].fwd} \/ InPlay(d, t)
  \/ \E p \in Procs : t = job[p].tx
  \/ \E r \in Retriers, d \in Deposits : t \in {batch[r][d].sub, job[r].seen.sub}
Relevant ==
  <<row, age, same, intent, queue, job, batch, faults,
    [t \in Tx |-> IF Named(t) THEN <<st[t], own[t], pays[t], view[t]>> ELSE <<>>]>>

Symmetric == Permutations(Tx)
SymmetricAlike == Permutations(Tx) \cup Permutations(Deposits)
=============================================================================
