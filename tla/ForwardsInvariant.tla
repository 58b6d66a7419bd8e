-------------------------- MODULE ForwardsInvariant --------------------------
(***************************************************************************)
(* The inductive invariant behind the safety properties of Forwards, for a *)
(* single retry worker and a claim whose reply comes in time.              *)
(***************************************************************************)
EXTENDS Forwards

\* One serve process has one retry worker.
SingleRetrier == \A r, s \in Retriers : r = s

\* The reply to a worker's claim comes before the slack between its deadline
\* and the retry cutoff is used up.
ClaimAnswersInTime == MaxReply + ForwardDeadline <= RetryCutoff

\* The phases in which a process may still write the row of its deposit.
BusyPhases == Phases \ {"idle", "cancelled", "fetch", "intent"}

Busy(p) == job[p].pc \in BusyPhases

NothingInPlay(d) == \A t \in Tx : ~InPlay(d, t)

NothingLive(d) == \A t \in Tx : ~(own[t] = d /\ st[t] = "live")

\* The network and RPC agree, and a transaction belongs to the deposit it was
\* first recorded for.
NetworkOK(t) ==
  /\ st[t] # "new" => own[t] \in Deposits
  /\ view[t] = "shown" => st[t] \in {"ok", "bad"}
  /\ view[t] = "closed" => st[t] = "gone"
  /\ view[t] = "pruned" => st[t] \in {"ok", "bad", "gone"}
  /\ st[t] # "new" => (pays[t] = "credit" <=> own[t] \in Creditable)

\* What a row says of the transfers made for it.
RowOK(d) ==
  /\ row[d].status = "absent" => row[d] = NoRow
  /\ row[d].status \notin {"done", "swept"} => row[d].fwd = NoTx
  /\ row[d].status \in {"done", "swept"} =>
       /\ row[d].sub = NoTx
       /\ row[d].fwd \in Tx
       /\ st[row[d].fwd] = "ok"
       /\ own[row[d].fwd] = d
       /\ row[d].status = "done" <=> d \in Creditable
  /\ row[d].fresh => row[d].status = "pending" /\ row[d].sub = NoTx /\ ~row[d].sweep
  /\ row[d].sweep => d \notin Creditable
  /\ row[d].sub \in Tx =>
       /\ own[row[d].sub] = d
       /\ st[row[d].sub] # "new"
       /\ row[d].sweep <=> d \notin Creditable

\* TransfersAreOnRecord and FailedIsOver for one deposit.
OnRecord(d) ==
  /\ \A t \in Tx : InPlay(d, t) => t \in {row[d].sub, row[d].fwd}
  /\ row[d].status = "failed" => NothingLive(d)

\* Which process may be where, with which deposit and which destination.
JobOK(p) ==
  LET j == job[p]  d == job[p].dep IN
  /\ j.pc \in {"idle", "cancelled", "fetch"} <=> d = NoDeposit
  /\ j.pc \in {"claimed", "cancelled"} => p \in Workers
  /\ j.pc \in {"fetch", "resolve"} => p \in Retriers
  /\ j.seen.sweep => d \notin Creditable
  /\ Busy(p) /\ j.sweep => row[d].sweep
  /\ j.pc \in {"claimed", "lookup"} => ~j.sweep
  /\ j.pc = "mark" => d \notin Creditable
  /\ j.pc \in {"build", "record", "send", "poll", "forget"} => (j.sweep <=> d \notin Creditable)
  /\ j.pc \in {"write", "intent"} /\ j.out = "ok" => (j.sweep <=> d \notin Creditable)

\* How far a process knows the transfers of its deposit: none in play while it
\* decides or builds, the recorded one while it sends, polls or resolves.
Knows(p) ==
  LET j == job[p]  d == job[p].dep IN
  /\ j.pc \in {"claimed", "lookup", "mark", "build", "record", "send", "forget"} =>
       NothingInPlay(d)
  /\ j.pc \in {"send", "poll"} => j.tx \in Tx /\ row[d].sub = j.tx
  /\ j.pc = "resolve" => /\ j.seen.sub \in Tx
                         /\ row[d].sub = j.seen.sub
                         /\ j.sweep = row[d].sweep
                         /\ j.seen.sweep = row[d].sweep
  /\ j.pc = "forget" => /\ j.out \in {"fee", "contention", "transient", "permanent", "rebuild"}
                        /\ j.out = "rebuild" => p \in Retriers /\ j.sweep = j.seen.sweep
  /\ j.pc = "write" =>
       /\ j.out \in {"ok", "unconfirmed", "contention", "transient", "permanent",
                     "error", "ceiling", "lost"}
       /\ j.out = "ok" => j.tx \in Tx /\ row[d].sub = j.tx /\ st[j.tx] = "ok"
       /\ j.out \in {"contention", "transient", "permanent", "error", "ceiling"} =>
            NothingInPlay(d)
       /\ j.out = "lost" => NothingLive(d)
  /\ j.pc = "intent" /\ j.out = "ok" =>
       j.tx \in Tx /\ st[j.tx] = "ok" /\ own[j.tx] = d /\ d \in Creditable

\* Who may hold a row: a worker only one that is pending, claimed and young; the
\* retry worker one that is open; and nobody a row that is as it was inserted.
HolderOK(p) ==
  Busy(p) =>
    LET d == job[p].dep IN
    /\ ~row[d].fresh
    /\ p \in Workers =>
         /\ row[d].status = "pending"
         /\ age[d] <= job[p].clock + MaxReply
         /\ job[p].clock < ForwardDeadline
         /\ job[p].pc = "claimed" => job[p].clock = 0
    /\ p \in Retriers => row[d].status \in {"pending", "pending_retry"}
    /\ \A q \in Procs : Busy(q) /\ job[q].dep = d => q = p

\* What the retry worker read is still so: always for a row it will not claim,
\* and for one it will as long as the claim can succeed.
BatchOK(r, d) ==
  /\ batch[r][d].status \in {"absent", "pending", "pending_retry"}
  /\ batch[r][d].status # "absent" => job[r].dep # d
  /\ batch[r][d].status = "pending_retry" => row[d] = batch[r][d]
  /\ batch[r][d].status = "pending" /\ d \in same[r] =>
       row[d] = batch[r][d] /\ age[d] >= RetryCutoff

\* The invariant Next preserves.
IInv ==
  /\ TypeOK
  /\ \A t \in Tx : NetworkOK(t)
  /\ \A d \in Deposits : RowOK(d) /\ OnRecord(d)
  /\ \A p \in Procs : JobOK(p) /\ Knows(p) /\ HolderOK(p)
  /\ \A r \in Retriers : \A d \in Deposits : BatchOK(r, d)
  /\ CompletedIsCredited
=============================================================================
