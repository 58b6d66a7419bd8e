------------------------------ MODULE Forwards ------------------------------
(***************************************************************************)
(* The life of a recorded deposit: the forwards and intents tables, the    *)
(* watcher workers and the retry worker that move a row through them, and  *)
(* the network and the RPC server they talk to.                            *)
(*                                                                         *)
(*   internal/store/store.go               one row write per store call    *)
(*   internal/service/forwarder/forwarder.go   ForwardRecorded, Retry,     *)
(*                                         resolveSubmitted, signAndSend,  *)
(*                                         startSweep, sweepDeposit        *)
(*   internal/service/retry/retry.go       tick                            *)
(*                                                                         *)
(* Every store call and every RPC call is one atomic step, so a crash, the *)
(* other worker or the network may come between any two of them.  A store  *)
(* call may fail, with or without having taken effect.  Sequence numbers   *)
(* and channel leases are left out: the network may accept, reject, land   *)
(* or drop any transaction, which covers every number it could carry.      *)
(***************************************************************************)
EXTENDS Integers

CONSTANTS
  Deposits,         \* keys of the forwards table (depositKey)
  Workers,          \* watcher workers
  Retriers,         \* retry workers: one in a single serve process
  Tx,               \* hashes of outbound transactions
  NoTx,             \* NULL in submitted_tx and forward_tx
  NoDeposit,        \* what an idle process works on
  Memos,            \* memo ids of the minted intents
  MemoOf,           \* the routing id each deposit carries
  Accepted,         \* deposits in an asset of the allowlist (accepts)
  Late,             \* deposits that landed after their intent's expires_at
  Alike,            \* pairs of deposits whose transfers have the same content
  MaxRetries,       \* maxRetries
  QuickAttempts,    \* attempts of ForwardRecorded
  MaxTryAgain,      \* maxTryAgain
  MaxFeeRetries,    \* maxFeeRetries
  ForwardDeadline,  \* forwardDeadline, in ticks
  RetryCutoff,      \* the five minutes of GetPendingRetries, in ticks
  MaxReply,         \* longest delay of the reply to ClaimNewForward, in ticks
  MaxFaults         \* bound: crashes and failed store calls of a behaviour

Procs == Workers \cup Retriers

ASSUME NullsAreNew ==
  /\ NoTx \notin Tx
  /\ NoDeposit \notin Deposits

ASSUME RolesAreDistinct == Workers \cap Retriers = {}

ASSUME BoundsAreNaturals ==
  /\ MaxRetries \in Nat /\ QuickAttempts \in Nat
  /\ MaxTryAgain \in Nat /\ MaxFeeRetries \in Nat
  /\ ForwardDeadline \in Nat \ {0} /\ RetryCutoff \in Nat
  /\ MaxReply \in Nat /\ MaxFaults \in Nat

\* The relation the comment on forwardDeadline asks for.
ASSUME DeadlineBelowCutoff == ForwardDeadline < RetryCutoff

VARIABLES
  row,      \* the forwards table
  age,      \* ticks since updated_at, per row, up to RetryCutoff
  intent,   \* status column of the intents table
  queue,    \* the watcher's in-memory jobs channel
  job,      \* what each process is doing
  batch,    \* rows a retry worker fetched and has not reached yet
  same,     \* rows of a batch whose updated_at is still the one fetched
  st,       \* state of each outbound transaction on the network
  own,      \* the deposit a transaction was recorded for
  pays,     \* where a transaction sends the money
  view,     \* what the RPC server can say about a transaction
  faults    \* crashes and failed store calls so far

tables == <<row, age, same>>
network == <<st, own, pays, view>>
vars == <<row, age, same, intent, queue, job, batch, st, own, pays, view, faults>>

-----------------------------------------------------------------------------
(* State.                                                                  *)

Settled == {"done", "swept", "failed"}

\* fresh stands for updated_at = created_at.
Row == [status  : {"absent", "pending", "pending_retry"} \cup Settled,
        sweep   : BOOLEAN,
        retries : Nat,
        sub     : Tx \cup {NoTx},
        fwd     : Tx \cup {NoTx},
        fresh   : BOOLEAN]

NoRow == [status |-> "absent", sweep |-> FALSE, retries |-> 0,
          sub |-> NoTx, fwd |-> NoTx, fresh |-> FALSE]

NewRow == [NoRow EXCEPT !.status = "pending", !.fresh = TRUE]

\* The classes of submitError, and how a call to Retry can end without one.
Outcomes == {"none", "ok", "unconfirmed", "contention", "transient", "permanent",
             "fee", "rebuild", "error", "ceiling", "lost"}

\* Idle, or the call a process is about to make.
Phases == {"idle", "claimed", "cancelled", "fetch", "resolve", "lookup", "mark", "build",
           "record", "send", "forget", "poll", "write", "intent"}

Job == [pc    : Phases,
        dep   : Deposits \cup {NoDeposit},
        seen  : Row,
        sweep : BOOLEAN,
        tx    : Tx \cup {NoTx},
        out   : Outcomes,
        tries : Nat,
        again : Nat,
        fee   : Nat,
        clock : Nat]

Idle == [pc |-> "idle", dep |-> NoDeposit, seen |-> NoRow, sweep |-> FALSE,
         tx |-> NoTx, out |-> "none", tries |-> 0, again |-> 0, fee |-> 0,
         clock |-> 0]

Init ==
  /\ row = [d \in Deposits |-> NoRow]
  /\ age = [d \in Deposits |-> 0]
  /\ intent = [m \in Memos |-> "pending"]
  /\ queue = {}
  /\ job = [p \in Procs |-> Idle]
  /\ batch = [r \in Retriers |-> [d \in Deposits |-> NoRow]]
  /\ same = [r \in Retriers |-> {}]
  /\ st = [t \in Tx |-> "new"]
  /\ own = [t \in Tx |-> NoDeposit]
  /\ pays = [t \in Tx |-> "credit"]
  /\ view = [t \in Tx |-> "unseen"]
  /\ faults = 0

-----------------------------------------------------------------------------
(* Processes and store calls.                                              *)

At(p, phase) == job[p].pc = phase

Become(p, j) == job' = [job EXCEPT ![p] = j]

\* A store call returns (ok) having taken effect (eff), or fails, either way.
Call(ok, eff) ==
  IF ok THEN eff /\ UNCHANGED faults
        ELSE faults < MaxFaults /\ faults' = faults + 1

\* An UPDATE of one row that sets updated_at = NOW().
Update(d, r, eff) ==
  IF eff
  THEN /\ row' = [row EXCEPT ![d] = [r EXCEPT !.fresh = FALSE]]
       /\ age' = [age EXCEPT ![d] = 0]
       /\ same' = [s \in Retriers |-> same[s] \ {d}]
  ELSE UNCHANGED tables

-----------------------------------------------------------------------------
(* Taking a deposit.                                                       *)

\* handle records the deposit and queues it.  It stays unqueued when the
\* insert took effect but reported an error, or intake stopped in dispatch.
InsertForward(d) ==
  /\ row[d] = NoRow
  /\ row' = [row EXCEPT ![d] = NewRow]
  /\ queue' \in {queue, queue \cup {d}}
  /\ UNCHANGED <<age, same, intent, job, batch, network, faults>>

\* Mutant: the claim does not ask that the row is untouched.
StillPending(d) == row[d].status = "pending"

\* The row is as InsertForward left it.
Untouched(d) == row[d].status = "pending" /\ row[d].fresh

\* A worker takes a queued deposit and claims its row.
ClaimNewForward(w, d) ==
  LET claims == Untouched(d) IN
  /\ job[w].pc = "idle"
  /\ d \in queue
  /\ queue' = queue \ {d}
  /\ \E ok, eff \in BOOLEAN :
       /\ Call(ok, eff)
       /\ Update(d, row[d], eff /\ claims)
       /\ Become(w, IF ok /\ claims THEN [Idle EXCEPT !.pc = "claimed", !.dep = d]
                                    ELSE Idle)
  /\ UNCHANGED <<intent, batch, network>>

\* The reply to the claim arrives; only now does the deadline start.
StartForward(w) ==
  /\ job[w].pc = "claimed"
  /\ Become(w, [job[w] EXCEPT !.pc = "lookup"])
  /\ UNCHANGED <<tables, intent, queue, batch, network, faults>>

\* Mutant: every row that is not paid out is due.
RetryDueUnpaid(d) == row[d].status \notin {"absent", "done", "swept"}

\* Mutant: a row left pending by a crash is nobody's.
RetryDueQueued(d) == row[d].status = "pending_retry"

\* Rows of the retry queue, and rows whose first attempt never finished.
RetryDue(d) ==
  \/ row[d].status = "pending_retry"
  \/ row[d].status = "pending" /\ age[d] >= RetryCutoff

\* A tick begins: intents past their expiry are marked, in one statement.
ExpireStaleIntents(r) ==
  /\ job[r].pc = "idle"
  /\ batch[r] = [d \in Deposits |-> NoRow]
  /\ \E E \in SUBSET {m \in Memos : intent[m] = "pending"} :
       intent' = [m \in Memos |-> IF m \in E THEN "expired" ELSE intent[m]]
  /\ Become(r, [Idle EXCEPT !.pc = "fetch"])
  /\ UNCHANGED <<tables, queue, batch, network, faults>>

\* The tick reads its batch, or gives up until the next tick.
GetPendingRetries(r) ==
  /\ job[r].pc = "fetch"
  /\ Become(r, Idle)
  /\ \/ /\ batch' = [batch EXCEPT ![r] = [d \in Deposits |->
                       IF RetryDue(d) THEN row[d] ELSE NoRow]]
        /\ same' = [same EXCEPT ![r] = {d \in Deposits : RetryDue(d)}]
        /\ UNCHANGED faults
     \/ /\ Call(FALSE, FALSE)
        /\ UNCHANGED <<batch, same>>
  /\ UNCHANGED <<row, age, intent, queue, network>>

\* What Retry does once no earlier transfer is in the way.
Proceed(j) ==
  IF j.seen.retries >= MaxRetries THEN [j EXCEPT !.pc = "write", !.out = "ceiling"]
  ELSE [j EXCEPT !.pc = IF j.seen.sweep THEN "build" ELSE "lookup", !.out = "none"]

\* Retry starts on the next row of the batch: an earlier transfer is resolved
\* before anything else.
Begin(r, d) ==
  LET j == [Idle EXCEPT !.dep = d, !.seen = batch[r][d], !.sweep = batch[r][d].sweep]
  IN  IF batch[r][d].sub # NoTx THEN [j EXCEPT !.pc = "resolve"] ELSE Proceed(j)

\* A row fetched as pending_retry is worked without a claim.
TakeRetry(r, d) ==
  /\ job[r].pc = "idle"
  /\ batch[r][d].status = "pending_retry"
  /\ Become(r, Begin(r, d))
  /\ batch' = [batch EXCEPT ![r][d] = NoRow]
  /\ same' = [same EXCEPT ![r] = @ \ {d}]
  /\ UNCHANGED <<row, age, intent, queue, network, faults>>

\* A row fetched as pending is claimed by the updated_at it was read with.
ClaimPendingForward(r, d) ==
  LET claims == row[d].status = "pending" /\ d \in same[r] IN
  /\ job[r].pc = "idle"
  /\ batch[r][d].status = "pending"
  /\ batch' = [batch EXCEPT ![r][d] = NoRow]
  /\ \E ok, eff \in BOOLEAN :
       /\ Call(ok, eff)
       /\ Become(r, IF ok /\ claims THEN Begin(r, d) ELSE Idle)
       /\ IF eff /\ claims
          THEN Update(d, row[d], TRUE)
          ELSE same' = [same EXCEPT ![r] = @ \ {d}] /\ UNCHANGED <<row, age>>
  /\ UNCHANGED <<intent, queue, network>>

-----------------------------------------------------------------------------
(* Deciding where the money goes.                                          *)

\* Mutant: the retry worker does not check the landing time again.
RoutableLate(p, d) ==
  d \in Accepted /\ MemoOf[d] \in Memos /\ (d \notin Late \/ p \in Retriers)

\* The allowlist, then the intent by memo id, then its expiry by landing time.
Routable(p, d) == d \in Accepted /\ MemoOf[d] \in Memos /\ d \notin Late

\* A failed lookup says nothing about the memo: the row is queued, and charged.
RetryOnError(p) == [job[p] EXCEPT !.pc = "write", !.out = "error"]

\* Decide between crediting and sweeping; the intent is only read for an
\* accepted asset.
Lookup(p) ==
  LET d == job[p].dep IN
  /\ At(p, "lookup")
  /\ \/ /\ Become(p, [job[p] EXCEPT !.pc = IF Routable(p, d) THEN "build" ELSE "mark"])
        /\ UNCHANGED faults
     \/ /\ d \in Accepted
        /\ Call(FALSE, FALSE)
        /\ Become(p, RetryOnError(p))
  /\ UNCHANGED <<tables, intent, queue, batch, network>>

\* startSweep persists the decision before anything is sent.
MarkSweep(p) ==
  LET d == job[p].dep IN
  /\ At(p, "mark")
  /\ \E ok, eff \in BOOLEAN :
       /\ Call(ok, eff)
       /\ Update(d, [row[d] EXCEPT !.sweep = TRUE], eff)
       /\ Become(p, IF ok THEN [job[p] EXCEPT !.pc = "build", !.sweep = TRUE]
                          ELSE [job[p] EXCEPT !.pc = "write", !.out = "error"])
  /\ UNCHANGED <<intent, queue, batch, network>>

-----------------------------------------------------------------------------
(* One transfer: submit and sweep, through transfer or transferViaChannel. *)

\* How the caller goes on with the outcome of a transfer.  A worker that is
\* crediting tries again in process; every other outcome is written down.
AfterTransfer(p, out) ==
  LET j == [job[p] EXCEPT !.again = 0, !.fee = 0] IN
  IF /\ p \in Workers
     /\ ~j.sweep
     /\ out \in {"contention", "transient"}
     /\ j.tries + 1 < QuickAttempts
  THEN [j EXCEPT !.pc = "build", !.out = "none", !.tx = NoTx, !.tries = @ + 1]
  ELSE [j EXCEPT !.pc = "write", !.out = out, !.tx = IF out = "ok" THEN @ ELSE NoTx]

\* transfer: the pool has no key, its sequence number cannot be read, every
\* channel is leased, the leased one cannot be used.
SourceFails == {"permanent", "transient", "contention"}

\* prepareContractPayment: the call cannot be built or does not simulate, or the
\* RPC server does not answer.
PaymentFails == {"permanent", "transient"}

\* sweep: no recovery account, or one without the trustline, or which cannot be
\* loaded.  The last two are requeued without charge, exactly like contention.
SweepFails == {"permanent", "contention"}

\* Draw a number or lease a channel, and build the payment.
Build(p) ==
  /\ At(p, "build")
  /\ \/ Become(p, [job[p] EXCEPT !.pc = "record"])
     \/ \E out \in SourceFails \cup (IF job[p].sweep THEN SweepFails ELSE PaymentFails) :
          Become(p, AfterTransfer(p, out))
  /\ UNCHANGED <<tables, intent, queue, batch, network, faults>>

Destination(p) == IF job[p].sweep THEN "recovery" ELSE "credit"

\* t is on record for a deposit other than d.
HeldByOther(d, t) ==
  \E e \in Deposits \ {d} : t \in {row[e].sub, row[e].fwd}

\* A hash that has never been put on the network.  One that was rejected,
\* failed or expired and is on nobody's record may stand for a new one.
Unused(d, t) == st[t] \notin {"live", "ok"} /\ ~HeldByOther(d, t)

\* The sequencer handed out a number still in flight and another deposit's
\* transfer was rebuilt byte for byte.
Twin(p, t) ==
  /\ pays[t] = Destination(p)
  /\ \E e \in Deposits \ {job[p].dep} :
       /\ <<job[p].dep, e>> \in Alike
       /\ t \in {row[e].sub, row[e].fwd}

\* Mutant: a hash that another row has already settled with is not refused.
SubmissionClaimedInFlight(d, t) ==
  \E e \in Deposits \ {d} : t = row[e].sub

\* The NOT EXISTS of RecordSubmission.
SubmissionClaimed(d, t) == HeldByOther(d, t)

\* Seal the envelope and record its hash, before it is sent.
RecordSubmission(p, t) ==
  LET d == job[p].dep
      claimed == SubmissionClaimed(d, t)
  IN
  /\ At(p, "record")
  /\ Unused(d, t) \/ Twin(p, t)
  /\ \E ok, eff \in BOOLEAN :
       /\ Call(ok, eff)
       /\ Update(d, [row[d] EXCEPT !.sub = t], eff /\ ~claimed)
       /\ Become(p, IF ~ok THEN AfterTransfer(p, "transient")
                    ELSE IF claimed THEN AfterTransfer(p, "contention")
                    ELSE [job[p] EXCEPT !.pc = "send", !.tx = t])
       /\ IF eff /\ Unused(d, t)
          THEN /\ st' = [st EXCEPT ![t] = "built"]
               /\ own' = [own EXCEPT ![t] = d]
               /\ pays' = [pays EXCEPT ![t] = Destination(p)]
               /\ view' = [view EXCEPT ![t] = "unseen"]
          ELSE UNCHANGED network
  /\ UNCHANGED <<intent, queue, batch>>

\* Mutant: a transaction the network accepted counts as paid.
PaidOnAccept(p) == AfterTransfer(p, "ok")

\* An accepted transaction is polled for its outcome.
PollOnAccept(p) == [job[p] EXCEPT !.pc = "poll"]

\* PENDING, or DUPLICATE for a transaction the network already has.
SendAccepted(p) ==
  LET t == job[p].tx IN
  /\ At(p, "send")
  /\ st[t] # "gone"
  /\ st' = [st EXCEPT ![t] = IF @ = "built" THEN "live" ELSE @]
  /\ Become(p, PollOnAccept(p))
  /\ UNCHANGED <<tables, intent, queue, batch, own, pays, view, faults>>

\* Mutant: a send that errored is taken for one that never happened.
ForgetOnUnknown(p) == [job[p] EXCEPT !.pc = "forget", !.out = "transient"]

\* Left on record for the retry worker to resolve.
KeepOnUnknown(p) == AfterTransfer(p, "unconfirmed")

\* The call errored or the status is unknown: it may have reached the network.
SendUnknown(p) ==
  LET t == job[p].tx IN
  /\ At(p, "send")
  /\ \/ UNCHANGED st
     \/ st[t] = "built" /\ st' = [st EXCEPT ![t] = "live"]
  /\ Become(p, KeepOnUnknown(p))
  /\ UNCHANGED <<tables, intent, queue, batch, own, pays, view, faults>>

\* TRY_AGAIN_LATER: not queued.  Send the same envelope again, or give up.
SendTryAgain(p) ==
  /\ At(p, "send")
  /\ st[job[p].tx] \in {"built", "gone"}
  /\ Become(p, IF job[p].again < MaxTryAgain
               THEN [job[p] EXCEPT !.again = @ + 1]
               ELSE [job[p] EXCEPT !.pc = "forget", !.out = "transient"])
  /\ UNCHANGED <<tables, intent, queue, batch, network, faults>>

\* ERROR: rejected before entering the queue, with a class by result code.
SendRejected(p) ==
  /\ At(p, "send")
  /\ st[job[p].tx] \in {"built", "gone"}
  /\ \E out \in {"fee", "contention", "transient", "permanent"} :
       Become(p, [job[p] EXCEPT !.pc = "forget", !.out = out])
  /\ UNCHANGED <<tables, intent, queue, batch, network, faults>>

\* Mutant: "not found" is enough, whatever the latest ledger.
LookupsNotFound(t) ==
  CASE view[t] = "pruned" -> "lost"
    [] view[t] = "shown"  -> st[t]
    [] OTHER              -> "expired"

\* Mutant: the max time is never seen to have passed.
LookupsWaiting(t) ==
  CASE view[t] = "pruned" -> "lost"
    [] view[t] = "shown"  -> st[t]
    [] OTHER              -> "waiting"

\* Mutant: what is not found is closed for reconciliation at once.
LookupsGivingUp(t) == IF view[t] = "shown" THEN st[t] ELSE "lost"

\* What RPC answers about t: the outcome once ingested, and otherwise "not
\* found" with the range of ledgers it holds.  A server that leaves the close times
\* of that range out of its answer is not modelled: pastMaxTime then takes the local
\* clock plus landingGrace, and nothing is found to be pruned.
Lookups(t) ==
  CASE view[t] = "pruned" -> "lost"
    [] view[t] = "shown"  -> st[t]
    [] view[t] = "closed" -> "expired"
    [] OTHER              -> "waiting"

\* pollResult: the outcome, or a timeout or error that leaves it unknown.
PollResult(p) ==
  LET t == job[p].tx IN
  /\ At(p, "poll")
  /\ \/ /\ Lookups(t) = "ok"
        /\ Become(p, AfterTransfer(p, "ok"))
     \/ /\ Lookups(t) = "bad"
        /\ \E out \in {"contention", "transient", "permanent"} :
             Become(p, [job[p] EXCEPT !.pc = "forget", !.out = out])
     \/ Become(p, AfterTransfer(p, "unconfirmed"))
  /\ UNCHANGED <<tables, intent, queue, batch, network, faults>>

\* resolveSubmitted looks the recorded transfer up before another is built.
\* Until RPC has an answer, or when the call fails, the row is requeued.
ResolveWaits(r) ==
  /\ At(r, "resolve")
  /\ Become(r, [job[r] EXCEPT !.pc = "write", !.out = "unconfirmed"])
  /\ UNCHANGED <<tables, intent, queue, batch, network, faults>>

\* With an answer it settles the row, or clears the way for a new transfer.
ResolveSubmitted(r) ==
  LET t == job[r].seen.sub
      Settle(out) == Become(r, [job[r] EXCEPT !.pc = "write", !.out = out,
                                              !.tx = IF out = "ok" THEN t ELSE NoTx])
      Rebuild == Become(r, [job[r] EXCEPT !.pc = "forget", !.out = "rebuild"])
  IN
  /\ At(r, "resolve")
  /\ \/ Lookups(t) = "ok" /\ Settle("ok")
     \/ Lookups(t) = "bad" /\ (Settle("permanent") \/ Rebuild)
     \/ Lookups(t) = "expired" /\ Rebuild
     \/ Lookups(t) = "lost" /\ Settle("lost")
  /\ UNCHANGED <<tables, intent, queue, batch, network, faults>>

\* ClearSubmission.  In a transfer its error is ignored, and a fee rejection
\* seals the envelope again at twice the fee; in resolveSubmitted an error
\* leaves the row for the next tick.
ForgetSubmission(p) ==
  LET d == job[p].dep IN
  /\ At(p, "forget")
  /\ \E ok, eff \in BOOLEAN :
       /\ Call(ok, eff)
       /\ Update(d, [row[d] EXCEPT !.sub = NoTx], eff)
       /\ Become(p,
            IF job[p].out = "rebuild"
            THEN IF ok THEN Proceed(job[p]) ELSE Idle
            ELSE IF job[p].out = "fee"
            THEN IF job[p].fee < MaxFeeRetries
                 THEN [job[p] EXCEPT !.pc = "record", !.out = "none", !.tx = NoTx,
                                     !.again = 0, !.fee = @ + 1]
                 ELSE AfterTransfer(p, "transient")
            ELSE AfterTransfer(p, job[p].out))
  /\ UNCHANGED <<intent, queue, batch, network>>

-----------------------------------------------------------------------------
(* Writing the outcome down.                                               *)

\* retries = retries + 1
Charged(n) == n + 1

\* The row after MarkForwardDone or MarkSwept, RequeueForContention,
\* MarkForwardFailed and PermanentlyFail, by the outcome each is called for.
\* Only a worker that was crediting closes a row with MarkForwardFailed.
Outcome(p, r) ==
  LET j == job[p] IN
  CASE j.out = "ok" ->
         [r EXCEPT !.status = IF j.sweep THEN "swept" ELSE "done",
                   !.fwd = j.tx, !.sub = NoTx]
    [] j.out \in {"unconfirmed", "contention"} ->
         [r EXCEPT !.status = "pending_retry"]
    [] j.out \in {"transient", "error"} ->
         [r EXCEPT !.status = "pending_retry", !.retries = Charged(@)]
    [] j.out = "permanent" /\ p \in Workers /\ ~j.sweep ->
         [r EXCEPT !.status = "failed", !.retries = Charged(@)]
    [] OTHER ->
         [r EXCEPT !.status = "failed"]

\* The intent is completed with its forward; the retry worker also fails it.
ClosesIntent(p) ==
  /\ ~job[p].sweep
  /\ \/ job[p].out = "ok"
     \/ job[p].out \in {"permanent", "ceiling"} /\ p \in Retriers

\* The callers ignore the error of these writes.
WriteOutcome(p) ==
  LET d == job[p].dep IN
  /\ At(p, "write")
  /\ \E ok, eff \in BOOLEAN :
       /\ Call(ok, eff)
       /\ Update(d, Outcome(p, row[d]), eff)
  /\ Become(p, IF ClosesIntent(p) THEN [job[p] EXCEPT !.pc = "intent"] ELSE Idle)
  /\ UNCHANGED <<intent, queue, batch, network>>

\* Mutant: FailIntent writes the status CompleteIntent does.
ClosedAsCompleted(p, s) == IF s \in {"pending", "expired"} THEN "completed" ELSE s

\* CompleteIntent takes a pending or an expired intent, FailIntent a pending one.
Closed(p, s) ==
  IF job[p].out = "ok"
  THEN IF s \in {"pending", "expired"} THEN "completed" ELSE s
  ELSE IF s = "pending" THEN "failed" ELSE s

CloseIntent(p) ==
  LET m == MemoOf[job[p].dep] IN
  /\ At(p, "intent")
  /\ \E ok, eff \in BOOLEAN :
       /\ Call(ok, eff)
       /\ intent' = IF eff /\ m \in Memos
                    THEN [intent EXCEPT ![m] = Closed(p, @)] ELSE intent
  /\ Become(p, Idle)
  /\ UNCHANGED <<tables, queue, batch, network>>

-----------------------------------------------------------------------------
(* The deadline, the clock, crashes and the network.                       *)

\* Once its context is cancelled every call of a worker fails without taking
\* effect, one after the other, until it returns.
GiveUp(w) ==
  /\ job[w].pc = "cancelled"
  /\ Become(w, Idle)
  /\ UNCHANGED <<tables, intent, queue, batch, network, faults>>

Min2(a, b) == IF a <= b THEN a ELSE b

\* Mutant: a worker's context has no deadline.
NoDeadline(j) == j

\* The context of a worker is cancelled at its deadline.
Deadline(j) ==
  IF j.pc \in {"idle", "claimed", "cancelled"} THEN j
  ELSE IF j.clock + 1 < ForwardDeadline THEN [j EXCEPT !.clock = @ + 1]
  ELSE [Idle EXCEPT !.pc = "cancelled"]

\* A tick of time for rows and workers.
Tick ==
  /\ \A w \in Workers : job[w].pc = "claimed" => age[job[w].dep] < MaxReply
  /\ age' = [d \in Deposits |->
               IF row[d].status = "pending" THEN Min2(age[d] + 1, RetryCutoff) ELSE age[d]]
  /\ job' = [p \in Procs |-> IF p \in Workers THEN Deadline(job[p]) ELSE job[p]]
  /\ UNCHANGED <<row, same, intent, queue, batch, network, faults>>

\* The process dies and starts again: what is in memory is gone.
Crash ==
  /\ faults < MaxFaults
  /\ faults' = faults + 1
  /\ job' = [p \in Procs |-> Idle]
  /\ queue' = {}
  /\ batch' = [r \in Retriers |-> [d \in Deposits |-> NoRow]]
  /\ same' = [r \in Retriers |-> {}]
  /\ UNCHANGED <<row, age, intent, network>>

\* A queued transaction is included, and succeeds or fails.
Land(t) ==
  /\ st[t] = "live"
  /\ \E s \in {"ok", "bad"} : st' = [st EXCEPT ![t] = s]
  /\ UNCHANGED <<tables, intent, queue, job, batch, own, pays, view, faults>>

\* Some row waits for the outcome of t; nobody asks RPC about any other.
Awaited(t) == \E d \in Deposits : row[d].sub = t

\* Its max time passes first: no later ledger can include it.
Expire(t) ==
  /\ st[t] = "live" \/ (st[t] = "built" /\ Awaited(t))
  /\ st' = [st EXCEPT ![t] = "gone"]
  /\ UNCHANGED <<tables, intent, queue, job, batch, own, pays, view, faults>>

\* The RPC server ingests the ledger t landed in, or the first after its max
\* time: pastMaxTime goes by the latest ledger RPC has, never by a local clock.
Ingest(t) ==
  /\ Awaited(t)
  /\ view[t] = "unseen"
  /\ st[t] \in {"ok", "bad", "gone"}
  /\ view' = [view EXCEPT ![t] = IF st[t] = "gone" THEN "closed" ELSE "shown"]
  /\ UNCHANGED <<tables, intent, queue, job, batch, st, own, pays, faults>>

\* The ledgers t could be in leave RPC's retention window.
Prune(t) ==
  /\ Awaited(t)
  /\ st[t] \in {"ok", "bad", "gone"}
  /\ view' = [view EXCEPT ![t] = "pruned"]
  /\ UNCHANGED <<tables, intent, queue, job, batch, st, own, pays, faults>>

-----------------------------------------------------------------------------
(* Specification.                                                          *)

\* The submit pipeline, the same for every process.
Pipeline(p) ==
  \/ Lookup(p) \/ MarkSweep(p) \/ Build(p)
  \/ \E t \in Tx : RecordSubmission(p, t)
  \/ SendAccepted(p) \/ SendUnknown(p) \/ SendTryAgain(p) \/ SendRejected(p)
  \/ PollResult(p) \/ ForgetSubmission(p) \/ WriteOutcome(p) \/ CloseIntent(p)

Worker(w) ==
  \/ \E d \in Deposits : ClaimNewForward(w, d)
  \/ StartForward(w) \/ GiveUp(w)

Retrier(r) ==
  \/ ExpireStaleIntents(r) \/ GetPendingRetries(r)
  \/ \E d \in Deposits : TakeRetry(r, d) \/ ClaimPendingForward(r, d)
  \/ ResolveWaits(r) \/ ResolveSubmitted(r)

Environment ==
  \/ \E d \in Deposits : InsertForward(d)
  \/ \E t \in Tx : Land(t) \/ Expire(t) \/ Ingest(t) \/ Prune(t)
  \/ Tick \/ Crash

Next ==
  \/ \E p \in Procs : Pipeline(p)
  \/ \E w \in Workers : Worker(w)
  \/ \E r \in Retriers : Retrier(r)
  \/ Environment

Spec == Init /\ [][Next]_vars

\* Goroutines run, time passes, ledgers close and RPC follows them; an RPC
\* server that is asked again and again answers in the end.  Nothing is assumed
\* of the outcomes of builds and sends, of Land or of Prune.
Fairness ==
  /\ WF_vars(Tick)
  /\ \A p \in Procs : WF_vars(Pipeline(p))
  /\ \A w \in Workers : WF_vars(Worker(w))
  /\ \A r \in Retriers : WF_vars(Retrier(r)) /\ SF_vars(ResolveSubmitted(r))
  /\ \A t \in Tx : WF_vars(Expire(t)) /\ WF_vars(Ingest(t))

FairSpec == Spec /\ Fairness

-----------------------------------------------------------------------------
(* Properties.                                                             *)

\* Every variable has its type.
TypeOK ==
  /\ row \in [Deposits -> Row]
  /\ age \in [Deposits -> Nat]
  /\ intent \in [Memos -> {"pending", "completed", "expired", "failed"}]
  /\ queue \subseteq Deposits
  /\ job \in [Procs -> Job]
  /\ batch \in [Retriers -> [Deposits -> Row]]
  /\ same \in [Retriers -> SUBSET Deposits]
  /\ st \in [Tx -> {"new", "built", "live", "ok", "bad", "gone"}]
  /\ own \in [Tx -> Deposits \cup {NoDeposit}]
  /\ pays \in [Tx -> {"credit", "recovery"}]
  /\ view \in [Tx -> {"unseen", "shown", "closed", "pruned"}]
  /\ faults \in Nat

\* The deposits the forwarder must credit.
Creditable == {d \in Deposits : d \in Accepted /\ MemoOf[d] \in Memos /\ d \notin Late}

\* p holds d: it may still write d's row or send a transfer for it.
Holds(p, d) ==
  /\ job[p].dep = d
  /\ job[p].pc # "intent"

\* The transfers for d that have landed or still can.
InPlay(d, t) == own[t] = d /\ st[t] \in {"live", "ok"}

\* A deposit is paid out at most once, whatever crashes, lost replies, late
\* answers and failed writes come between its attempts (forwarder.go: a second
\* transfer "would pay the C-address twice for one deposit").
PaidAtMostOnce ==
  \A t, u \in Tx :
    st[t] = "ok" /\ st[u] = "ok" /\ own[t] = own[u] => t = u

\* A transfer that has landed or still can is named by its deposit's row, in
\* submitted_tx or forward_tx: at every instant a crash would leave a record of
\* it, which RecordSubmission is written first to guarantee.
TransfersAreOnRecord ==
  \A t \in Tx : \A d \in Deposits :
    InPlay(d, t) => t \in {row[d].sub, row[d].fwd}

\* A row that says done or swept names a transfer that landed, was made for
\* this deposit, and went to the intent's address or to recovery respectively.
BooksMatchTheLedger ==
  \A d \in Deposits :
    row[d].status \in {"done", "swept"} =>
      /\ row[d].fwd \in Tx
      /\ st[row[d].fwd] = "ok"
      /\ own[row[d].fwd] = d
      /\ pays[row[d].fwd] = IF row[d].status = "done" THEN "credit" ELSE "recovery"

\* Only a deposit with an accepted asset, a minted memo and a landing time
\* inside the intent's window is credited, and no such deposit is swept, even
\* when the lookups that decide it fail on the way.
RightDestination ==
  \A t \in Tx : \A d \in Deposits :
    InPlay(d, t) =>
      (pays[t] = "credit" <=> d \in Creditable)

\* No two processes work the same deposit at once: the claims and the worker's
\* deadline keep a watcher worker and the retry worker apart.
OneHolder ==
  \A d \in Deposits : \A p, q \in Procs :
    Holds(p, d) /\ Holds(q, d) => p = q

\* A deposit closed as failed has no transfer that can still land: whoever
\* re-forwards it by hand has at most one recorded hash to look up.
FailedIsOver ==
  \A d \in Deposits :
    row[d].status = "failed" => \A t \in Tx : ~(own[t] = d /\ st[t] = "live")

\* One on-chain transfer settles, or is awaited by, at most one deposit
\* (docs/burst-test-2026-09-27.md: three pairs of deposits recorded the same
\* forward_tx before RecordSubmission refused a hash another row holds).
OneTransferOneDeposit ==
  \A d, e \in Deposits :
    d # e => {row[d].sub, row[d].fwd} \cap {row[e].sub, row[e].fwd} \subseteq {NoTx}

\* A completed intent belongs to a deposit that was credited on-chain.
CompletedIsCredited ==
  \A m \in Memos :
    intent[m] = "completed" =>
      \E t \in Tx : st[t] = "ok" /\ pays[t] = "credit" /\ own[t] \in Deposits
                    /\ MemoOf[own[t]] = m

\* A settled row is never written again.  The UPDATEs do not test the status,
\* so this rests on who may hold a row and when.
SettledIsFinal ==
  [][\A d \in Deposits : row[d].status \in Settled => row'[d] = row[d]]_vars

BookOf(status) ==
  CASE status = "absent" -> "unrecorded"
    [] status = "done"   -> "credited"
    [] status = "swept"  -> "returned"
    [] status = "failed" -> "failed"
    [] OTHER             -> "open"

Ledger == INSTANCE DepositLedger WITH
  Transfers <- Tx,
  book <- [d \in Deposits |-> BookOf(row[d].status)],
  paid <- [d \in Deposits |->
             {<<t, pays[t]>> : t \in {u \in Tx : own[u] = d /\ st[u] = "ok"}}]

\* The tables and the network together are one deposit ledger: every store call
\* and every landing is one of its steps or none.
ImplementsLedger == Ledger!Spec

\* A recorded deposit is never stranded: whatever crashed or failed, it settles
\* or some process takes it up again.
NoDepositIsStranded ==
  \A d \in Deposits :
    row[d].status \in {"pending", "pending_retry"} ~>
      (row[d].status \in Settled \/ \E p \in Procs : Holds(p, d))

\* An unknown outcome does not stay unknown: a recorded hash is looked up until
\* it is settled, cleared, or the row is closed for reconciliation.
EveryTransferIsResolved ==
  \A d \in Deposits : \A t \in Tx :
    row[d].sub = t ~> (row[d].sub # t \/ row[d].status = "failed")
=============================================================================
