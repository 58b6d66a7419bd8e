--------------------------- MODULE ForwardsProofs ---------------------------
(***************************************************************************)
(* Theorems about Forwards, for any number of deposits, workers, retry     *)
(* workers and transactions, and any bounds.                               *)
(***************************************************************************)
EXTENDS ForwardsInvariant, TLAPS

-----------------------------------------------------------------------------
(* Types.                                                                  *)

\* The constant records have their types.
LEMMA ConstantRecords ==
  NoRow \in Row /\ NewRow \in Row /\ Idle \in Job
BY DEF NoRow, NewRow, Row, Idle, Job, Phases, Outcomes

\* A process that becomes j leaves every process with a job.
LEMMA BecomeType ==
  ASSUME job \in [Procs -> Job], NEW p \in Procs, NEW j \in Job, Become(p, j)
  PROVE  job' \in [Procs -> Job]
BY DEF Become

\* An UPDATE of one row keeps the tables well typed.
LEMMA UpdateType ==
  ASSUME row \in [Deposits -> Row], age \in [Deposits -> Nat],
         same \in [Retriers -> SUBSET Deposits],
         NEW d, NEW r, NEW eff, d \in Deposits => r \in Row, Update(d, r, eff)
  PROVE  /\ row' \in [Deposits -> Row]
         /\ age' \in [Deposits -> Nat]
         /\ same' \in [Retriers -> SUBSET Deposits]
<1>1. CASE eff
  <2>1. d \in Deposits => [r EXCEPT !.fresh = FALSE] \in Row
    BY DEF Row
  <2>2. row' \in [Deposits -> Row]
    BY <1>1, <2>1 DEF Update
  <2>3. age' \in [Deposits -> Nat]
    BY <1>1 DEF Update
  <2>4. same' \in [Retriers -> SUBSET Deposits]
    BY <1>1 DEF Update
  <2>5. QED
    BY <2>2, <2>3, <2>4
<1>2. CASE ~eff
  BY <1>2 DEF Update, tables
<1>3. QED
  BY <1>1, <1>2

\* A store call leaves the fault counter a number.
LEMMA CallType ==
  ASSUME faults \in Nat, NEW ok, NEW eff, Call(ok, eff)
  PROVE  faults' \in Nat
BY DEF Call

\* Whatever the outcome of a transfer, its caller goes on with a job.
LEMMA AfterTransferType ==
  ASSUME job \in [Procs -> Job], NEW p \in Procs, NEW out \in Outcomes
  PROVE  AfterTransfer(p, out) \in Job
<1> DEFINE j == [job[p] EXCEPT !.again = 0, !.fee = 0]
<1>1. j \in Job /\ job[p] \in Job
  BY DEF Job
<1>2. [j EXCEPT !.pc = "build", !.out = "none", !.tx = NoTx, !.tries = @ + 1] \in Job
  <2>1. j.tries + 1 \in Nat
    BY <1>1 DEF Job
  <2> HIDE DEF j
  <2>2. QED
    BY <1>1, <2>1 DEF Job, Phases, Outcomes
<1>3. [j EXCEPT !.pc = "write", !.out = out, !.tx = IF out = "ok" THEN @ ELSE NoTx] \in Job
  BY <1>1 DEF Job, Phases
<1>4. QED
  BY <1>2, <1>3 DEF AfterTransfer

\* Retry goes on with a job.
LEMMA ProceedType ==
  ASSUME NEW j \in Job
  PROVE  Proceed(j) \in Job
BY DEF Proceed, Job, Phases, Outcomes

LEMMA BeginType ==
  ASSUME batch \in [Retriers -> [Deposits -> Row]], NEW r \in Retriers, NEW d \in Deposits
  PROVE  Begin(r, d) \in Job
<1> DEFINE j == [Idle EXCEPT !.dep = d, !.seen = batch[r][d], !.sweep = batch[r][d].sweep]
<1>1. batch[r][d] \in Row
  OBVIOUS
<1>2. j \in Job
  BY <1>1, ConstantRecords DEF Job, Row
<1>3. [j EXCEPT !.pc = "resolve"] \in Job
  BY <1>2 DEF Job, Phases
<1>4. QED
  BY <1>2, <1>3, ProceedType DEF Begin

\* The row written for an outcome is a row.
LEMMA OutcomeType ==
  ASSUME job \in [Procs -> Job], NEW p \in Procs, NEW r \in Row
  PROVE  Outcome(p, r) \in Row
<1>1. job[p] \in Job
  OBVIOUS
<1>2. Charged(r.retries) \in Nat
  BY DEF Charged, Row
<1>3. [r EXCEPT !.status = IF job[p].sweep THEN "swept" ELSE "done",
                !.fwd = job[p].tx, !.sub = NoTx] \in Row
  BY <1>1 DEF Row, Job, Settled
<1>4. \A s \in {"pending_retry", "failed"} :
        /\ [r EXCEPT !.status = s] \in Row
        /\ [r EXCEPT !.status = s, !.retries = Charged(@)] \in Row
  BY <1>2 DEF Row, Settled
<1>5. QED
  BY <1>3, <1>4 DEF Outcome
\* Jobs with some fields replaced are jobs.
LEMMA JobWith ==
  ASSUME NEW j \in Job
  PROVE  /\ \A ph \in Phases : [j EXCEPT !.pc = ph] \in Job
         /\ \A ph \in Phases, o \in Outcomes : [j EXCEPT !.pc = ph, !.out = o] \in Job
         /\ \A ph \in Phases, b \in BOOLEAN : [j EXCEPT !.pc = ph, !.sweep = b] \in Job
         /\ \A ph \in Phases, t \in Tx : [j EXCEPT !.pc = ph, !.tx = t] \in Job
         /\ \A ph \in Phases, o \in Outcomes, t \in Tx \cup {NoTx} :
              [j EXCEPT !.pc = ph, !.out = o, !.tx = t] \in Job
         /\ [j EXCEPT !.again = @ + 1] \in Job
         /\ [j EXCEPT !.clock = @ + 1] \in Job
         /\ [j EXCEPT !.pc = "record", !.out = "none", !.tx = NoTx,
                       !.again = 0, !.fee = @ + 1] \in Job
<1>1. j.again + 1 \in Nat /\ j.clock + 1 \in Nat /\ j.fee + 1 \in Nat
  BY DEF Job
<1>2. /\ \A ph \in Phases : [j EXCEPT !.pc = ph] \in Job
      /\ \A ph \in Phases, o \in Outcomes : [j EXCEPT !.pc = ph, !.out = o] \in Job
      /\ \A ph \in Phases, b \in BOOLEAN : [j EXCEPT !.pc = ph, !.sweep = b] \in Job
  BY DEF Job
<1>3. /\ \A ph \in Phases, t \in Tx : [j EXCEPT !.pc = ph, !.tx = t] \in Job
      /\ \A ph \in Phases, o \in Outcomes, t \in Tx \cup {NoTx} :
           [j EXCEPT !.pc = ph, !.out = o, !.tx = t] \in Job
  BY DEF Job
<1>4. [j EXCEPT !.again = @ + 1] \in Job /\ [j EXCEPT !.clock = @ + 1] \in Job
  BY <1>1 DEF Job
<1>5. [j EXCEPT !.pc = "record", !.out = "none", !.tx = NoTx,
                !.again = 0, !.fee = @ + 1] \in Job
  BY <1>1 DEF Job, Phases, Outcomes
<1>6. QED
  BY <1>2, <1>3, <1>4, <1>5

\* Every step leaves the variables well typed.
LEMMA TypeStep ==
  ASSUME TypeOK, Next
  PROVE  TypeOK'
<1> USE DEF TypeOK
<1>1. ASSUME NEW p \in Procs, Pipeline(p)
      PROVE  TypeOK'
  <2> USE <1>1
  <2> DEFINE d == job[p].dep
  <2>0. job[p] \in Job /\ (d \in Deposits => row[d] \in Row)
    OBVIOUS
  <2>1. CASE Lookup(p)
    <3>1. \A ph \in Phases : [job[p] EXCEPT !.pc = ph] \in Job
      BY <2>0, JobWith
    <3>2. RetryOnError(p) \in Job
      BY <2>0, JobWith DEF RetryOnError, Phases, Outcomes
    <3>3. job' \in [Procs -> Job] /\ faults' \in Nat
      BY <2>1, <3>1, <3>2, CallType DEF Lookup, Become, Phases
    <3>4. QED
      BY <2>1, <3>3 DEF Lookup, tables, network
  <2>2. CASE MarkSweep(p)
    <3>1. /\ [job[p] EXCEPT !.pc = "build", !.sweep = TRUE] \in Job
          /\ [job[p] EXCEPT !.pc = "write", !.out = "error"] \in Job
      BY <2>0, JobWith DEF Phases, Outcomes
    <3>2. d \in Deposits => [row[d] EXCEPT !.sweep = TRUE] \in Row
      BY <2>0 DEF Row
    <3>3. PICK ok, eff \in BOOLEAN :
            /\ Call(ok, eff)
            /\ Update(d, [row[d] EXCEPT !.sweep = TRUE], eff)
            /\ Become(p, IF ok THEN [job[p] EXCEPT !.pc = "build", !.sweep = TRUE]
                               ELSE [job[p] EXCEPT !.pc = "write", !.out = "error"])
      BY <2>2 DEF MarkSweep
    <3>4. faults' \in Nat
      BY <3>3, CallType
    <3>5. /\ row' \in [Deposits -> Row] /\ age' \in [Deposits -> Nat]
          /\ same' \in [Retriers -> SUBSET Deposits]
      BY <3>2, <3>3, UpdateType
    <3>6. job' \in [Procs -> Job]
      BY <3>1, <3>3, BecomeType
    <3>7. QED
      BY <2>2, <3>4, <3>5, <3>6 DEF MarkSweep, network
  <2>3. CASE Build(p)
    <3>1. [job[p] EXCEPT !.pc = "record"] \in Job
      BY <2>0, JobWith DEF Phases
    <3>2. \A out \in {"contention", "transient", "permanent"} : AfterTransfer(p, out) \in Job
      BY AfterTransferType DEF Outcomes
    <3>3. job' \in [Procs -> Job]
      BY <2>3, <3>1, <3>2, BecomeType DEF Build, SourceFails, SweepFails, PaymentFails
    <3>4. QED
      BY <2>3, <3>3 DEF Build, tables, network
  <2>4. ASSUME NEW t \in Tx, RecordSubmission(p, t)
        PROVE  TypeOK'
    <3> USE <2>4
    <3> DEFINE claimed == SubmissionClaimed(d, t)
               goesOn(ok) == IF ~ok THEN AfterTransfer(p, "transient")
                             ELSE IF claimed THEN AfterTransfer(p, "contention")
                             ELSE [job[p] EXCEPT !.pc = "send", !.tx = t]
    <3>1. \A ok : goesOn(ok) \in Job
      BY <2>0, JobWith, AfterTransferType DEF Phases, Outcomes
    <3>2. d \in Deposits => [row[d] EXCEPT !.sub = t] \in Row
      BY <2>0 DEF Row
    <3>3. PICK ok, eff \in BOOLEAN :
            /\ Call(ok, eff)
            /\ Update(d, [row[d] EXCEPT !.sub = t], eff /\ ~claimed)
            /\ Become(p, goesOn(ok))
            /\ IF eff /\ Unused(d, t)
               THEN /\ st' = [st EXCEPT ![t] = "built"]
                    /\ own' = [own EXCEPT ![t] = d]
                    /\ pays' = [pays EXCEPT ![t] = Destination(p)]
                    /\ view' = [view EXCEPT ![t] = "unseen"]
               ELSE UNCHANGED network
      BY DEF RecordSubmission
    <3>4. faults' \in Nat
      BY <3>3, CallType
    <3>5. /\ row' \in [Deposits -> Row] /\ age' \in [Deposits -> Nat]
          /\ same' \in [Retriers -> SUBSET Deposits]
      BY <3>2, <3>3, UpdateType
    <3>6. job' \in [Procs -> Job]
      BY <3>1, <3>3, BecomeType
    <3>7. d \in Deposits \cup {NoDeposit} /\ Destination(p) \in {"credit", "recovery"}
      BY <2>0 DEF Job, Destination
    <3>8. /\ st' \in [Tx -> {"new", "built", "live", "ok", "bad", "gone"}]
          /\ own' \in [Tx -> Deposits \cup {NoDeposit}]
          /\ pays' \in [Tx -> {"credit", "recovery"}]
          /\ view' \in [Tx -> {"unseen", "shown", "closed", "pruned"}]
      BY <3>3, <3>7 DEF network
    <3>9. QED
      BY <3>4, <3>5, <3>6, <3>8 DEF RecordSubmission
  <2>5. CASE SendAccepted(p)
    <3>1. PollOnAccept(p) \in Job
      BY <2>0, JobWith DEF PollOnAccept, Phases
    <3>2. job' \in [Procs -> Job]
      BY <2>5, <3>1, BecomeType DEF SendAccepted
    <3>3. st' \in [Tx -> {"new", "built", "live", "ok", "bad", "gone"}]
      BY <2>5 DEF SendAccepted
    <3>4. QED
      BY <2>5, <3>2, <3>3 DEF SendAccepted, tables
  <2>6. CASE SendUnknown(p)
    <3>1. KeepOnUnknown(p) \in Job
      BY AfterTransferType DEF KeepOnUnknown, Outcomes
    <3>2. job' \in [Procs -> Job]
      BY <2>6, <3>1, BecomeType DEF SendUnknown
    <3>3. st' \in [Tx -> {"new", "built", "live", "ok", "bad", "gone"}]
      BY <2>6 DEF SendUnknown
    <3>4. QED
      BY <2>6, <3>2, <3>3 DEF SendUnknown, tables
  <2>7. CASE SendTryAgain(p)
    <3>1. /\ [job[p] EXCEPT !.again = @ + 1] \in Job
          /\ [job[p] EXCEPT !.pc = "forget", !.out = "transient"] \in Job
      BY <2>0, JobWith DEF Phases, Outcomes
    <3>2. job' \in [Procs -> Job]
      BY <2>7, <3>1, BecomeType DEF SendTryAgain
    <3>3. QED
      BY <2>7, <3>2 DEF SendTryAgain, tables, network
  <2>8. CASE SendRejected(p)
    <3>1. \A out \in {"fee", "contention", "transient", "permanent"} :
            [job[p] EXCEPT !.pc = "forget", !.out = out] \in Job
      BY <2>0, JobWith DEF Phases, Outcomes
    <3>2. job' \in [Procs -> Job]
      BY <2>8, <3>1, BecomeType DEF SendRejected
    <3>3. QED
      BY <2>8, <3>2 DEF SendRejected, tables, network
  <2>9. CASE PollResult(p)
    <3>1. /\ AfterTransfer(p, "ok") \in Job
          /\ AfterTransfer(p, "unconfirmed") \in Job
          /\ \A out \in {"contention", "transient", "permanent"} :
               [job[p] EXCEPT !.pc = "forget", !.out = out] \in Job
      BY <2>0, JobWith, AfterTransferType DEF Phases, Outcomes
    <3>2. job' \in [Procs -> Job]
      BY <2>9, <3>1, BecomeType DEF PollResult
    <3>3. QED
      BY <2>9, <3>2 DEF PollResult, tables, network
  <2>10. CASE ForgetSubmission(p)
    <3> DEFINE goesOn(ok) ==
          IF job[p].out = "rebuild"
          THEN IF ok THEN Proceed(job[p]) ELSE Idle
          ELSE IF job[p].out = "fee"
          THEN IF job[p].fee < MaxFeeRetries
               THEN [job[p] EXCEPT !.pc = "record", !.out = "none", !.tx = NoTx,
                                   !.again = 0, !.fee = @ + 1]
               ELSE AfterTransfer(p, "transient")
          ELSE AfterTransfer(p, job[p].out)
    <3>1. \A ok : goesOn(ok) \in Job
      <4>1. AfterTransfer(p, "transient") \in Job /\ AfterTransfer(p, job[p].out) \in Job
        BY <2>0, AfterTransferType DEF Job, Outcomes
      <4>2. QED
        BY <2>0, <4>1, JobWith, ProceedType, ConstantRecords
    <3>2. d \in Deposits => [row[d] EXCEPT !.sub = NoTx] \in Row
      BY <2>0 DEF Row
    <3>3. PICK ok, eff \in BOOLEAN :
            /\ Call(ok, eff)
            /\ Update(d, [row[d] EXCEPT !.sub = NoTx], eff)
            /\ Become(p, goesOn(ok))
      BY <2>10 DEF ForgetSubmission
    <3>4. faults' \in Nat
      BY <3>3, CallType
    <3>5. /\ row' \in [Deposits -> Row] /\ age' \in [Deposits -> Nat]
          /\ same' \in [Retriers -> SUBSET Deposits]
      BY <3>2, <3>3, UpdateType
    <3>6. job' \in [Procs -> Job]
      BY <3>1, <3>3, BecomeType
    <3>7. QED
      BY <2>10, <3>4, <3>5, <3>6 DEF ForgetSubmission, network
  <2>11. CASE WriteOutcome(p)
    <3>1. d \in Deposits => Outcome(p, row[d]) \in Row
      BY <2>0, OutcomeType
    <3>2. PICK ok, eff \in BOOLEAN :
            Call(ok, eff) /\ Update(d, Outcome(p, row[d]), eff)
      BY <2>11 DEF WriteOutcome
    <3>3. faults' \in Nat
      BY <3>2, CallType
    <3>4. /\ row' \in [Deposits -> Row] /\ age' \in [Deposits -> Nat]
          /\ same' \in [Retriers -> SUBSET Deposits]
      BY <3>1, <3>2, UpdateType
    <3>5. job' \in [Procs -> Job]
      <4>1. [job[p] EXCEPT !.pc = "intent"] \in Job
        BY <2>0, JobWith DEF Phases
      <4>2. QED
        BY <2>11, <4>1, ConstantRecords, BecomeType DEF WriteOutcome
    <3>6. QED
      BY <2>11, <3>3, <3>4, <3>5 DEF WriteOutcome, network
  <2>12. CASE CloseIntent(p)
    <3>1. job' \in [Procs -> Job]
      BY <2>12, ConstantRecords, BecomeType DEF CloseIntent
    <3>2. \A s \in {"pending", "completed", "expired", "failed"} :
            Closed(p, s) \in {"pending", "completed", "expired", "failed"}
      BY DEF Closed
    <3>3. intent' \in [Memos -> {"pending", "completed", "expired", "failed"}]
      BY <2>12, <3>2 DEF CloseIntent
    <3>4. faults' \in Nat
      BY <2>12, CallType DEF CloseIntent
    <3>5. QED
      BY <2>12, <3>1, <3>3, <3>4 DEF CloseIntent, tables, network
  <2>13. QED
    BY <2>1, <2>2, <2>3, <2>4, <2>5, <2>6, <2>7, <2>8, <2>9, <2>10, <2>11, <2>12 DEF Pipeline
<1>2. ASSUME NEW w \in Workers, Worker(w)
      PROVE  TypeOK'
  <2> USE <1>2
  <2>0. w \in Procs /\ job[w] \in Job
    BY DEF Procs
  <2>1. ASSUME NEW d \in Deposits, ClaimNewForward(w, d)
        PROVE  TypeOK'
    <3> USE <2>1
    <3>1. [Idle EXCEPT !.pc = "claimed", !.dep = d] \in Job
      BY ConstantRecords DEF Job, Phases
    <3>2. PICK ok, eff \in BOOLEAN :
            /\ Call(ok, eff)
            /\ Update(d, row[d], eff /\ Untouched(d))
            /\ Become(w, IF ok /\ Untouched(d)
                         THEN [Idle EXCEPT !.pc = "claimed", !.dep = d] ELSE Idle)
      BY DEF ClaimNewForward
    <3>3. faults' \in Nat
      BY <3>2, CallType
    <3>4. /\ row' \in [Deposits -> Row] /\ age' \in [Deposits -> Nat]
          /\ same' \in [Retriers -> SUBSET Deposits]
      <4>1. row[d] \in Row
        OBVIOUS
      <4>2. QED
        BY <3>2, <4>1, UpdateType
    <3>5. job' \in [Procs -> Job]
      BY <2>0, <3>1, <3>2, ConstantRecords, BecomeType
    <3>6. QED
      BY <3>3, <3>4, <3>5 DEF ClaimNewForward, network
  <2>2. CASE StartForward(w)
    <3>1. [job[w] EXCEPT !.pc = "lookup"] \in Job
      BY <2>0, JobWith DEF Phases
    <3>2. job' \in [Procs -> Job]
      BY <2>0, <2>2, <3>1, BecomeType DEF StartForward
    <3>3. QED
      BY <2>2, <3>2 DEF StartForward, tables, network
  <2>3. CASE GiveUp(w)
    <3>1. job' \in [Procs -> Job]
      BY <2>0, <2>3, ConstantRecords, BecomeType DEF GiveUp
    <3>2. QED
      BY <2>3, <3>1 DEF GiveUp, tables, network
  <2>4. QED
    BY <2>1, <2>2, <2>3 DEF Worker
<1>3. ASSUME NEW r \in Retriers, Retrier(r)
      PROVE  TypeOK'
  <2> USE <1>3
  <2>0. r \in Procs /\ job[r] \in Job
    BY DEF Procs
  <2>1. CASE ExpireStaleIntents(r)
    <3>1. [Idle EXCEPT !.pc = "fetch"] \in Job
      BY ConstantRecords, JobWith DEF Phases
    <3>2. job' \in [Procs -> Job]
      BY <2>0, <2>1, <3>1, BecomeType DEF ExpireStaleIntents
    <3>3. intent' \in [Memos -> {"pending", "completed", "expired", "failed"}]
      BY <2>1 DEF ExpireStaleIntents
    <3>4. QED
      BY <2>1, <3>2, <3>3 DEF ExpireStaleIntents, tables, network
  <2>2. CASE GetPendingRetries(r)
    <3>1. job' \in [Procs -> Job]
      BY <2>0, <2>2, ConstantRecords, BecomeType DEF GetPendingRetries
    <3>2. faults' \in Nat
      BY <2>2, CallType DEF GetPendingRetries
    <3>3. [d \in Deposits |-> IF RetryDue(d) THEN row[d] ELSE NoRow] \in [Deposits -> Row]
      BY ConstantRecords
    <3>4. batch' \in [Retriers -> [Deposits -> Row]]
      BY <2>2, <3>3 DEF GetPendingRetries
    <3>5. same' \in [Retriers -> SUBSET Deposits]
      BY <2>2 DEF GetPendingRetries
    <3>6. QED
      BY <2>2, <3>1, <3>2, <3>4, <3>5 DEF GetPendingRetries, network
  <2>3. ASSUME NEW d \in Deposits, TakeRetry(r, d)
        PROVE  TypeOK'
    <3> USE <2>3
    <3>1. job' \in [Procs -> Job]
      BY <2>0, BeginType, BecomeType DEF TakeRetry
    <3>2. batch' \in [Retriers -> [Deposits -> Row]]
      BY ConstantRecords DEF TakeRetry
    <3>3. same' \in [Retriers -> SUBSET Deposits]
      BY DEF TakeRetry
    <3>4. QED
      BY <3>1, <3>2, <3>3 DEF TakeRetry, network
  <2>4. ASSUME NEW d \in Deposits, ClaimPendingForward(r, d)
        PROVE  TypeOK'
    <3> USE <2>4
    <3> DEFINE claims == row[d].status = "pending" /\ d \in same[r]
    <3>1. PICK ok, eff \in BOOLEAN :
            /\ Call(ok, eff)
            /\ Become(r, IF ok /\ claims THEN Begin(r, d) ELSE Idle)
            /\ IF eff /\ claims
               THEN Update(d, row[d], TRUE)
               ELSE same' = [same EXCEPT ![r] = @ \ {d}] /\ UNCHANGED <<row, age>>
      BY DEF ClaimPendingForward
    <3>2. faults' \in Nat
      BY <3>1, CallType
    <3>3. job' \in [Procs -> Job]
      BY <2>0, <3>1, BeginType, ConstantRecords, BecomeType
    <3>4. batch' \in [Retriers -> [Deposits -> Row]]
      BY ConstantRecords DEF ClaimPendingForward
    <3>5. /\ row' \in [Deposits -> Row] /\ age' \in [Deposits -> Nat]
          /\ same' \in [Retriers -> SUBSET Deposits]
      <4>1. row[d] \in Row
        OBVIOUS
      <4>2. CASE eff /\ claims
        BY <3>1, <4>1, <4>2, UpdateType
      <4>3. CASE ~(eff /\ claims)
        <5>1. UNCHANGED <<row, age>> /\ same' = [same EXCEPT ![r] = @ \ {d}]
          BY <3>1, <4>3
        <5>2. QED
          BY <5>1
      <4>4. QED
        BY <4>2, <4>3
    <3>6. QED
      BY <3>2, <3>3, <3>4, <3>5 DEF ClaimPendingForward, network
  <2>5. CASE ResolveWaits(r)
    <3>1. [job[r] EXCEPT !.pc = "write", !.out = "unconfirmed"] \in Job
      BY <2>0, JobWith DEF Phases, Outcomes
    <3>2. job' \in [Procs -> Job]
      BY <2>0, <2>5, <3>1, BecomeType DEF ResolveWaits
    <3>3. QED
      BY <2>5, <3>2 DEF ResolveWaits, tables, network
  <2>6. CASE ResolveSubmitted(r)
    <3> DEFINE t == job[r].seen.sub
    <3>1. t \in Tx \cup {NoTx}
      BY <2>0 DEF Job, Row
    <3>2. \A out \in {"ok", "permanent", "lost"} :
            [job[r] EXCEPT !.pc = "write", !.out = out,
                           !.tx = IF out = "ok" THEN t ELSE NoTx] \in Job
      <4>1. SUFFICES ASSUME NEW out \in {"ok", "permanent", "lost"}
                     PROVE  [job[r] EXCEPT !.pc = "write", !.out = out,
                               !.tx = IF out = "ok" THEN t ELSE NoTx] \in Job
        OBVIOUS
      <4>2. (IF out = "ok" THEN t ELSE NoTx) \in Tx \cup {NoTx}
        BY <3>1
      <4>3. "write" \in Phases /\ out \in Outcomes
        BY DEF Phases, Outcomes
      <4> HIDE DEF t
      <4>4. QED
        BY <2>0, <4>2, <4>3, JobWith
    <3>3. [job[r] EXCEPT !.pc = "forget", !.out = "rebuild"] \in Job
      BY <2>0, JobWith DEF Phases, Outcomes
    <3>4. job' \in [Procs -> Job]
      BY <2>0, <2>6, <3>2, <3>3, BecomeType DEF ResolveSubmitted
    <3>5. QED
      BY <2>6, <3>4 DEF ResolveSubmitted, tables, network
  <2>7. QED
    BY <2>1, <2>2, <2>3, <2>4, <2>5, <2>6 DEF Retrier
<1>4. CASE Environment
  <2>1. ASSUME NEW d \in Deposits, InsertForward(d)
        PROVE  TypeOK'
    BY <2>1, ConstantRecords DEF InsertForward, network
  <2>2. ASSUME NEW t \in Tx, Land(t) \/ Expire(t) \/ Ingest(t) \/ Prune(t)
        PROVE  TypeOK'
    BY <2>2 DEF Land, Expire, Ingest, Prune, tables
  <2>3. CASE Tick
    <3>1. \A p \in Procs : Deadline(job[p]) \in Job
      <4>1. [Idle EXCEPT !.pc = "cancelled"] \in Job
        BY ConstantRecords, JobWith DEF Phases
      <4>2. QED
        BY <4>1, JobWith DEF Deadline
    <3>2. job' \in [Procs -> Job]
      BY <2>3, <3>1 DEF Tick
    <3>3. age' \in [Deposits -> Nat]
      BY <2>3, BoundsAreNaturals DEF Tick, Min2
    <3>4. QED
      BY <2>3, <3>2, <3>3 DEF Tick, network
  <2>4. CASE Crash
    BY <2>4, ConstantRecords DEF Crash, network
  <2>5. QED
    BY <1>4, <2>1, <2>2, <2>3, <2>4 DEF Environment
<1>5. QED
  BY <1>1, <1>2, <1>3, <1>4 DEF Next

\* Every variable keeps its type, whatever the constants: TypeOK is inductive.
THEOREM TypeCorrect == Spec => []TypeOK
<1>1. Init => TypeOK
  BY ConstantRecords DEF Init, TypeOK
<1>2. TypeOK /\ [Next]_vars => TypeOK'
  <2> SUFFICES ASSUME TypeOK, [Next]_vars PROVE TypeOK'
    OBVIOUS
  <2>1. CASE Next
    BY <2>1, TypeStep
  <2>2. CASE UNCHANGED vars
    BY <2>2 DEF vars, TypeOK
  <2>3. QED
    BY <2>1, <2>2
<1>3. QED
  BY <1>1, <1>2, PTL DEF Spec
=============================================================================
