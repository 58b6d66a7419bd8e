---------------------------- MODULE SponsorProofs ----------------------------
(***************************************************************************)
(* Theorems about Sponsor, for any number of submissions, request ids,     *)
(* gasless processes and faults and any time limits: a request is paid for *)
(* at most once; and, when a submission has sent before its record gets    *)
(* stale, whatever the network has is on its record, what the records say  *)
(* is what happened, and the limits on a wallet hold.                      *)
(*                                                                         *)
(* The argument turns on who may still send for a request.  Reserve lets   *)
(* one submission in per request id, and that one seals a transaction only *)
(* while none of its earlier ones can land; once it has sent, nobody does. *)
(* The resolver comes in when that is over, so what it finds, or no longer *)
(* can find, is the whole truth about the request.                         *)
(***************************************************************************)
EXTENDS Sponsor, FiniteSetTheorems, TLAPS

-----------------------------------------------------------------------------
(* The inductive invariant that needs no assumption on times.              *)

\* Steps of a submission after its reservation, and those before it has sent.
OwnSteps == {"lease", "seal", "send", "poll", "finish"}
UnsentSteps == {"lease", "seal", "send"}
HashSteps == {"send", "poll"}

\* A transaction that has cost the funder, or still can.
Live(x) == Landed(x) \/ CanLand(x)

NoneLive(i) == \A x \in Txs : tx[x].id = i => ~Live(x)

\* A submission works for one reserved request, whose transaction it names, and has
\* nothing live before it sends.
RunFits(c) ==
  /\ run[c].pc = "start" => run[c].leases = 0
  /\ run[c].pc = "reserve" => run[c].id \in Ids /\ run[c].body \in Bodies /\ run[c].leases = 0
  /\ run[c].pc = "lease" => run[c].leases < MaxLeaseRetries
  /\ run[c].pc \in OwnSteps => run[c].id \in Ids /\ rec[run[c].id].status # "absent"
  /\ run[c].pc \in HashSteps => run[c].hash \in Txs /\ tx[run[c].hash].id = run[c].id
  /\ run[c].pc \in UnsentSteps => NoneLive(run[c].id)

OwnedOnce ==
  \A c, d \in Calls :
    run[c].pc \in OwnSteps /\ run[d].pc \in OwnSteps /\ run[c].id = run[d].id => c = d

\* At most one transaction of a request is live, and a landed one has its fee.
LiveIsOne ==
  /\ \A x \in Txs : Live(x) => tx[x].id \in Ids
  /\ \A x, y \in Txs : Live(x) /\ Live(y) /\ tx[x].id = tx[y].id => x = y
  /\ \A x \in Txs : Landed(x) => tx[x].fee \in 1 .. MaxFee

AbsentIsUnused == \A i \in Ids : rec[i].status = "absent" => \A x \in Txs : tx[x].id # i

StaleIsReserved ==
  \A r \in Resolvers :
    stale[r].pc # "idle" => stale[r].id \in Ids /\ rec[stale[r].id].status # "absent"

BaseInv ==
  /\ TypeOK
  /\ \A c \in Calls : RunFits(c)
  /\ OwnedOnce /\ LiveIsOne /\ AbsentIsUnused /\ StaleIsReserved

-----------------------------------------------------------------------------
(* The inductive invariant for prompt submitters.                          *)

\* A record of this age says nothing about its transaction yet, or the transaction
\* is over and can be found.
Timely(age, x) ==
  /\ ~Landed(x) /\ InTime(x) => age + tx[x].left <= TxValidity
  /\ Landed(x) => age <= TxValidity + tx[x].since \/ tx[x].since = RpcLag + 1

\* An outcome about to be recorded for a request is true.
OutcomeFits(i, o) ==
  /\ o.hash \in {NoHash, rec[i].hash}
  /\ o.status = "rejected" /\ RpcLag <= LedgerTime => NoneLive(i)
  /\ o.status \in {"success", "failed"} =>
       /\ o.hash \in Txs /\ tx[o.hash].state = o.status
       /\ o.fee \in {NoFee, tx[o.hash].fee}
  /\ o.status \notin {"success", "failed"} => o.fee = NoFee

RunIsPrompt(c) ==
  /\ run[c].pc \in UnsentSteps =>
       rec[run[c].id].status = "pending" /\ rec[run[c].id].age <= StaleAfter
  /\ run[c].pc \in HashSteps => rec[run[c].id].hash = run[c].hash
  /\ run[c].pc = "finish" => OutcomeFits(run[c].id, run[c].out)

\* A resolver works on a request nobody will send for any more.
StaleIsSent(r) ==
  /\ stale[r].pc # "idle" =>
       \A c \in Calls : run[c].pc \in UnsentSteps => run[c].id # stale[r].id
  /\ stale[r].pc = "look" =>
       /\ stale[r].hash = rec[stale[r].id].hash
       /\ stale[r].hash \in Txs => Timely(stale[r].age, stale[r].hash)
  /\ stale[r].pc = "finish" => OutcomeFits(stale[r].id, stale[r].out)

RecordIsTrue(i) ==
  /\ rec[i].hash \in Txs => tx[rec[i].hash].id = i
  /\ rec[i].status \in InFlight /\ rec[i].hash \in Txs => Timely(rec[i].age, rec[i].hash)
  /\ rec[i].status \notin {"success", "failed"} => rec[i].fee = NoFee
  /\ rec[i].status = "rejected" /\ RpcLag <= LedgerTime => NoneLive(i)
  /\ rec[i].status \in {"success", "failed"} =>
       /\ rec[i].hash \in Txs /\ tx[rec[i].hash].state = rec[i].status
       /\ rec[i].fee \in {NoFee, tx[rec[i].hash].fee}

PromptInv ==
  /\ \A c \in Calls : RunIsPrompt(c)
  /\ \A r \in Resolvers : StaleIsSent(r)
  /\ \A i \in Ids : RecordIsTrue(i)
  /\ SentIsOnRecord

\* What the limits are kept by: the rows counted when the last one was let in.
Exposed(w) == {i \in Rows(w, "forward") : rec[i].status \in InFlight \cup {"failed"}}

LimitInv ==
  /\ IsFiniteSet({i \in Ids : rec[i].status # "absent"})
  /\ \A i \in Ids : rec[i].status # "absent" => rec[i].body \in Bodies
  /\ \A w \in AllWallets :
       /\ Cardinality(Rows(w, "sponsored")) <= MaxTxPerWallet
       /\ Cardinality(Exposed(w)) < MaxForwardFailuresPerWallet + MaxForwardInFlightPerWallet

\* The day's rows, of all wallets.
Sponsored == UNION {Rows(v, "sponsored") : v \in AllWallets}

SpendInv ==
  /\ \A w \in AllWallets : spendSQL(Rows(w, "sponsored")) <= MaxStroopsPerWallet
  /\ spendSQL(Sponsored) <= MaxStroopsPerDay

IInv == BaseInv /\ PromptInv /\ LimitInv /\ SpendInv

-----------------------------------------------------------------------------
(* Types.                                                                  *)

LEMMA Values ==
  /\ \A s \in {"start", "done", "finish"} : NoRun(s) \in Run
  /\ Idle \in Stale
  /\ \A i \in Ids \cup {NoId} : NewTx(i) \in Tx
  /\ \A x \in Txs \cup {NoHash} : Rejected(x) \in Outcome /\ Unconfirmed(x) \in Outcome
  /\ \A b \in Bodies : Reserved(b) \in Record
<1>1. /\ TxValidity \in Nat /\ TxValidity > 0 /\ LedgerTime \in Nat /\ RpcLag \in Nat
      /\ MaxFee \in Nat /\ MaxFee > 0 /\ MaxLeaseRetries \in Nat /\ MaxFeeRetries \in Nat
      /\ -1 \in Over .. TxValidity /\ 0 \in 0 .. Old /\ 0 \in 0 .. RpcLag + 1 /\ 0 \in 0 .. MaxFee
      /\ 0 \in 0 .. MaxLeaseRetries /\ 0 \in 0 .. MaxFeeRetries
  BY ConstantsAreRight DEF Over, Old
<1>2. \A x \in Txs \cup {NoHash} : Rejected(x) \in Outcome /\ Unconfirmed(x) \in Outcome
  BY DEF Rejected, Unconfirmed, Outcome, Final
<1>3. Rejected(NoHash) \in Outcome
  BY <1>2
<1>4. \A s \in {"start", "done", "finish"} : NoRun(s) \in Run
  BY <1>1, <1>3 DEF NoRun, Run, Over
<1>5. Idle \in Stale
  BY <1>1, <1>3 DEF Idle, Stale
<1>6. \A i \in Ids \cup {NoId} : NewTx(i) \in Tx
  BY <1>1 DEF NewTx, Tx, Over
<1>7. \A b \in Bodies : Reserved(b) \in Record
  BY <1>1 DEF Reserved, Record, InFlight
<1> QED BY <1>2, <1>4, <1>5, <1>6, <1>7

LEMMA FaultType ==
  ASSUME TypeOK, Fault \/ UNCHANGED faults
  PROVE  faults' \in 0 .. MaxFaults
BY ConstantsAreRight DEF TypeOK, Fault

\* The writes to the table keep its type, and no row goes away.
LEMMA WritesFit ==
  ASSUME TypeOK, NEW i \in Ids, rec[i].status # "absent"
  PROVE  /\ \A x \in Txs : /\ SetHash(i, x) \in [Ids -> Record]
                           /\ \A j \in Ids : SetHash(i, x)[j].status = rec[j].status
         /\ \A o \in Outcome : /\ Finish(i, o) \in [Ids -> Record]
                               /\ \A j \in Ids : rec[j].status # "absent" => Finish(i, o)[j].status # "absent"
                               /\ \A j \in Ids : rec[j].status = "absent" => Finish(i, o)[j] = rec[j]
<1>1. rec \in [Ids -> Record] /\ rec[i] \in Record /\ 0 \in 0 .. Old
  BY ConstantsAreRight DEF TypeOK, Old
<1>2. ASSUME NEW x \in Txs
      PROVE  /\ SetHash(i, x) \in [Ids -> Record]
             /\ \A j \in Ids : SetHash(i, x)[j].status = rec[j].status
  <2>1. PICK y : y = [rec[i] EXCEPT !.hash = x, !.age = 0]
    OBVIOUS
  <2>2. y \in Record /\ y.status = rec[i].status
    BY <1>1, <2>1 DEF Record
  <2>3. [rec EXCEPT ![i].hash = x, ![i].age = 0] = [rec EXCEPT ![i] = y]
    BY <1>1, <2>1 DEF Record
  <2> QED BY <1>1, <2>2, <2>3 DEF SetHash
<1>3. ASSUME NEW o \in Outcome
      PROVE  /\ Finish(i, o) \in [Ids -> Record]
             /\ \A j \in Ids : rec[j].status # "absent" => Finish(i, o)[j].status # "absent"
             /\ \A j \in Ids : rec[j].status = "absent" => Finish(i, o)[j] = rec[j]
  <2>1. PICK y : y = [rec[i] EXCEPT !.status = o.status,
                                    !.hash = IF o.hash = NoHash THEN @ ELSE o.hash,
                                    !.fee = IF o.fee = NoFee THEN @ ELSE o.fee, !.age = 0]
    OBVIOUS
  <2>2. y \in Record /\ y.status = o.status /\ o.status # "absent"
    BY <1>1, <2>1 DEF Record, Outcome, InFlight, Final
  <2>3. Finish(i, o) = rec \/ Finish(i, o) = [rec EXCEPT ![i] = y]
    <3>1. rec[i].status \notin Final =>
            Finish(i, o) = [rec EXCEPT ![i].status = o.status,
                                       ![i].hash = IF o.hash = NoHash THEN @ ELSE o.hash,
                                       ![i].fee = IF o.fee = NoFee THEN @ ELSE o.fee, ![i].age = 0]
      BY DEF Finish
    <3>2. [rec EXCEPT ![i].status = o.status,
                      ![i].hash = IF o.hash = NoHash THEN @ ELSE o.hash,
                      ![i].fee = IF o.fee = NoFee THEN @ ELSE o.fee, ![i].age = 0]
          = [rec EXCEPT ![i] = y]
      BY <1>1, <2>1 DEF Record
    <3> QED BY <3>1, <3>2 DEF Finish
  <2> QED BY <1>1, <2>2, <2>3
<1> QED BY <1>2, <1>3

-----------------------------------------------------------------------------
(* What a step of one submission leaves of the others.                     *)

\* What a step of submission c does to the table and the transactions.
World(c) ==
  /\ rec' \in [Ids -> Record] /\ tx' \in [Txs -> Tx] /\ faults' \in 0 .. MaxFaults
  /\ stale' \in [Resolvers -> Stale] /\ StaleIsReserved'
  /\ LiveIsOne' /\ AbsentIsUnused'
  /\ \A d \in Calls, i \in Ids :
       d # c /\ run[d].pc \in UnsentSteps /\ run[d].id = i => NoneLive(i)'
  /\ \A d \in Calls : run[d].pc \in HashSteps => tx'[run[d].hash].id = tx[run[d].hash].id
  /\ \A j \in Ids : rec[j].status # "absent" => rec'[j].status # "absent"

LEMMA OthersKeep ==
  ASSUME BaseInv, NEW c \in Calls, World(c), NEW d \in Calls, d # c, run'[d] = run[d]
  PROVE  RunFits(d)'
<1>1. RunFits(d)
  BY DEF BaseInv
<1>2. \A i \in Ids : run[d].pc \in UnsentSteps /\ run[d].id = i => NoneLive(i)'
  BY DEF World
<1>3. /\ run[d].pc \in HashSteps => tx'[run[d].hash].id = tx[run[d].hash].id
      /\ \A j \in Ids : rec[j].status # "absent" => rec'[j].status # "absent"
  BY DEF World
<1>4. run'[d].pc \in UnsentSteps => NoneLive(run[d].id)'
  <2>1. PICK i : i = run[d].id
    OBVIOUS
  <2>2. run[d].pc \in UnsentSteps => i \in Ids
    BY <1>1, <2>1 DEF RunFits, UnsentSteps, OwnSteps
  <2> QED BY <1>2, <2>1, <2>2 DEF NoneLive
<1> QED BY <1>1, <1>3, <1>4 DEF RunFits

LEMMA RunStep ==
  ASSUME BaseInv, NEW c \in Calls, World(c), NEW r \in Run, run' = [run EXCEPT ![c] = r],
         RunFits(c)',
         r.pc \in OwnSteps =>
           \A d \in Calls : d # c /\ run[d].pc \in OwnSteps => run[d].id # r.id
  PROVE  BaseInv'
<1>1. run \in [Calls -> Run]
  BY DEF BaseInv, TypeOK
<1>2. run' \in [Calls -> Run] /\ run'[c] = r /\ \A d \in Calls : d # c => run'[d] = run[d]
  BY <1>1
<1>3. TypeOK'
  BY <1>2 DEF World, TypeOK
<1>4. \A d \in Calls : RunFits(d)'
  BY <1>2, OthersKeep
<1>5. OwnedOnce'
  BY <1>2 DEF BaseInv, OwnedOnce
<1> QED BY <1>3, <1>4, <1>5 DEF World, BaseInv

\* Whose request it is stays so.
LEMMA StillOwn ==
  ASSUME BaseInv, NEW c \in Calls, run[c].pc \in OwnSteps
  PROVE  \A d \in Calls : d # c /\ run[d].pc \in OwnSteps => run[d].id # run[c].id
BY DEF BaseInv, OwnedOnce

\* A submission that is over, or has its outcome, holds nothing any more.
LEMMA EndStep ==
  ASSUME BaseInv, NEW c \in Calls, World(c),
         Done(c) \/ (run[c].pc \in OwnSteps /\ \E o \in Outcome : Finishing(c, o))
  PROVE  BaseInv'
<1>1. CASE Done(c)
  <2>1. PICK r : r = NoRun("done")
    OBVIOUS
  <2>2. r \in Run /\ r.pc = "done"
    BY <2>1, Values DEF NoRun
  <2>3. run' = [run EXCEPT ![c] = r] /\ run \in [Calls -> Run]
    BY <1>1, <2>1 DEF Done, BaseInv, TypeOK
  <2>4. run'[c].pc = "done"
    BY <2>2, <2>3
  <2>5. RunFits(c)'
    BY <2>4 DEF RunFits, OwnSteps, HashSteps, UnsentSteps
  <2> QED BY <2>2, <2>3, <2>5, RunStep DEF OwnSteps
<1>2. ASSUME run[c].pc \in OwnSteps, NEW o \in Outcome, Finishing(c, o) PROVE BaseInv'
  <2>1. PICK r : r = [NoRun("finish") EXCEPT !.id = run[c].id, !.out = o]
    OBVIOUS
  <2>2. run[c].id \in Ids /\ rec[run[c].id].status # "absent"
    BY <1>2 DEF BaseInv, RunFits
  <2>3. NoRun("finish") \in Run
    BY Values
  <2>4. r \in Run /\ r.pc = "finish" /\ r.id = run[c].id
    BY <2>1, <2>2, <2>3 DEF NoRun, Run
  <2>5. run' = [run EXCEPT ![c] = r] /\ run \in [Calls -> Run]
    BY <1>2, <2>1 DEF Finishing, BaseInv, TypeOK
  <2>6. run'[c] = r /\ rec'[run[c].id].status # "absent"
    BY <2>2, <2>5 DEF World
  <2>7. RunFits(c)'
    BY <2>2, <2>4, <2>6 DEF RunFits, HashSteps, UnsentSteps
  <2> QED BY <1>2, <2>4, <2>5, <2>7, RunStep, StillOwn
<1> QED BY <1>1, <1>2

\* A step that leaves the transactions alone.
LEMMA TableWorld ==
  ASSUME BaseInv, NEW c \in Calls, UNCHANGED <<tx, stale>>, Fault \/ UNCHANGED faults,
         rec' \in [Ids -> Record],
         \A j \in Ids : rec[j].status # "absent" => rec'[j].status # "absent"
  PROVE  World(c)
<1>1. faults' \in 0 .. MaxFaults
  BY FaultType DEF BaseInv
<1>2. StaleIsReserved' /\ AbsentIsUnused'
  BY DEF BaseInv, StaleIsReserved, AbsentIsUnused
<1>3. LiveIsOne' /\ \A i : NoneLive(i) => NoneLive(i)'
  BY DEF BaseInv, LiveIsOne, NoneLive, Live, Landed, CanLand, InTime
<1>4. \A d \in Calls, i \in Ids : run[d].pc \in UnsentSteps /\ run[d].id = i => NoneLive(i)'
  BY <1>3 DEF BaseInv, RunFits
<1> QED BY <1>1, <1>2, <1>3, <1>4 DEF World, BaseInv, TypeOK

\* A step that changes one transaction, which is not live before it or after it.
LEMMA DeadTxWorld ==
  ASSUME BaseInv, NEW c \in Calls, UNCHANGED stale, Fault \/ UNCHANGED faults,
         rec' \in [Ids -> Record],
         \A j \in Ids : rec'[j].status = rec[j].status,
         NEW x \in Txs, NEW t \in Tx, tx' = [tx EXCEPT ![x] = t],
         t.state \notin {"success", "failed", "queued"},
         t.id \in Ids => rec[t.id].status # "absent",
         \A d \in Calls : run[d].pc \in HashSteps => run[d].hash # x \/ t.id = tx[x].id
  PROVE  World(c) /\ \A i : NoneLive(i) => NoneLive(i)'
<1>1. faults' \in 0 .. MaxFaults
  BY FaultType DEF BaseInv
<1>2. tx \in [Txs -> Tx] /\ tx' \in [Txs -> Tx] /\ tx'[x] = t /\ \A y \in Txs : y # x => tx'[y] = tx[y]
  BY DEF BaseInv, TypeOK
<1>3. ~Live(x)'
  BY <1>2 DEF Live, Landed, CanLand
<1>4. \A y \in Txs : y # x => (Live(y)' <=> Live(y)) /\ (Landed(y)' <=> Landed(y))
  BY <1>2 DEF Live, Landed, CanLand, InTime
<1>5. ASSUME NEW i, NoneLive(i) PROVE NoneLive(i)'
  BY <1>2, <1>3, <1>4, <1>5 DEF NoneLive
<1>6. LiveIsOne'
  <2>1. ~Landed(x)'
    BY <1>3 DEF Live
  <2> QED BY <1>2, <1>3, <1>4, <2>1 DEF BaseInv, LiveIsOne
<1>7. StaleIsReserved'
  BY DEF BaseInv, StaleIsReserved
<1>8. AbsentIsUnused'
  BY <1>2 DEF BaseInv, AbsentIsUnused
<1>9. \A d \in Calls, i \in Ids : run[d].pc \in UnsentSteps /\ run[d].id = i => NoneLive(i)'
  BY <1>5 DEF BaseInv, RunFits
<1>10. \A d \in Calls : run[d].pc \in HashSteps => tx'[run[d].hash].id = tx[run[d].hash].id
  BY <1>2 DEF BaseInv, RunFits
<1> QED BY <1>1, <1>2, <1>5, <1>6, <1>7, <1>8, <1>9, <1>10 DEF World, BaseInv, TypeOK

\* The network gets the transaction of a submission that had none live.
LEMMA QueueWorld ==
  ASSUME BaseInv, NEW c \in Calls, UNCHANGED <<rec, stale>>, Fault \/ UNCHANGED faults,
         run[c].pc = "send", tx' = [tx EXCEPT ![run[c].hash].state = "queued"]
  PROVE  World(c)
<1>0. PICK x : x = run[c].hash
  OBVIOUS
<1>1. faults' \in 0 .. MaxFaults
  BY FaultType DEF BaseInv
<1>2. /\ x \in Txs /\ tx[x].id = run[c].id /\ run[c].id \in Ids /\ NoneLive(run[c].id)
      /\ rec[run[c].id].status # "absent"
  BY <1>0 DEF BaseInv, RunFits, OwnSteps, HashSteps, UnsentSteps
<1>3. tx \in [Txs -> Tx] /\ tx[x] \in Tx
  BY <1>2 DEF BaseInv, TypeOK
<1>4. PICK t : t = [tx[x] EXCEPT !.state = "queued"]
  OBVIOUS
<1>5. t \in Tx /\ t.id = tx[x].id /\ t.state = "queued"
  BY <1>3, <1>4 DEF Tx
<1>6. tx' = [tx EXCEPT ![x] = t]
  BY <1>0, <1>4
<1>7. tx' \in [Txs -> Tx] /\ tx'[x] = t /\ \A y \in Txs : y # x => tx'[y] = tx[y]
  BY <1>2, <1>3, <1>5, <1>6
<1>8. \A y \in Txs : y # x => (Live(y)' <=> Live(y)) /\ (Landed(y)' <=> Landed(y))
  BY <1>7 DEF Live, Landed, CanLand, InTime
<1>9. ~Landed(x)'
  BY <1>5, <1>7 DEF Landed
<1>10. LiveIsOne'
  BY <1>2, <1>5, <1>7, <1>8, <1>9 DEF BaseInv, LiveIsOne, NoneLive
<1>11. ASSUME NEW d \in Calls, NEW i \in Ids, d # c, run[d].pc \in UnsentSteps, run[d].id = i
       PROVE  NoneLive(i)'
  <2>1. NoneLive(i) /\ run[d].pc \in OwnSteps /\ run[c].pc \in OwnSteps
    BY <1>11 DEF BaseInv, RunFits, UnsentSteps, OwnSteps
  <2>2. i # run[c].id
    BY <1>11, <2>1 DEF BaseInv, OwnedOnce
  <2> QED BY <1>2, <1>5, <1>7, <1>8, <2>1, <2>2 DEF NoneLive
<1>12. StaleIsReserved'
  BY DEF BaseInv, StaleIsReserved
<1>13. AbsentIsUnused'
  BY <1>2, <1>5, <1>7 DEF BaseInv, AbsentIsUnused
<1>14. \A d \in Calls : run[d].pc \in HashSteps => tx'[run[d].hash].id = tx[run[d].hash].id
  BY <1>2, <1>5, <1>7 DEF BaseInv, RunFits
<1> QED BY <1>1, <1>7, <1>10, <1>11, <1>12, <1>13, <1>14 DEF World, BaseInv, TypeOK

\* The network never gets it.
LEMMA RefusedWorld ==
  ASSUME BaseInv, NEW c \in Calls, UNCHANGED <<rec, stale>>, Fault \/ UNCHANGED faults,
         run[c].pc = "send", Refused(c)
  PROVE  World(c) /\ \A i : NoneLive(i) => NoneLive(i)'
<1>0. PICK x : x = run[c].hash
  OBVIOUS
<1>1. x \in Txs /\ tx[x].id = run[c].id /\ run[c].id \in Ids /\ rec[run[c].id].status # "absent"
  BY <1>0 DEF BaseInv, RunFits, OwnSteps, HashSteps
<1>2. tx \in [Txs -> Tx] /\ tx[x] \in Tx /\ Over \in Over .. TxValidity
  BY <1>1, ConstantsAreRight DEF BaseInv, TypeOK, Over
<1>3. PICK t : t = [tx[x] EXCEPT !.state = "gone", !.left = Over]
  OBVIOUS
<1>4. t \in Tx /\ t.id = tx[x].id /\ t.state = "gone"
  BY <1>2, <1>3 DEF Tx
<1>5. tx' = [tx EXCEPT ![x] = t]
  BY <1>0, <1>2, <1>3 DEF Refused, Tx
<1>6. rec' \in [Ids -> Record] /\ \A j \in Ids : rec'[j].status = rec[j].status
  BY DEF BaseInv, TypeOK
<1>7. /\ t.state \notin {"success", "failed", "queued"} /\ rec[t.id].status # "absent"
      /\ UNCHANGED stale
  BY <1>1, <1>4
<1>8. \A d \in Calls : run[d].pc \in HashSteps => run[d].hash # x \/ t.id = tx[x].id
  BY <1>4
<1>9. x \in Txs /\ t \in Tx
  BY <1>1, <1>4
<1> QED BY <1>5, <1>6, <1>7, <1>8, <1>9, DeadTxWorld

-----------------------------------------------------------------------------
(* The steps of a submission.                                              *)

LEMMA BasePrepare ==
  ASSUME BaseInv, NEW c \in Calls, Prepare(c)
  PROVE  BaseInv'
<1>1. World(c)
  BY TableWorld DEF Prepare, BaseInv, TypeOK
<1>2. ASSUME NEW i \in Ids, NEW b \in Bodies,
             run' = [run EXCEPT ![c].pc = "reserve", ![c].id = i, ![c].body = b]
      PROVE  BaseInv'
  <2>1. run \in [Calls -> Run] /\ run[c] \in Run /\ run[c].leases = 0
    BY DEF BaseInv, TypeOK, RunFits, Prepare
  <2>2. PICK r : r = [run[c] EXCEPT !.pc = "reserve", !.id = i, !.body = b]
    OBVIOUS
  <2>3. r \in Run /\ r.pc = "reserve" /\ r.id = i /\ r.body = b /\ r.leases = 0
    BY <2>1, <2>2 DEF Run
  <2>4. run' = [run EXCEPT ![c] = r]
    BY <1>2, <2>1, <2>2 DEF Run
  <2>5. run'[c] = r
    BY <2>1, <2>4
  <2>6. RunFits(c)'
    BY <2>3, <2>5 DEF RunFits, OwnSteps, HashSteps, UnsentSteps
  <2> QED BY <1>1, <2>3, <2>4, <2>6, RunStep DEF OwnSteps
<1> QED BY <1>1, <1>2, EndStep DEF Prepare

LEMMA BaseReserve ==
  ASSUME BaseInv, NEW c \in Calls, Reserve(c)
  PROVE  BaseInv'
<1> DEFINE i == run[c].id
<1>1. /\ i \in Ids /\ run[c].body \in Bodies /\ run[c].leases = 0 /\ run[c] \in Run
      /\ run \in [Calls -> Run] /\ rec \in [Ids -> Record]
  BY DEF Reserve, BaseInv, RunFits, TypeOK
<1>2. ASSUME rec' = [rec EXCEPT ![i] = Reserved(run[c].body)], Fault \/ UNCHANGED faults,
             IsNew(i)
      PROVE  /\ World(c)
             /\ rec'[i].status # "absent" /\ rec[i].status = "absent"
  <2>1. Reserved(run[c].body) \in Record /\ Reserved(run[c].body).status = "pending"
    BY <1>1, Values DEF Reserved
  <2>2. rec' \in [Ids -> Record] /\ \A j \in Ids : rec[j].status # "absent" => rec'[j].status # "absent"
    BY <1>1, <1>2, <2>1
  <2> QED BY <1>1, <1>2, <2>1, <2>2, TableWorld DEF Reserve, IsNew
<1>3. ASSUME UNCHANGED rec, Fault \/ UNCHANGED faults PROVE World(c)
  BY <1>1, <1>3, TableWorld DEF Reserve
<1>4. ASSUME rec' = [rec EXCEPT ![i] = Reserved(run[c].body)], UNCHANGED faults, IsNew(i),
             run' = [run EXCEPT ![c].pc = "lease"]
      PROVE  BaseInv'
  <2>1. World(c) /\ rec'[i].status # "absent" /\ rec[i].status = "absent"
    BY <1>2, <1>4
  <2>2. PICK r : r = [run[c] EXCEPT !.pc = "lease"]
    OBVIOUS
  <2>3. r \in Run /\ r.pc = "lease" /\ r.id = i /\ r.leases = 0
    BY <1>1, <2>2 DEF Run
  <2>4. run' = [run EXCEPT ![c] = r] /\ run'[c] = r
    BY <1>1, <1>4, <2>2
  <2>5. NoneLive(run[c].id)'
    <3>1. \A x \in Txs : tx'[x].id # i
      BY <1>1, <2>1 DEF BaseInv, AbsentIsUnused, Reserve
    <3> QED BY <3>1, <2>3, <2>4 DEF NoneLive
  <2>6. RunFits(c)'
    BY <1>1, <2>1, <2>3, <2>4, <2>5, ConstantsAreRight DEF RunFits, OwnSteps, HashSteps, UnsentSteps
  <2>7. \A d \in Calls : run[d].pc \in OwnSteps => run[d].id # i
    BY <2>1 DEF BaseInv, RunFits
  <2> QED BY <2>1, <2>3, <2>4, <2>6, <2>7, RunStep
<1> QED BY <1>2, <1>3, <1>4, EndStep DEF Reserve

LEMMA BaseAcquireWait ==
  ASSUME BaseInv, NEW c \in Calls, AcquireWait(c)
  PROVE  BaseInv'
<1>1. World(c)
  BY TableWorld DEF AcquireWait, BaseInv, TypeOK
<1>2. /\ run \in [Calls -> Run] /\ run[c] \in Run /\ run[c].leases < MaxLeaseRetries
      /\ run[c].id \in Ids /\ rec'[run[c].id].status # "absent" /\ run[c].pc \in OwnSteps
  BY DEF BaseInv, TypeOK, RunFits, AcquireWait, OwnSteps
<1>3. ASSUME run' = [run EXCEPT ![c].pc = "seal", ![c].leases = @ + 1, ![c].fees = 0,
                                ![c].left = TxValidity]
      PROVE  BaseInv'
  <2>1. PICK r : r = [run[c] EXCEPT !.pc = "seal", !.leases = @ + 1, !.fees = 0, !.left = TxValidity]
    OBVIOUS
  <2>2. /\ run[c].leases + 1 \in 0 .. MaxLeaseRetries /\ 0 \in 0 .. MaxFeeRetries
        /\ TxValidity \in Over .. TxValidity
    BY <1>2, ConstantsAreRight DEF Run, Over
  <2>3. r \in Run /\ r.pc = "seal" /\ r.id = run[c].id
    BY <1>2, <2>1, <2>2 DEF Run
  <2>4. run' = [run EXCEPT ![c] = r] /\ run'[c] = r
    BY <1>2, <1>3, <2>1 DEF Run
  <2>5. NoneLive(run[c].id)'
    <3>1. NoneLive(run[c].id)
      BY DEF BaseInv, RunFits, AcquireWait, UnsentSteps
    <3> QED BY <3>1, <2>3, <2>4 DEF NoneLive, Live, Landed, CanLand, InTime, AcquireWait
  <2>6. RunFits(c)'
    BY <1>2, <2>3, <2>4, <2>5 DEF RunFits, OwnSteps, HashSteps, UnsentSteps
  <2> QED BY <1>1, <1>2, <2>3, <2>4, <2>6, RunStep, StillOwn
<1>4. Rejected(NoHash) \in Outcome
  BY Values
<1> QED BY <1>1, <1>2, <1>3, <1>4, EndStep DEF AcquireWait

LEMMA BaseSeal ==
  ASSUME BaseInv, NEW c \in Calls, seal(c)
  PROVE  BaseInv'
<1>1. /\ run \in [Calls -> Run] /\ run[c] \in Run /\ run[c].id \in Ids
      /\ rec[run[c].id].status # "absent" /\ run[c].pc \in OwnSteps /\ NoneLive(run[c].id)
      /\ TypeOK /\ UNCHANGED stale
  BY DEF BaseInv, TypeOK, RunFits, seal, OwnSteps, UnsentSteps
<1>2. Rejected(NoHash) \in Outcome
  BY Values
<1>3. ASSUME NEW x \in Txs, Fresh(x), rec' = SetHash(run[c].id, x), Fault \/ UNCHANGED faults,
             NEW t \in Tx, tx' = [tx EXCEPT ![x] = t], t.id = run[c].id, t.state \in {"sealed", "gone"}
      PROVE  World(c) /\ \A i : NoneLive(i) => NoneLive(i)'
  <2>1. rec' \in [Ids -> Record] /\ \A j \in Ids : rec'[j].status = rec[j].status
    BY <1>1, <1>3, WritesFit
  <2>2. \A d \in Calls : run[d].hash # x
    BY <1>3 DEF Fresh
  <2> QED BY <1>1, <1>3, <2>1, <2>2, DeadTxWorld
<1>4. ASSUME NEW x \in Txs, Fresh(x), rec' = SetHash(run[c].id, x), UNCHANGED faults,
             tx' = [tx EXCEPT ![x] = [NewTx(run[c].id) EXCEPT !.state = "sealed", !.left = run[c].left]],
             run' = [run EXCEPT ![c].pc = "send", ![c].hash = x, ![c].left = Over]
      PROVE  BaseInv'
  <2>1. PICK t : t = [NewTx(run[c].id) EXCEPT !.state = "sealed", !.left = run[c].left]
    OBVIOUS
  <2>2. t \in Tx /\ t.id = run[c].id /\ t.state = "sealed"
    <3>1. NewTx(run[c].id) \in Tx /\ NewTx(run[c].id).id = run[c].id
      BY <1>1, Values DEF NewTx
    <3> QED BY <1>1, <2>1, <3>1 DEF Tx, Run
  <2>3. tx' = [tx EXCEPT ![x] = t] /\ tx'[x] = t
    BY <1>1, <1>4, <2>1 DEF TypeOK
  <2>4. World(c) /\ \A i : NoneLive(i) => NoneLive(i)'
    BY <1>3, <1>4, <2>2, <2>3
  <2>5. PICK r : r = [run[c] EXCEPT !.pc = "send", !.hash = x, !.left = Over]
    OBVIOUS
  <2>6. r \in Run /\ r.pc = "send" /\ r.id = run[c].id /\ r.hash = x
    <3>1. Over \in Over .. TxValidity
      BY ConstantsAreRight DEF Over
    <3> QED BY <1>1, <2>5, <3>1 DEF Run
  <2>7. run' = [run EXCEPT ![c] = r] /\ run'[c] = r
    BY <1>1, <1>4, <2>5 DEF Run
  <2>8. NoneLive(run[c].id)'
    <3>1. PICK i : i = run[c].id
      OBVIOUS
    <3>2. NoneLive(i)'
      BY <1>1, <2>4, <3>1
    <3> QED BY <2>6, <2>7, <3>1, <3>2 DEF NoneLive
  <2>9. rec'[run[c].id].status # "absent"
    BY <1>1, <2>4 DEF World
  <2>10. RunFits(c)'
    BY <1>1, <2>2, <2>3, <2>6, <2>7, <2>8, <2>9 DEF RunFits, OwnSteps, HashSteps, UnsentSteps
  <2> QED BY <1>1, <2>4, <2>6, <2>7, <2>10, RunStep, StillOwn
<1>5. ASSUME NEW x \in Txs, Fresh(x), rec' = SetHash(run[c].id, x), Fault,
             tx' = [tx EXCEPT ![x] = [NewTx(run[c].id) EXCEPT !.state = "gone"]],
             Finishing(c, Rejected(NoHash))
      PROVE  BaseInv'
  <2>1. PICK t : t = [NewTx(run[c].id) EXCEPT !.state = "gone"]
    OBVIOUS
  <2>2. t \in Tx /\ t.id = run[c].id /\ t.state = "gone"
    <3>1. NewTx(run[c].id) \in Tx /\ NewTx(run[c].id).id = run[c].id
      BY <1>1, Values DEF NewTx
    <3> QED BY <2>1, <3>1 DEF Tx
  <2>3. World(c)
    BY <1>3, <1>5, <2>1, <2>2
  <2> QED BY <1>1, <1>2, <1>5, <2>3, EndStep
<1>6. ASSUME Finishing(c, Rejected(NoHash)), Fault, UNCHANGED <<rec, tx>> PROVE BaseInv'
  <2>1. World(c)
    BY <1>1, <1>6, TableWorld DEF TypeOK
  <2> QED BY <1>1, <1>2, <1>6, <2>1, EndStep
<1> QED BY <1>4, <1>5, <1>6 DEF seal

LEMMA BaseSend ==
  ASSUME BaseInv, NEW c \in Calls, send(c)
  PROVE  BaseInv'
<1>1. /\ run \in [Calls -> Run] /\ run[c] \in Run /\ run[c].id \in Ids /\ run[c].hash \in Txs
      /\ rec[run[c].id].status # "absent" /\ run[c].pc \in OwnSteps /\ NoneLive(run[c].id)
      /\ tx[run[c].hash].id = run[c].id /\ tx[run[c].hash] \in Tx
      /\ UNCHANGED <<rec, stale>> /\ run[c].pc = "send"
  BY DEF BaseInv, TypeOK, RunFits, send, OwnSteps, UnsentSteps, HashSteps
<1>2. /\ Rejected(NoHash) \in Outcome /\ Unconfirmed(run[c].hash) \in Outcome
  BY <1>1, Values
<1>3. ASSUME Refused(c), Fault \/ UNCHANGED faults
      PROVE  World(c) /\ \A i : NoneLive(i) => NoneLive(i)'
  BY <1>1, <1>3, RefusedWorld
<1>4. ASSUME tx' = [tx EXCEPT ![run[c].hash].state = "queued"], Fault \/ UNCHANGED faults
      PROVE  World(c)
  BY <1>1, <1>4, QueueWorld
<1>5. CASE SendQueued(c)
  <2>1. World(c)
    BY <1>4, <1>5 DEF SendQueued
  <2>2. PICK r : r = [run[c] EXCEPT !.pc = "poll"]
    OBVIOUS
  <2>3. r \in Run /\ r.pc = "poll" /\ r.id = run[c].id /\ r.hash = run[c].hash
    BY <1>1, <2>2 DEF Run
  <2>4. run' = [run EXCEPT ![c] = r] /\ run'[c] = r
    BY <1>1, <1>5, <2>2 DEF SendQueued
  <2>5. tx'[run[c].hash].id = run[c].id /\ rec'[run[c].id].status # "absent"
    BY <1>1, <2>1 DEF World, HashSteps
  <2>6. RunFits(c)'
    BY <1>1, <2>3, <2>4, <2>5 DEF RunFits, OwnSteps, HashSteps, UnsentSteps
  <2> QED BY <1>1, <2>1, <2>3, <2>4, <2>6, RunStep, StillOwn
<1>6. CASE SendUnknown(c)
  <2>1. World(c)
    BY <1>3, <1>4, <1>6 DEF SendUnknown
  <2> QED BY <1>1, <1>2, <1>6, <2>1, EndStep DEF SendUnknown
<1>7. ASSUME Refused(c), Finishing(c, Rejected(NoHash)), UNCHANGED faults PROVE BaseInv'
  <2>1. World(c)
    BY <1>3, <1>7
  <2> QED BY <1>1, <1>2, <1>7, <2>1, EndStep
<1>8. ASSUME NEW r \in Run, run' = [run EXCEPT ![c] = r], Refused(c), UNCHANGED faults,
             r.id = run[c].id, r.pc \in {"lease", "seal"}, r.pc = "lease" => r.leases < MaxLeaseRetries
      PROVE  BaseInv'
  <2>1. World(c) /\ \A i : NoneLive(i) => NoneLive(i)'
    BY <1>3, <1>8
  <2>2. run'[c] = r
    BY <1>1, <1>8
  <2>3. NoneLive(run[c].id)'
    <3>1. PICK i : i = run[c].id
      OBVIOUS
    <3>2. NoneLive(i)'
      BY <1>1, <2>1, <3>1
    <3> QED BY <1>8, <2>2, <3>1, <3>2 DEF NoneLive
  <2>4. rec'[run[c].id].status # "absent"
    BY <1>1
  <2>5. RunFits(c)'
    BY <1>1, <1>8, <2>2, <2>3, <2>4 DEF RunFits, OwnSteps, HashSteps, UnsentSteps
  <2> QED BY <1>1, <1>8, <2>1, <2>5, RunStep, StillOwn
<1>9. CASE RejectedBadSeq(c)
  <2>1. CASE run[c].leases < MaxLeaseRetries
    <3>1. PICK r : r = [run[c] EXCEPT !.pc = "lease", !.hash = NoHash]
      OBVIOUS
    <3>2. r \in Run /\ r.pc = "lease" /\ r.id = run[c].id /\ r.leases = run[c].leases
      BY <1>1, <3>1 DEF Run
    <3>3. run' = [run EXCEPT ![c] = r]
      BY <1>1, <1>9, <2>1, <3>1 DEF RejectedBadSeq, Run
    <3> QED BY <1>8, <1>9, <2>1, <3>2, <3>3 DEF RejectedBadSeq
  <2>2. CASE ~(run[c].leases < MaxLeaseRetries)
    BY <1>7, <1>9, <2>2 DEF RejectedBadSeq
  <2> QED BY <2>1, <2>2
<1>10. CASE RejectedFee(c)
  <2>1. ASSUME run[c].fees < MaxFeeRetries,
               run' = [run EXCEPT ![c].pc = "seal", ![c].hash = NoHash, ![c].fees = @ + 1,
                                  ![c].left = tx[run[c].hash].left]
        PROVE  BaseInv'
    <3>1. PICK r : r = [run[c] EXCEPT !.pc = "seal", !.hash = NoHash, !.fees = @ + 1,
                                      !.left = tx[run[c].hash].left]
      OBVIOUS
    <3>2. run[c].fees + 1 \in 0 .. MaxFeeRetries /\ tx[run[c].hash].left \in Over .. TxValidity
      BY <1>1, <2>1, ConstantsAreRight DEF Run, Tx
    <3>3. r \in Run /\ r.pc = "seal" /\ r.id = run[c].id
      BY <1>1, <3>1, <3>2 DEF Run
    <3>4. run' = [run EXCEPT ![c] = r]
      BY <1>1, <2>1, <3>1 DEF Run
    <3> QED BY <1>8, <1>10, <3>3, <3>4 DEF RejectedFee
  <2> QED BY <1>7, <1>10, <2>1 DEF RejectedFee
<1>11. CASE RejectedOther(c)
  BY <1>7, <1>11 DEF RejectedOther
<1> QED BY <1>5, <1>6, <1>9, <1>10, <1>11 DEF send

\* A transaction that is found is an outcome.
LEMMA LandedIsOutcome ==
  ASSUME BaseInv, NEW x \in Txs, Landed(x), NEW o \in landed(x)
  PROVE  /\ o \in Outcome /\ o.hash = x /\ o.status = tx[x].state /\ o.fee \in {tx[x].fee, NoFee}
         /\ o.status \in {"success", "failed"}
<1>1. tx[x].fee \in 1 .. MaxFee /\ tx[x].state \in {"success", "failed"}
  BY DEF BaseInv, LiveIsOne, Landed
<1>2. PICK f \in {tx[x].fee, NoFee} : o = [status |-> tx[x].state, hash |-> x, fee |-> f]
  BY DEF landed
<1> QED BY <1>1, <1>2 DEF Outcome, Final

LEMMA BaseRest ==
  ASSUME BaseInv, NEW c \in Calls, poll(c) \/ finish(c) \/ Crash(c)
  PROVE  BaseInv'
<1>1. CASE poll(c)
  <2>1. /\ run[c].hash \in Txs /\ run[c].pc \in OwnSteps /\ rec \in [Ids -> Record]
    BY <1>1 DEF BaseInv, TypeOK, RunFits, poll, OwnSteps, HashSteps
  <2>2. World(c)
    BY <1>1, <2>1, TableWorld DEF poll
  <2>3. \E o \in Outcome : Finishing(c, o)
    BY <1>1, <2>1, Values, LandedIsOutcome DEF poll, Found
  <2> QED BY <2>1, <2>2, <2>3, EndStep
<1>2. CASE finish(c)
  <2>1. /\ run[c].id \in Ids /\ rec[run[c].id].status # "absent" /\ run[c].out \in Outcome
        /\ rec \in [Ids -> Record] /\ TypeOK
    BY <1>2 DEF BaseInv, TypeOK, RunFits, finish, OwnSteps, Run
  <2>2. /\ rec' \in [Ids -> Record]
        /\ \A j \in Ids : rec[j].status # "absent" => rec'[j].status # "absent"
    BY <1>2, <2>1, WritesFit DEF finish
  <2>3. World(c)
    BY <1>2, <2>2, TableWorld DEF finish
  <2> QED BY <1>2, <2>3, EndStep DEF finish
<1>3. CASE Crash(c)
  <2>1. CASE run[c].pc = "send"
    <3>1. World(c)
      BY <1>3, <2>1, RefusedWorld DEF Crash
    <3> QED BY <1>3, <3>1, EndStep DEF Crash
  <2>2. CASE run[c].pc # "send"
    <3>1. World(c)
      BY <1>3, <2>2, TableWorld DEF Crash, BaseInv, TypeOK
    <3> QED BY <1>3, <3>1, EndStep DEF Crash
  <2> QED BY <2>1, <2>2
<1> QED BY <1>1, <1>2, <1>3

-----------------------------------------------------------------------------
(* The resolver, the network and time.                                     *)

\* What a step of a resolver leaves of the submissions.
LEMMA ResolverWorld ==
  ASSUME BaseInv, UNCHANGED <<tx, run>>, TypeOK', StaleIsReserved',
         \A j \in Ids : rec[j].status # "absent" => rec'[j].status # "absent"
  PROVE  BaseInv'
<1>1. LiveIsOne' /\ AbsentIsUnused' /\ OwnedOnce'
  BY DEF BaseInv, LiveIsOne, AbsentIsUnused, OwnedOnce, Live, Landed, CanLand, InTime
<1>2. \A c \in Calls : RunFits(c)'
  BY DEF BaseInv, RunFits, NoneLive, Live, Landed, CanLand, InTime
<1> QED BY <1>1, <1>2 DEF BaseInv

LEMMA BaseResolver ==
  ASSUME BaseInv, NEW r \in Resolvers, (\E i \in Ids : ListStale(r, i)) \/ resolve(r) \/ FinishStale(r)
  PROVE  BaseInv'
<1>1. /\ TypeOK /\ stale \in [Resolvers -> Stale] /\ stale[r] \in Stale /\ rec \in [Ids -> Record]
      /\ Idle \in Stale /\ Idle.pc = "idle"
  BY Values DEF BaseInv, TypeOK, Idle
<1>2. ASSUME NEW s \in Stale, stale' = [stale EXCEPT ![r] = s], UNCHANGED <<tx, run>>,
             rec' \in [Ids -> Record], Fault \/ UNCHANGED faults,
             \A j \in Ids : rec[j].status # "absent" => rec'[j].status # "absent",
             s.pc # "idle" => s.id \in Ids /\ rec'[s.id].status # "absent"
      PROVE  BaseInv'
  <2>1. faults' \in 0 .. MaxFaults
    BY <1>1, <1>2, FaultType
  <2>2. TypeOK'
    BY <1>1, <1>2, <2>1 DEF TypeOK
  <2>3. StaleIsReserved'
    BY <1>1, <1>2 DEF BaseInv, StaleIsReserved
  <2> QED BY <1>2, <2>2, <2>3, ResolverWorld
<1>3. ASSUME NEW i \in Ids, ListStale(r, i) PROVE BaseInv'
  <2>1. PICK s : s = [Idle EXCEPT !.pc = "look", !.id = i, !.hash = rec[i].hash, !.age = rec[i].age]
    OBVIOUS
  <2>2. s \in Stale /\ s.id = i
    BY <1>1, <2>1 DEF Stale, Record
  <2>3. rec[i].status # "absent"
    BY <1>3 DEF ListStale, IsStale, InFlight
  <2> QED BY <1>1, <1>2, <1>3, <2>1, <2>2, <2>3 DEF ListStale
<1>4. CASE resolve(r)
  <2>1. /\ stale[r].id \in Ids /\ rec[stale[r].id].status # "absent"
        /\ UNCHANGED <<rec, tx, run>> /\ (Fault \/ UNCHANGED faults)
    BY <1>4 DEF resolve, BaseInv, StaleIsReserved
  <2>2. ASSUME NEW o \in Outcome, Settle(r, o) PROVE BaseInv'
    <3>1. PICK s : s = [stale[r] EXCEPT !.pc = "finish", !.age = 0, !.out = o]
      OBVIOUS
    <3>2. s \in Stale /\ s.id = stale[r].id
      <4>1. 0 \in 0 .. Old
        BY ConstantsAreRight DEF Old
      <4> QED BY <1>1, <3>1, <4>1 DEF Stale
    <3>3. stale' = [stale EXCEPT ![r] = s]
      BY <1>1, <2>2, <3>1 DEF Settle, Stale
    <3> QED BY <1>1, <1>2, <2>1, <3>2, <3>3
  <2>3. ASSUME Leave(r) PROVE BaseInv'
    BY <1>1, <1>2, <2>1, <2>3 DEF Leave
  <2>4. /\ stale[r].hash \in Txs \cup {NoHash}
        /\ Rejected(NoHash) \in Outcome /\ Rejected(stale[r].hash) \in Outcome
    BY <1>1, Values DEF Stale
  <2>5. ASSUME stale[r].hash # NoHash, Found(stale[r].hash), NEW o \in landed(stale[r].hash)
        PROVE  o \in Outcome
    BY <2>4, <2>5, LandedIsOutcome DEF Found
  <2>6. Leave(r) \/ \E o \in Outcome : Settle(r, o)
    BY <1>4, <2>4, <2>5 DEF resolve
  <2> QED BY <2>2, <2>3, <2>6
<1>5. CASE FinishStale(r)
  <2>1. stale[r].id \in Ids /\ rec[stale[r].id].status # "absent" /\ stale[r].out \in Outcome
    BY <1>1, <1>5 DEF FinishStale, BaseInv, StaleIsReserved, Stale
  <2>2. /\ rec' \in [Ids -> Record]
        /\ \A j \in Ids : rec[j].status # "absent" => rec'[j].status # "absent"
    BY <1>1, <1>5, <2>1, WritesFit DEF FinishStale
  <2> QED BY <1>1, <1>2, <1>5, <2>2 DEF FinishStale, Leave
<1> QED BY <1>3, <1>4, <1>5

\* A step in which no transaction comes alive.
LEMMA NoneComesAlive ==
  ASSUME BaseInv, TypeOK',
         \A x \in Txs : /\ Live(x)' => Live(x)
                        /\ tx'[x].id = tx[x].id
                        /\ Landed(x)' => tx'[x].fee \in 1 .. MaxFee,
         \A i \in Ids : rec'[i].status = rec[i].status,
         \A c \in Calls : /\ run'[c].pc = run[c].pc /\ run'[c].id = run[c].id
                          /\ run'[c].body = run[c].body /\ run'[c].hash = run[c].hash
                          /\ run'[c].leases = run[c].leases,
         \A r \in Resolvers : stale'[r].pc = stale[r].pc /\ stale'[r].id = stale[r].id
  PROVE  BaseInv'
<1>1. LiveIsOne' /\ AbsentIsUnused' /\ OwnedOnce' /\ StaleIsReserved'
  BY DEF BaseInv, LiveIsOne, AbsentIsUnused, OwnedOnce, StaleIsReserved
<1>2. \A c \in Calls : RunFits(c)'
  BY DEF BaseInv, RunFits, NoneLive, OwnSteps, UnsentSteps
<1> QED BY <1>1, <1>2 DEF BaseInv

LEMMA BaseNetwork ==
  ASSUME BaseInv, NEW x \in Txs, Lands(x) \/ Drop(x)
  PROVE  BaseInv'
<1>1. /\ TypeOK /\ tx \in [Txs -> Tx] /\ tx[x] \in Tx /\ CanLand(x)
      /\ UNCHANGED <<rec, run, stale>> /\ (Fault \/ UNCHANGED faults)
      /\ Over \in Over .. TxValidity
  <2>1. Over \in Over .. TxValidity
    BY ConstantsAreRight DEF Over
  <2> QED BY <2>1 DEF BaseInv, TypeOK, Lands, Drop
<1>2. PICK t \in Tx : /\ tx' = [tx EXCEPT ![x] = t] /\ t.id = tx[x].id
                      /\ t.state \in {"success", "failed"} => t.fee \in 1 .. MaxFee
  <2>1. ASSUME NEW state \in {"success", "failed"}, NEW fee \in 1 .. MaxFee, NEW t,
               t = [tx[x] EXCEPT !.state = state, !.fee = fee, !.left = Over]
        PROVE  t \in Tx /\ t.id = tx[x].id /\ t.fee \in 1 .. MaxFee
    <3>1. fee \in 0 .. MaxFee
      BY ConstantsAreRight
    <3> QED BY <1>1, <2>1, <3>1 DEF Tx
  <2>2. ASSUME NEW t, t = [tx[x] EXCEPT !.state = "gone", !.left = Over]
        PROVE  /\ t \in Tx /\ t.id = tx[x].id /\ t.state = "gone"
               /\ [tx EXCEPT ![x].state = "gone", ![x].left = Over] = [tx EXCEPT ![x] = t]
    BY <1>1, <2>2 DEF Tx
  <2> QED BY <2>1, <2>2 DEF Lands, Drop
<1>3. tx' \in [Txs -> Tx] /\ tx'[x] = t /\ \A y \in Txs : y # x => tx'[y] = tx[y]
  BY <1>1, <1>2
<1>4. TypeOK'
  <2>1. faults' \in 0 .. MaxFaults
    BY <1>1, FaultType
  <2> QED BY <1>1, <1>3, <2>1 DEF TypeOK
<1>5. \A y \in Txs : /\ Live(y)' => Live(y)
                     /\ tx'[y].id = tx[y].id
                     /\ Landed(y)' => tx'[y].fee \in 1 .. MaxFee
  BY <1>1, <1>2, <1>3 DEF Live, Landed, CanLand, InTime, BaseInv, LiveIsOne
<1> QED BY <1>1, <1>4, <1>5, NoneComesAlive

\* Ages grow within their bounds, and what is left of time bounds shrinks.
LEMMA Clock ==
  /\ \A n \in 0 .. Old : Older(n, Old) \in 0 .. Old
  /\ \A n \in 0 .. RpcLag + 1 : Older(n, RpcLag + 1) \in 0 .. RpcLag + 1
  /\ \A n \in Over .. TxValidity : Younger(n) \in Over .. TxValidity
<1>1. Old \in Nat /\ RpcLag + 1 \in Nat /\ TxValidity \in Nat
  BY ConstantsAreRight DEF Old
<1> QED BY <1>1 DEF Older, Younger, Over

\* What a tick does to each record, transaction, submission and listed record.
LEMMA TickDoes ==
  ASSUME BaseInv, Tick
  PROVE  /\ TypeOK'
         /\ \A i \in Ids : /\ rec'[i].status = rec[i].status /\ rec'[i].body = rec[i].body
                           /\ rec'[i].hash = rec[i].hash /\ rec'[i].fee = rec[i].fee
                           /\ rec'[i].age \in {rec[i].age, Older(rec[i].age, Old)}
         /\ \A x \in Txs : /\ tx'[x].state = tx[x].state /\ tx'[x].id = tx[x].id
                           /\ tx'[x].fee = tx[x].fee
                           /\ Landed(x) => /\ tx'[x].left = tx[x].left
                                           /\ tx'[x].since = Older(tx[x].since, RpcLag + 1)
                           /\ ~Landed(x) => /\ tx'[x].left = Younger(tx[x].left)
                                            /\ tx'[x].since = tx[x].since
         /\ \A c \in Calls : /\ run'[c].pc = run[c].pc /\ run'[c].id = run[c].id
                             /\ run'[c].body = run[c].body /\ run'[c].hash = run[c].hash
                             /\ run'[c].leases = run[c].leases /\ run'[c].out = run[c].out
         /\ \A r \in Resolvers : /\ stale'[r].pc = stale[r].pc /\ stale'[r].id = stale[r].id
                                 /\ stale'[r].hash = stale[r].hash /\ stale'[r].out = stale[r].out
                                 /\ stale'[r].age \in {stale[r].age, Older(stale[r].age, Old)}
<1>1. /\ rec \in [Ids -> Record] /\ tx \in [Txs -> Tx] /\ run \in [Calls -> Run]
      /\ stale \in [Resolvers -> Stale] /\ faults \in 0 .. MaxFaults /\ faults' = faults
  BY DEF BaseInv, TypeOK, Tick
<1>2. ASSUME NEW i \in Ids
      PROVE  /\ rec'[i] \in Record
             /\ rec'[i].status = rec[i].status /\ rec'[i].body = rec[i].body
             /\ rec'[i].hash = rec[i].hash /\ rec'[i].fee = rec[i].fee
             /\ rec'[i].age \in {rec[i].age, Older(rec[i].age, Old)}
  <2>1. PICK y : y = [rec[i] EXCEPT !.age = Older(@, Old)]
    OBVIOUS
  <2>2. rec[i] \in Record /\ Older(rec[i].age, Old) \in 0 .. Old
    BY <1>1, Clock DEF Record
  <2>3. /\ y \in Record /\ y.status = rec[i].status /\ y.body = rec[i].body
        /\ y.hash = rec[i].hash /\ y.fee = rec[i].fee /\ y.age = Older(rec[i].age, Old)
    BY <2>1, <2>2 DEF Record
  <2>4. rec'[i] = rec[i] \/ rec'[i] = y
    BY <2>1 DEF Tick
  <2> QED BY <2>2, <2>3, <2>4
<1>3. ASSUME NEW x \in Txs
      PROVE  /\ tx'[x] \in Tx
             /\ tx'[x].state = tx[x].state /\ tx'[x].id = tx[x].id /\ tx'[x].fee = tx[x].fee
             /\ Landed(x) => /\ tx'[x].left = tx[x].left
                             /\ tx'[x].since = Older(tx[x].since, RpcLag + 1)
             /\ ~Landed(x) => tx'[x].left = Younger(tx[x].left) /\ tx'[x].since = tx[x].since
  <2>1. PICK y, z : /\ y = [tx[x] EXCEPT !.since = Older(@, RpcLag + 1)]
                    /\ z = [tx[x] EXCEPT !.left = Younger(@)]
    OBVIOUS
  <2>2. /\ tx[x] \in Tx /\ Older(tx[x].since, RpcLag + 1) \in 0 .. RpcLag + 1
        /\ Younger(tx[x].left) \in Over .. TxValidity
    BY <1>1, Clock DEF Tx
  <2>3. /\ y \in Tx /\ y.state = tx[x].state /\ y.id = tx[x].id /\ y.fee = tx[x].fee
        /\ y.left = tx[x].left /\ y.since = Older(tx[x].since, RpcLag + 1)
    BY <2>1, <2>2 DEF Tx
  <2>4. /\ z \in Tx /\ z.state = tx[x].state /\ z.id = tx[x].id /\ z.fee = tx[x].fee
        /\ z.since = tx[x].since /\ z.left = Younger(tx[x].left)
    BY <2>1, <2>2 DEF Tx
  <2>5. (Landed(x) => tx'[x] = y) /\ (~Landed(x) => tx'[x] = z)
    BY <2>1 DEF Tick
  <2> QED BY <2>3, <2>4, <2>5
<1>4. ASSUME NEW c \in Calls
      PROVE  /\ run'[c] \in Run
             /\ run'[c].pc = run[c].pc /\ run'[c].id = run[c].id
             /\ run'[c].body = run[c].body /\ run'[c].hash = run[c].hash
             /\ run'[c].leases = run[c].leases /\ run'[c].out = run[c].out
  <2>1. run[c] \in Run /\ Younger(run[c].left) \in Over .. TxValidity
    BY <1>1, Clock DEF Run
  <2>2. run'[c] = [run[c] EXCEPT !.left = Younger(@)]
    BY DEF Tick
  <2> QED BY <2>1, <2>2 DEF Run
<1>5. ASSUME NEW r \in Resolvers
      PROVE  /\ stale'[r] \in Stale
             /\ stale'[r].pc = stale[r].pc /\ stale'[r].id = stale[r].id
             /\ stale'[r].hash = stale[r].hash /\ stale'[r].out = stale[r].out
             /\ stale'[r].age \in {stale[r].age, Older(stale[r].age, Old)}
  <2>1. PICK y : y = [stale[r] EXCEPT !.age = Older(@, Old)]
    OBVIOUS
  <2>2. stale[r] \in Stale /\ Older(stale[r].age, Old) \in 0 .. Old
    BY <1>1, Clock DEF Stale
  <2>3. /\ y \in Stale /\ y.pc = stale[r].pc /\ y.id = stale[r].id
        /\ y.hash = stale[r].hash /\ y.out = stale[r].out /\ y.age = Older(stale[r].age, Old)
    BY <2>1, <2>2 DEF Stale
  <2>4. stale'[r] = stale[r] \/ stale'[r] = y
    BY <2>1 DEF Tick
  <2> QED BY <2>2, <2>3, <2>4
<1>6. TypeOK'
  <2>1. rec' \in [Ids -> Record] /\ tx' \in [Txs -> Tx]
    BY <1>2, <1>3 DEF Tick
  <2>2. run' \in [Calls -> Run] /\ stale' \in [Resolvers -> Stale]
    BY <1>4, <1>5 DEF Tick
  <2> QED BY <1>1, <2>1, <2>2 DEF TypeOK
<1> QED BY <1>2, <1>3, <1>4, <1>5, <1>6

LEMMA BaseTick ==
  ASSUME BaseInv, Tick
  PROVE  BaseInv'
<1>1. ASSUME NEW x \in Txs PROVE Live(x)' => Live(x)
  <2>1. tx'[x].state = tx[x].state /\ (~Landed(x) => tx'[x].left = Younger(tx[x].left))
    BY TickDoes
  <2> QED BY <2>1 DEF Live, Landed, CanLand, InTime, Younger
<1>2. ASSUME NEW x \in Txs
      PROVE  tx'[x].id = tx[x].id /\ (Landed(x)' => tx'[x].fee \in 1 .. MaxFee)
  BY TickDoes DEF BaseInv, LiveIsOne, Landed
<1> QED BY <1>1, <1>2, TickDoes, NoneComesAlive

LEMMA BaseStep == BaseInv /\ [Next]_vars => BaseInv'
<1> SUFFICES ASSUME BaseInv, [Next]_vars PROVE BaseInv'
  OBVIOUS
<1>1. ASSUME NEW c \in Calls, Submit(c) \/ Crash(c) PROVE BaseInv'
  BY <1>1, BasePrepare, BaseReserve, BaseAcquireWait, BaseSeal, BaseSend, BaseRest DEF Submit
<1>2. CASE UNCHANGED vars
  <2>1. TypeOK' /\ StaleIsReserved'
    BY <1>2 DEF BaseInv, TypeOK, StaleIsReserved, vars
  <2> QED BY <1>2, <2>1, ResolverWorld DEF vars
<1> QED BY <1>1, <1>2, BaseResolver, BaseNetwork, BaseTick DEF Next

LEMMA BaseInit == Init => BaseInv
<1> SUFFICES ASSUME Init PROVE BaseInv
  OBVIOUS
<1>1. \A i \in Ids : rec[i] = [status |-> "absent", body |-> NoBody, hash |-> NoHash, fee |-> NoFee, age |-> 0]
  BY DEF Init
<1>2. rec \in [Ids -> Record]
  <2>1. [status |-> "absent", body |-> NoBody, hash |-> NoHash, fee |-> NoFee, age |-> 0] \in Record
    BY ConstantsAreRight DEF Record, Old
  <2> QED BY <2>1 DEF Init
<1>3. TypeOK
  BY <1>2, Values, ConstantsAreRight DEF Init, TypeOK
<1>4. \A x \in Txs : ~Live(x) /\ tx[x].id = NoId /\ ~Landed(x)
  BY DEF Init, NewTx, Live, Landed, CanLand
<1>5. \A c \in Calls : run[c].pc = "start" /\ run[c].leases = 0
  BY DEF Init, NoRun
<1>6. \A r \in Resolvers : stale[r].pc = "idle"
  BY DEF Init, Idle
<1>7. \A c \in Calls : RunFits(c)
  BY <1>5 DEF RunFits, OwnSteps, HashSteps, UnsentSteps
<1>8. OwnedOnce /\ LiveIsOne /\ AbsentIsUnused /\ StaleIsReserved
  BY <1>4, <1>5, <1>6, NamesAreFresh DEF OwnedOnce, OwnSteps, LiveIsOne, AbsentIsUnused, StaleIsReserved
<1> QED BY <1>3, <1>7, <1>8 DEF BaseInv

LEMMA BaseHolds == Spec => []BaseInv
BY BaseInit, BaseStep, PTL DEF Spec

-----------------------------------------------------------------------------
(* Prompt submitters: steps that leave the transactions alone.             *)

LEMMA QuietTx ==
  ASSUME UNCHANGED tx, \A j \in Ids : rec'[j].hash = rec[j].hash
  PROVE  /\ \A j : NoneLive(j)' <=> NoneLive(j)
         /\ \A j \in Ids : \A o : OutcomeFits(j, o)' <=> OutcomeFits(j, o)
         /\ \A a, x : Timely(a, x)' <=> Timely(a, x)
<1>1. \A j : NoneLive(j)' <=> NoneLive(j)
  BY DEF NoneLive, Live, Landed, CanLand, InTime
<1>2. \A a, x : Timely(a, x)' <=> Timely(a, x)
  BY DEF Timely, Landed, InTime
<1> QED BY <1>1, <1>2 DEF OutcomeFits

LEMMA TablePrompt ==
  ASSUME BaseInv, PromptInv, UNCHANGED tx,
         \A j \in Ids : rec'[j].hash = rec[j].hash,
         \A j \in Ids : rec'[j] = rec[j] \/ RecordIsTrue(j)',
         \A d \in Calls : run'[d] = run[d] \/ RunIsPrompt(d)',
         \A d \in Calls : run'[d].pc \in UnsentSteps =>
           /\ run[d].pc \in UnsentSteps /\ run'[d].id = run[d].id
           /\ rec'[run[d].id].status = rec[run[d].id].status
           /\ rec'[run[d].id].age = rec[run[d].id].age,
         \A r \in Resolvers : stale'[r] = stale[r] \/ StaleIsSent(r)'
  PROVE  PromptInv'
<1>1. /\ \A j : NoneLive(j)' <=> NoneLive(j)
      /\ \A j \in Ids : \A o : OutcomeFits(j, o)' <=> OutcomeFits(j, o)
      /\ \A a, x : Timely(a, x)' <=> Timely(a, x)
  BY QuietTx
<1>2. ASSUME NEW d \in Calls PROVE RunIsPrompt(d)'
  <2>1. CASE run'[d] = run[d]
    <3>1. RunIsPrompt(d) /\ RunFits(d)
      BY DEF PromptInv, BaseInv
    <3>2. PICK o, i : o = run[d].out /\ i = run[d].id
      OBVIOUS
    <3>3. run[d].pc = "finish" => OutcomeFits(i, o)'
      BY <1>1, <3>1, <3>2 DEF RunIsPrompt, RunFits, OwnSteps
    <3>4. run[d].pc = "finish" => OutcomeFits(run[d].id, run[d].out)'
      BY <2>1, <3>2, <3>3 DEF OutcomeFits, NoneLive
    <3>5. run[d].pc \in HashSteps => run[d].id \in Ids
      BY <3>1 DEF RunFits, HashSteps, OwnSteps
    <3> QED BY <2>1, <3>1, <3>4, <3>5 DEF RunIsPrompt
  <2> QED BY <2>1
<1>3. ASSUME NEW r \in Resolvers PROVE StaleIsSent(r)'
  <2>1. CASE stale'[r] = stale[r]
    <3>1. StaleIsSent(r) /\ (stale[r].pc # "idle" => stale[r].id \in Ids)
      BY DEF PromptInv, BaseInv, StaleIsReserved
    <3>2. PICK o, i, a, x : o = stale[r].out /\ i = stale[r].id /\ a = stale[r].age /\ x = stale[r].hash
      OBVIOUS
    <3>3. stale[r].pc = "finish" => OutcomeFits(i, o)'
      BY <1>1, <3>1, <3>2 DEF StaleIsSent
    <3>4. stale[r].pc = "look" /\ x \in Txs => Timely(a, x)'
      BY <1>1, <3>1, <3>2 DEF StaleIsSent
    <3>5. /\ stale[r].pc = "finish" => OutcomeFits(stale[r].id, stale[r].out)'
          /\ stale[r].pc = "look" /\ stale[r].hash \in Txs => Timely(stale[r].age, stale[r].hash)'
      BY <2>1, <3>2, <3>3, <3>4 DEF OutcomeFits, NoneLive, Timely, Landed, InTime
    <3> QED BY <2>1, <3>1, <3>5 DEF StaleIsSent
  <2> QED BY <2>1
<1>4. ASSUME NEW j \in Ids PROVE RecordIsTrue(j)'
  <2>1. CASE rec'[j] = rec[j]
    <3>1. RecordIsTrue(j)
      BY DEF PromptInv
    <3>2. Timely(rec[j].age, rec[j].hash) => Timely(rec[j].age, rec[j].hash)'
      BY <2>1 DEF Timely, Landed, InTime
    <3> QED BY <1>1, <2>1, <3>1, <3>2 DEF RecordIsTrue
  <2> QED BY <2>1
<1>5. SentIsOnRecord'
  <2>1. \A x \in Txs : Live(x) => tx[x].id \in Ids /\ rec[tx[x].id].hash = x
    BY DEF PromptInv, SentIsOnRecord, BaseInv, LiveIsOne, Live
  <2> QED BY <2>1 DEF SentIsOnRecord, Live, Landed, CanLand, InTime
<1> QED BY <1>2, <1>3, <1>4, <1>5 DEF PromptInv

\* An outcome that is true makes a true record, and leaves the hash.
LEMMA FinishIsTrue ==
  ASSUME BaseInv, PromptInv, NEW i \in Ids, NEW o \in Outcome, OutcomeFits(i, o),
         rec[i].status # "absent", rec' = Finish(i, o) \/ UNCHANGED rec, UNCHANGED tx
  PROVE  /\ \A j \in Ids : rec'[j].hash = rec[j].hash
         /\ \A j \in Ids : rec'[j] = rec[j] \/ RecordIsTrue(j)'
         /\ \A j \in Ids : j # i => rec'[j] = rec[j]
<1>1. rec \in [Ids -> Record] /\ rec[i] \in Record /\ RecordIsTrue(i)
  BY DEF BaseInv, TypeOK, PromptInv
<1>2. CASE UNCHANGED rec
  BY <1>2
<1>3. CASE rec[i].status \in Final
  BY <1>2, <1>3 DEF Finish
<1>4. CASE rec[i].status \notin Final /\ rec' = Finish(i, o)
  <2>1. PICK y : y = [rec[i] EXCEPT !.status = o.status,
                                    !.hash = IF o.hash = NoHash THEN @ ELSE o.hash,
                                    !.fee = IF o.fee = NoFee THEN @ ELSE o.fee, !.age = 0]
    OBVIOUS
  <2>2. rec' = [rec EXCEPT ![i] = y]
    <3>1. rec' = [rec EXCEPT ![i].status = o.status,
                             ![i].hash = IF o.hash = NoHash THEN @ ELSE o.hash,
                             ![i].fee = IF o.fee = NoFee THEN @ ELSE o.fee, ![i].age = 0]
      BY <1>4 DEF Finish
    <3> QED BY <1>1, <2>1, <3>1 DEF Record
  <2>3. /\ y.status = o.status /\ y.hash = (IF o.hash = NoHash THEN rec[i].hash ELSE o.hash)
        /\ y.fee = (IF o.fee = NoFee THEN rec[i].fee ELSE o.fee) /\ y.age = 0
    BY <1>1, <2>1 DEF Record
  <2>4. y.hash = rec[i].hash
    BY <2>3 DEF OutcomeFits
  <2>5. rec'[i] = y /\ \A j \in Ids : j # i => rec'[j] = rec[j]
    BY <1>1, <2>2
  <2>6. \A j \in Ids : rec'[j].hash = rec[j].hash
    BY <2>4, <2>5
  <2>7. rec[i].fee = NoFee
    BY <1>1, <1>4 DEF RecordIsTrue, Final
  <2>8. \A x \in Txs : Timely(0, x)'
    <3>1. \A x \in Txs : tx[x] \in Tx
      BY DEF BaseInv, TypeOK
    <3>2. \A x \in Txs : /\ tx[x].since \in Nat
                         /\ tx[x].left \in Over .. TxValidity
      BY <3>1, ConstantsAreRight DEF Tx
    <3> QED BY <3>2, ConstantsAreRight DEF Timely, Over
  <2>9. RecordIsTrue(i)'
    <3>1. /\ OutcomeFits(i, o) /\ (NoneLive(i)' <=> NoneLive(i))
      BY <2>6, QuietTx
    <3>2. rec'[i].status \in InFlight /\ rec'[i].hash \in Txs => Timely(rec[i].age, rec[i].hash)'
      BY <2>3, <2>5, <2>8 DEF Timely, Landed, InTime
    <3>3. /\ rec'[i].status \notin {"success", "failed"} => rec'[i].fee = NoFee
          /\ rec'[i].status = "rejected" /\ RpcLag <= LedgerTime => NoneLive(i)'
          /\ rec'[i].hash \in Txs => tx'[rec'[i].hash].id = i
      BY <1>1, <2>3, <2>4, <2>5, <2>7, <3>1 DEF OutcomeFits, RecordIsTrue
    <3>4. rec'[i].status \in {"success", "failed"} =>
            /\ rec'[i].hash \in Txs /\ tx'[rec'[i].hash].state = rec'[i].status
            /\ rec'[i].fee \in {NoFee, tx'[rec'[i].hash].fee}
      BY <2>3, <2>4, <2>5, <2>7, NamesAreFresh DEF OutcomeFits
    <3> QED BY <3>2, <3>3, <3>4 DEF RecordIsTrue
  <2> QED BY <2>5, <2>6, <2>9
<1> QED BY <1>2, <1>3, <1>4

\* A submission that is over, or has an outcome that is true.
LEMMA EndIsPrompt ==
  ASSUME BaseInv, NEW c \in Calls,
         \/ Done(c)
         \/ /\ run[c].pc \in OwnSteps
            /\ \E o : Finishing(c, o) /\ \A i \in Ids : i = run[c].id => OutcomeFits(i, o)'
  PROVE  /\ RunIsPrompt(c)' /\ run'[c].pc \notin UnsentSteps
         /\ \A d \in Calls : d # c => run'[d] = run[d]
<1>1. run \in [Calls -> Run]
  BY DEF BaseInv, TypeOK
<1>2. CASE Done(c)
  <2>1. run'[c].pc = "done" /\ \A d \in Calls : d # c => run'[d] = run[d]
    BY <1>1, <1>2 DEF Done, NoRun
  <2> QED BY <2>1 DEF RunIsPrompt, UnsentSteps, HashSteps
<1>3. ASSUME run[c].pc \in OwnSteps, NEW o, Finishing(c, o),
             \A i \in Ids : i = run[c].id => OutcomeFits(i, o)'
      PROVE  /\ RunIsPrompt(c)' /\ run'[c].pc \notin UnsentSteps
             /\ \A d \in Calls : d # c => run'[d] = run[d]
  <2>1. /\ run'[c].pc = "finish" /\ run'[c].id = run[c].id /\ run'[c].out = o
        /\ \A d \in Calls : d # c => run'[d] = run[d]
    BY <1>1, <1>3 DEF Finishing, NoRun
  <2>2. PICK i \in Ids : i = run[c].id
    BY <1>3 DEF BaseInv, RunFits
  <2>3. OutcomeFits(run[c].id, run[c].out)'
    BY <1>3, <2>1, <2>2 DEF OutcomeFits, NoneLive
  <2> QED BY <2>1, <2>3 DEF RunIsPrompt, UnsentSteps, HashSteps
<1> QED BY <1>2, <1>3

LEMMA PromptCalls ==
  ASSUME BaseInv, PromptInv, NEW c \in Calls,
         \/ Prepare(c) \/ AcquireWait(c) \/ poll(c) \/ finish(c)
         \/ run[c].pc # "send" /\ Crash(c)
         \/ /\ run[c].pc = "seal" /\ Finishing(c, Rejected(NoHash))
            /\ UNCHANGED <<rec, tx, stale>>
  PROVE  PromptInv'
<1>1. run \in [Calls -> Run] /\ run[c] \in Run /\ rec \in [Ids -> Record] /\ RunFits(c) /\ RunIsPrompt(c)
  BY DEF BaseInv, TypeOK, PromptInv
<1>2. ASSUME UNCHANGED <<rec, tx, stale>>, RunIsPrompt(c)', run'[c].pc \notin UnsentSteps,
             \A d \in Calls : d # c => run'[d] = run[d]
      PROVE  PromptInv'
  BY <1>2, TablePrompt
<1>3. ASSUME run[c].pc \in UnsentSteps, UNCHANGED <<rec, tx, stale>>, Finishing(c, Rejected(NoHash))
      PROVE  PromptInv'
  <2>1. ASSUME NEW i \in Ids, i = run[c].id PROVE OutcomeFits(i, Rejected(NoHash))'
    <3>1. OutcomeFits(i, Rejected(NoHash))
      BY <1>1, <1>3, <2>1 DEF OutcomeFits, Rejected, RunFits
    <3> QED BY <1>3, <3>1, QuietTx
  <2>2. /\ RunIsPrompt(c)' /\ run'[c].pc \notin UnsentSteps
        /\ \A d \in Calls : d # c => run'[d] = run[d]
    BY <1>3, <2>1, EndIsPrompt DEF UnsentSteps, OwnSteps
  <2> QED BY <1>2, <1>3, <2>2
<1>4. ASSUME UNCHANGED <<rec, tx, stale>>, Done(c) PROVE PromptInv'
  BY <1>2, <1>4, EndIsPrompt
<1>5. CASE Prepare(c)
  <2>1. ASSUME NEW i \in Ids, NEW b \in Bodies,
               run' = [run EXCEPT ![c].pc = "reserve", ![c].id = i, ![c].body = b]
        PROVE  PromptInv'
    <3>1. run'[c].pc = "reserve" /\ \A d \in Calls : d # c => run'[d] = run[d]
      BY <1>1, <2>1 DEF Run
    <3> QED BY <1>2, <1>5, <3>1 DEF Prepare, RunIsPrompt, UnsentSteps, HashSteps
  <2> QED BY <1>4, <1>5, <2>1 DEF Prepare
<1>6. CASE AcquireWait(c)
  <2>1. ASSUME run' = [run EXCEPT ![c].pc = "seal", ![c].leases = @ + 1, ![c].fees = 0,
                                  ![c].left = TxValidity]
        PROVE  PromptInv'
    <3>1. /\ run'[c].pc = "seal" /\ run'[c].id = run[c].id
          /\ \A d \in Calls : d # c => run'[d] = run[d]
      BY <1>1, <2>1 DEF Run
    <3>2. RunIsPrompt(c)'
      BY <1>1, <1>6, <3>1 DEF RunIsPrompt, UnsentSteps, HashSteps, AcquireWait
    <3>3. run[c].pc \in UnsentSteps
      BY <1>6 DEF AcquireWait, UnsentSteps
    <3> QED BY <1>6, <3>1, <3>2, <3>3, TablePrompt DEF AcquireWait
  <2> QED BY <1>3, <1>6, <2>1 DEF AcquireWait, UnsentSteps
<1>7. CASE poll(c)
  <2>1. /\ run[c].hash \in Txs /\ run[c].id \in Ids /\ rec[run[c].id].hash = run[c].hash
        /\ UNCHANGED <<rec, tx, stale>>
    BY <1>1, <1>7 DEF poll, RunFits, RunIsPrompt, OwnSteps, HashSteps
  <2>2. ASSUME NEW o, OutcomeFits(run[c].id, o), Finishing(c, o) PROVE PromptInv'
    <3>1. \A i \in Ids : i = run[c].id => OutcomeFits(i, o)'
      BY <2>1, <2>2, QuietTx
    <3>2. /\ RunIsPrompt(c)' /\ run'[c].pc \notin UnsentSteps
          /\ \A d \in Calls : d # c => run'[d] = run[d]
      BY <1>7, <2>2, <3>1, EndIsPrompt DEF OwnSteps, poll
    <3> QED BY <1>2, <2>1, <3>2
  <2>3. OutcomeFits(run[c].id, Unconfirmed(run[c].hash))
    BY <2>1 DEF OutcomeFits, Unconfirmed
  <2>4. ASSUME Found(run[c].hash), NEW o \in landed(run[c].hash) PROVE OutcomeFits(run[c].id, o)
    <3>1. /\ o.hash = run[c].hash /\ o.status = tx[run[c].hash].state
          /\ o.fee \in {tx[run[c].hash].fee, NoFee} /\ o.status \in {"success", "failed"}
      BY <2>1, <2>4, LandedIsOutcome DEF Found
    <3> QED BY <2>1, <3>1 DEF OutcomeFits
  <2> QED BY <1>7, <2>2, <2>3, <2>4 DEF poll
<1>8. CASE finish(c)
  <2>1. /\ run[c].id \in Ids /\ run[c].out \in Outcome /\ OutcomeFits(run[c].id, run[c].out)
        /\ rec[run[c].id].status # "absent" /\ run[c].pc \in OwnSteps
    BY <1>1, <1>8 DEF finish, RunFits, RunIsPrompt, OwnSteps, Run
  <2>2. /\ \A j \in Ids : rec'[j].hash = rec[j].hash
        /\ \A j \in Ids : rec'[j] = rec[j] \/ RecordIsTrue(j)'
        /\ \A j \in Ids : j # run[c].id => rec'[j] = rec[j]
    BY <1>8, <2>1, FinishIsTrue DEF finish
  <2>3. /\ RunIsPrompt(c)' /\ run'[c].pc \notin UnsentSteps
        /\ \A d \in Calls : d # c => run'[d] = run[d]
    BY <1>8, EndIsPrompt DEF finish
  <2>4. \A d \in Calls : run'[d].pc \in UnsentSteps =>
          run'[d] = run[d] /\ rec'[run[d].id] = rec[run[d].id]
    <3>1. \A d \in Calls : d # c /\ run[d].pc \in OwnSteps => run[d].id # run[c].id /\ run[d].id \in Ids
      BY <2>1, StillOwn DEF BaseInv, RunFits
    <3> QED BY <2>2, <2>3, <3>1 DEF UnsentSteps, OwnSteps
  <2> QED BY <1>8, <2>2, <2>3, <2>4, TablePrompt DEF finish
<1>9. CASE run[c].pc # "send" /\ Crash(c)
  BY <1>4, <1>9 DEF Crash
<1> QED BY <1>3, <1>5, <1>6, <1>7, <1>8, <1>9 DEF UnsentSteps

LEMMA PromptResolver ==
  ASSUME BaseInv, PromptInv, NEW r \in Resolvers,
         (\E i \in Ids : ListStale(r, i)) \/ resolve(r) \/ FinishStale(r)
  PROVE  PromptInv'
<1>1. /\ stale \in [Resolvers -> Stale] /\ stale[r] \in Stale /\ rec \in [Ids -> Record] /\ StaleIsSent(r)
      /\ UNCHANGED <<tx, run>>
  BY DEF BaseInv, TypeOK, PromptInv, ListStale, resolve, FinishStale
<1>2. ASSUME UNCHANGED rec, StaleIsSent(r)', \A q \in Resolvers : q # r => stale'[q] = stale[q]
      PROVE  PromptInv'
  BY <1>1, <1>2, TablePrompt
<1>3. ASSUME Leave(r)
      PROVE  StaleIsSent(r)' /\ \A q \in Resolvers : q # r => stale'[q] = stale[q]
  <2>1. stale'[r].pc = "idle" /\ \A q \in Resolvers : q # r => stale'[q] = stale[q]
    BY <1>1, <1>3 DEF Leave, Idle
  <2> QED BY <2>1 DEF StaleIsSent
<1>4. ASSUME NEW i \in Ids, ListStale(r, i) PROVE PromptInv'
  <2>1. /\ stale'[r].pc = "look" /\ stale'[r].id = i /\ stale'[r].hash = rec[i].hash
        /\ stale'[r].age = rec[i].age /\ \A q \in Resolvers : q # r => stale'[q] = stale[q]
    BY <1>1, <1>4 DEF ListStale, Idle
  <2>2. rec[i].status \in InFlight /\ rec[i].age > StaleAfter /\ UNCHANGED rec /\ rec[i] \in Record
    BY <1>1, <1>4 DEF ListStale, IsStale
  <2>3. ASSUME NEW c \in Calls, run'[c].pc \in UnsentSteps, run'[c].id = i PROVE FALSE
    <3>1. rec[i].age <= StaleAfter
      BY <1>1, <2>3 DEF PromptInv, RunIsPrompt
    <3> QED BY <2>2, <3>1, ConstantsAreRight DEF Record, Old
  <2>4. rec[i].hash \in Txs => Timely(rec[i].age, rec[i].hash)
    BY <2>2 DEF PromptInv, RecordIsTrue
  <2>5. stale'[r].hash \in Txs => Timely(stale[r].age, stale[r].hash)'
    BY <1>1, <2>1, <2>4 DEF Timely, Landed, InTime
  <2>6. StaleIsSent(r)'
    BY <2>1, <2>2, <2>3, <2>5 DEF StaleIsSent
  <2> QED BY <1>2, <2>1, <2>2, <2>6
<1>5. CASE resolve(r)
  <2> DEFINE i == stale[r].id
             x == stale[r].hash
  <2>1. /\ i \in Ids /\ UNCHANGED rec /\ x = rec[i].hash /\ x \in Txs \cup {NoHash}
        /\ stale[r].pc = "look"
        /\ x \in Txs => Timely(stale[r].age, x) /\ tx[x] \in Tx
        /\ \A c \in Calls : run[c].pc \in UnsentSteps => run[c].id # i
    BY <1>1, <1>5 DEF resolve, BaseInv, TypeOK, StaleIsReserved, StaleIsSent, Stale
  <2>2. ASSUME NEW o, OutcomeFits(i, o), Settle(r, o) PROVE PromptInv'
    <3>1. /\ stale'[r].pc = "finish" /\ stale'[r].id = i /\ stale'[r].out = o
          /\ \A q \in Resolvers : q # r => stale'[q] = stale[q]
      BY <1>1, <2>2 DEF Settle, Stale
    <3>2. PICK j \in Ids : j = i
      BY <2>1
    <3>3. OutcomeFits(j, o)'
      BY <1>1, <2>1, <2>2, <3>2, QuietTx
    <3>4. OutcomeFits(stale[r].id, stale[r].out)'
      BY <3>1, <3>2, <3>3 DEF OutcomeFits, NoneLive
    <3>5. StaleIsSent(r)'
      BY <1>1, <2>1, <3>1, <3>4 DEF StaleIsSent
    <3> QED BY <1>2, <2>1, <3>1, <3>5
  <2>3. ASSUME Leave(r) PROVE PromptInv'
    BY <1>2, <1>3, <2>1, <2>3
  <2>4. ASSUME x = NoHash PROVE OutcomeFits(i, Rejected(NoHash))
    <3>1. NoneLive(i)
      BY <2>1, <2>4, NamesAreFresh DEF PromptInv, SentIsOnRecord, NoneLive, Live
    <3> QED BY <3>1 DEF OutcomeFits, Rejected
  <2>5. ASSUME x # NoHash, NotFound(x), Expired(r) PROVE OutcomeFits(i, Rejected(x))
    <3>1. x \in Txs /\ Timely(stale[r].age, x) /\ tx[x] \in Tx /\ stale[r].age \in Nat
      BY <1>1, <2>1, <2>5, ConstantsAreRight DEF Stale, Old
    <3>2. stale[r].age > TxValidity + LedgerTime
      BY <2>5 DEF Expired
    <3>3. /\ tx[x].left \in Int /\ (tx[x].left # Over => tx[x].left >= 0) /\ tx[x].since \in Nat
          /\ TxValidity \in Nat /\ LedgerTime \in Nat /\ RpcLag \in Nat
      BY <3>1, ConstantsAreRight DEF Tx, Over
    <3>4. ASSUME ~Landed(x) PROVE ~Live(x)
      BY <3>1, <3>2, <3>3, <3>4 DEF Timely, Live, CanLand, InTime
    <3>5. ASSUME Landed(x), RpcLag <= LedgerTime PROVE FALSE
      BY <2>5, <3>1, <3>2, <3>3, <3>5 DEF Timely, NotFound
    <3>6. RpcLag <= LedgerTime => NoneLive(i)
      BY <2>1, <3>4, <3>5 DEF PromptInv, SentIsOnRecord, NoneLive, Live
    <3> QED BY <2>1, <3>6 DEF OutcomeFits, Rejected
  <2>6. ASSUME x # NoHash, Found(x), NEW o \in landed(x) PROVE OutcomeFits(i, o)
    <3>1. x \in Txs
      BY <2>1, <2>6
    <3>2. /\ o.hash = x /\ o.status = tx[x].state
          /\ o.fee \in {tx[x].fee, NoFee} /\ o.status \in {"success", "failed"}
      BY <2>6, <3>1, LandedIsOutcome DEF Found
    <3> QED BY <2>1, <3>1, <3>2 DEF OutcomeFits
  <2>7. Leave(r) \/ \E o : OutcomeFits(i, o) /\ Settle(r, o)
    BY <1>5, <2>4, <2>5, <2>6 DEF resolve
  <2> QED BY <2>2, <2>3, <2>7
<1>6. CASE FinishStale(r)
  <2>1. /\ stale[r].id \in Ids /\ rec[stale[r].id].status # "absent" /\ stale[r].out \in Outcome
        /\ OutcomeFits(stale[r].id, stale[r].out)
        /\ \A c \in Calls : run[c].pc \in UnsentSteps => run[c].id # stale[r].id
    BY <1>1, <1>6 DEF FinishStale, BaseInv, StaleIsReserved, StaleIsSent, Stale
  <2>2. /\ \A j \in Ids : rec'[j].hash = rec[j].hash
        /\ \A j \in Ids : rec'[j] = rec[j] \/ RecordIsTrue(j)'
        /\ \A j \in Ids : j # stale[r].id => rec'[j] = rec[j]
    BY <1>1, <1>6, <2>1, FinishIsTrue DEF FinishStale
  <2>3. StaleIsSent(r)' /\ \A q \in Resolvers : q # r => stale'[q] = stale[q]
    BY <1>3, <1>6 DEF FinishStale
  <2>4. \A d \in Calls : run[d].pc \in UnsentSteps => run[d].id \in Ids
    BY DEF BaseInv, RunFits, UnsentSteps, OwnSteps
  <2> QED BY <1>1, <2>1, <2>2, <2>3, <2>4, TablePrompt
<1> QED BY <1>4, <1>5, <1>6

-----------------------------------------------------------------------------
(* Prompt submitters: steps that touch one request and its transactions.   *)

\* Everything about the other requests stays true.
LEMMA PrivatePrompt ==
  ASSUME BaseInv, BaseInv', PromptInv, NEW c \in Calls, NEW i \in Ids,
         \A d \in Calls : d # c => /\ run'[d] = run[d]
                                   /\ run[d].pc \in OwnSteps => run[d].id # i,
         UNCHANGED stale,
         \A r \in Resolvers : stale[r].pc # "idle" => stale[r].id # i,
         \A j \in Ids : j # i => rec'[j] = rec[j],
         run'[c].pc \in UnsentSteps => run'[c].id = i,
         \A x \in Txs : \/ tx'[x] = tx[x]
                        \/ /\ Live(x)' => tx'[x].id = i
                           /\ \A j \in Ids : j # i => rec[j].hash # x,
         RunIsPrompt(c)', RecordIsTrue(i)',
         \A x \in Txs : Live(x)' /\ tx'[x].id = i => rec'[i].hash = x
  PROVE  PromptInv'
<1>1. \A x \in Txs : tx'[x] = tx[x] => /\ Landed(x)' <=> Landed(x)
                                       /\ Live(x)' <=> Live(x)
                                       /\ InTime(x)' <=> InTime(x)
  BY DEF Landed, Live, CanLand, InTime
<1>2. ASSUME NEW j \in Ids, j # i, NoneLive(j) PROVE NoneLive(j)'
  BY <1>1, <1>2 DEF NoneLive
<1>3. ASSUME NEW j \in Ids, j # i, rec[j].hash \in Txs
      PROVE  tx'[rec[j].hash] = tx[rec[j].hash]
  BY <1>3
<1>4. ASSUME NEW j \in Ids, j # i, NEW o, OutcomeFits(j, o) PROVE OutcomeFits(j, o)'
  <2>1. rec'[j] = rec[j]
    BY <1>4
  <2>2. o.hash \in Txs => tx'[o.hash] = tx[o.hash]
    BY <1>3, <1>4, NamesAreFresh DEF OutcomeFits
  <2> QED BY <1>2, <1>4, <2>1, <2>2 DEF OutcomeFits
<1>5. ASSUME NEW j \in Ids, j # i, rec[j].hash \in Txs, NEW a, Timely(a, rec[j].hash)
      PROVE  \A x : x = rec[j].hash => Timely(a, x)'
  BY <1>1, <1>3, <1>5 DEF Timely
<1>6. ASSUME NEW d \in Calls PROVE RunIsPrompt(d)'
  <2>1. CASE d # c
    <3>1. RunIsPrompt(d) /\ RunFits(d) /\ run'[d] = run[d]
      BY <2>1 DEF PromptInv, BaseInv
    <3>2. PICK j, o : j = run[d].id /\ o = run[d].out
      OBVIOUS
    <3>3. run[d].pc \in OwnSteps => j \in Ids /\ j # i /\ rec'[j] = rec[j]
      BY <2>1, <3>1, <3>2 DEF RunFits
    <3>4. run[d].pc = "finish" => OutcomeFits(j, o)'
      BY <1>4, <3>1, <3>2, <3>3 DEF RunIsPrompt, OwnSteps
    <3>5. run'[d].pc = "finish" => OutcomeFits(run[d].id, run[d].out)'
      BY <3>1, <3>2, <3>4 DEF OutcomeFits, NoneLive
    <3> QED BY <3>1, <3>2, <3>3, <3>5 DEF RunIsPrompt, OwnSteps, UnsentSteps, HashSteps
  <2> QED BY <2>1
<1>7. ASSUME NEW r \in Resolvers PROVE StaleIsSent(r)'
  <2>1. StaleIsSent(r) /\ stale'[r] = stale[r]
    BY DEF PromptInv
  <2>2. PICK j, o, a, x : j = stale[r].id /\ o = stale[r].out /\ a = stale[r].age /\ x = stale[r].hash
    OBVIOUS
  <2>3. stale[r].pc # "idle" => j \in Ids /\ j # i /\ rec'[j] = rec[j]
    BY <2>2 DEF BaseInv, StaleIsReserved
  <2>4. stale[r].pc = "finish" => OutcomeFits(j, o)'
    BY <1>4, <2>1, <2>2, <2>3 DEF StaleIsSent
  <2>5. stale[r].pc = "look" /\ x \in Txs => Timely(a, x)'
    BY <1>5, <2>1, <2>2, <2>3 DEF StaleIsSent
  <2>6. /\ stale[r].pc = "finish" => OutcomeFits(stale[r].id, stale[r].out)'
        /\ stale[r].pc = "look" /\ stale[r].hash \in Txs => Timely(stale[r].age, stale[r].hash)'
    BY <2>1, <2>2, <2>4, <2>5 DEF OutcomeFits, NoneLive, Timely, Landed, InTime
  <2>7. stale[r].pc # "idle" =>
          \A d \in Calls : run'[d].pc \in UnsentSteps => run'[d].id # stale[r].id
    BY <2>1, <2>2, <2>3 DEF StaleIsSent
  <2> QED BY <2>1, <2>2, <2>3, <2>6, <2>7 DEF StaleIsSent
<1>8. ASSUME NEW j \in Ids PROVE RecordIsTrue(j)'
  <2>1. CASE j # i
    <3>1. RecordIsTrue(j) /\ rec'[j] = rec[j]
      BY <2>1 DEF PromptInv
    <3>2. rec[j].hash \in Txs => tx'[rec[j].hash] = tx[rec[j].hash]
      BY <1>3, <2>1
    <3>3. rec[j].status \in InFlight /\ rec[j].hash \in Txs => Timely(rec[j].age, rec[j].hash)'
      BY <3>1, <3>2 DEF RecordIsTrue, Timely, Landed, InTime
    <3> QED BY <1>2, <2>1, <3>1, <3>2, <3>3 DEF RecordIsTrue
  <2> QED BY <2>1
<1>9. SentIsOnRecord'
  <2>1. ASSUME NEW x \in Txs, Live(x)' PROVE rec'[tx'[x].id].hash = x
    <3>1. CASE tx'[x].id # i
      <4>1. tx'[x] = tx[x] /\ Live(x)
        BY <1>1, <2>1, <3>1
      <4>2. tx[x].id \in Ids /\ rec[tx[x].id].hash = x
        BY <4>1 DEF PromptInv, SentIsOnRecord, BaseInv, LiveIsOne, Live
      <4> QED BY <3>1, <4>1, <4>2
    <3> QED BY <2>1, <3>1
  <2> QED BY <2>1 DEF SentIsOnRecord, Live
<1> QED BY <1>6, <1>7, <1>8, <1>9 DEF PromptInv

\* A record just written says nothing about its transaction yet.
LEMMA TimelyAtFirst ==
  ASSUME TypeOK'
  PROVE  \A x \in Txs : Timely(0, x)'
<1>1. \A x \in Txs : tx'[x] \in Tx
  BY DEF TypeOK
<1>2. \A x \in Txs : tx'[x].since \in Nat /\ tx'[x].left \in Over .. TxValidity
  BY <1>1, ConstantsAreRight DEF Tx
<1> QED BY <1>2, ConstantsAreRight DEF Timely, Over

LEMMA PromptReserve ==
  ASSUME BaseInv, BaseInv', PromptInv, NEW c \in Calls, Reserve(c)
  PROVE  PromptInv'
<1>1. PICK i \in Ids : i = run[c].id
  BY DEF Reserve, BaseInv, RunFits
<1>2. /\ run[c].body \in Bodies /\ run \in [Calls -> Run] /\ run[c] \in Run
      /\ rec \in [Ids -> Record] /\ UNCHANGED <<tx, stale>>
  BY DEF Reserve, BaseInv, RunFits, TypeOK
<1>3. ASSUME UNCHANGED rec, Done(c) PROVE PromptInv'
  BY <1>2, <1>3, EndIsPrompt, TablePrompt
<1>4. ASSUME IsNew(i), rec' = [rec EXCEPT ![i] = Reserved(run[c].body)],
             run' = [run EXCEPT ![c].pc = "lease"] \/ Done(c)
      PROVE  PromptInv'
  <2>1. /\ rec'[i].status = "pending" /\ rec'[i].hash = NoHash /\ rec'[i].fee = NoFee
        /\ rec'[i].age = 0 /\ \A j \in Ids : j # i => rec'[j] = rec[j]
    BY <1>2, <1>4 DEF Reserved
  <2>2. rec[i].status = "absent" /\ \A x \in Txs : tx'[x].id # i
    BY <1>2, <1>4 DEF IsNew, BaseInv, AbsentIsUnused
  <2>3. \A d \in Calls : run[d].pc \in OwnSteps => run[d].id # i
    BY <2>2 DEF BaseInv, RunFits
  <2>4. \A r \in Resolvers : stale[r].pc # "idle" => stale[r].id # i
    BY <2>2 DEF BaseInv, StaleIsReserved
  <2>5. RecordIsTrue(i)'
    BY <2>1, NamesAreFresh DEF RecordIsTrue
  <2>6. CASE Done(c)
    <3>1. /\ RunIsPrompt(c)' /\ run'[c].pc \notin UnsentSteps
          /\ \A d \in Calls : d # c => run'[d] = run[d]
      BY <2>6, EndIsPrompt
    <3> QED BY <1>2, <2>1, <2>2, <2>3, <2>4, <2>5, <3>1, PrivatePrompt
  <2>7. CASE run' = [run EXCEPT ![c].pc = "lease"]
    <3>1. run'[c].pc = "lease" /\ run'[c].id = i /\ \A d \in Calls : d # c => run'[d] = run[d]
      BY <1>1, <1>2, <2>7 DEF Run
    <3>2. RunIsPrompt(c)'
      BY <2>1, <3>1, ConstantsAreRight DEF RunIsPrompt, HashSteps
    <3> QED BY <1>2, <2>1, <2>2, <2>3, <2>4, <2>5, <3>1, <3>2, PrivatePrompt
  <2> QED BY <1>4, <2>6, <2>7
<1> QED BY <1>1, <1>3, <1>4 DEF Reserve

\* While a submission has not sent, its request is its own.
LEMMA UnsentIsOwn ==
  ASSUME BaseInv, PromptInv, NEW c \in Calls, run[c].pc \in UnsentSteps, NEW i, i = run[c].id
  PROVE  /\ i \in Ids /\ NoneLive(i) /\ rec[i].status = "pending" /\ rec[i].fee = NoFee
         /\ \A d \in Calls : d # c /\ run[d].pc \in OwnSteps => run[d].id # i
         /\ \A r \in Resolvers : stale[r].pc # "idle" => stale[r].id # i
<1>1. run[c].pc \in OwnSteps
  BY DEF UnsentSteps, OwnSteps
<1>2. i \in Ids /\ NoneLive(i)
  BY <1>1 DEF BaseInv, RunFits
<1>3. rec[i].status = "pending"
  BY DEF PromptInv, RunIsPrompt
<1>4. rec[i].fee = NoFee
  BY <1>2, <1>3 DEF PromptInv, RecordIsTrue
<1>5. \A r \in Resolvers : stale[r].pc # "idle" => stale[r].id # i
  BY DEF PromptInv, StaleIsSent
<1> QED BY <1>1, <1>2, <1>3, <1>4, <1>5, StillOwn

LEMMA PromptSeal ==
  ASSUME BaseInv, BaseInv', PromptInv, NEW c \in Calls, seal(c)
  PROVE  PromptInv'
<1>1. PICK i : i = run[c].id
  OBVIOUS
<1>2. /\ run[c].pc = "seal" /\ run[c].pc \in UnsentSteps /\ run[c].pc \in OwnSteps
      /\ run \in [Calls -> Run] /\ run[c] \in Run
      /\ rec \in [Ids -> Record] /\ tx \in [Txs -> Tx] /\ UNCHANGED stale
  BY DEF seal, BaseInv, TypeOK, UnsentSteps, OwnSteps
<1>3. /\ i \in Ids /\ NoneLive(i) /\ rec[i].status = "pending" /\ rec[i].fee = NoFee
      /\ \A d \in Calls : d # c /\ run[d].pc \in OwnSteps => run[d].id # i
      /\ \A r \in Resolvers : stale[r].pc # "idle" => stale[r].id # i
  BY <1>1, <1>2, UnsentIsOwn
<1>4. ASSUME NEW x \in Txs, Fresh(x), rec' = SetHash(i, x),
             NEW t, tx' = [tx EXCEPT ![x] = t], t.id = i, t.state \in {"sealed", "gone"},
             \/ run' = [run EXCEPT ![c].pc = "send", ![c].hash = x, ![c].left = Over]
             \/ Finishing(c, Rejected(NoHash))
      PROVE  PromptInv'
  <2>1. /\ rec'[i].status = "pending" /\ rec'[i].hash = x /\ rec'[i].fee = NoFee
        /\ rec'[i].age = 0 /\ \A j \in Ids : j # i => rec'[j] = rec[j]
    <3>1. rec' = [rec EXCEPT ![i].hash = x, ![i].age = 0]
      BY <1>3, <1>4 DEF SetHash
    <3> QED BY <1>2, <1>3, <3>1 DEF Record
  <2>2. tx'[x] = t /\ \A y \in Txs : y # x => tx'[y] = tx[y]
    BY <1>2, <1>4
  <2>3. ~Live(x)' /\ \A y \in Txs : y # x => (Live(y)' <=> Live(y))
    BY <1>4, <2>2 DEF Live, Landed, CanLand, InTime
  <2>4. NoneLive(i)'
    BY <1>3, <2>2, <2>3 DEF NoneLive
  <2>5. RecordIsTrue(i)'
    <3>1. Timely(rec[i].age, rec[i].hash)'
      <4>1. Timely(0, x)'
        BY TimelyAtFirst DEF BaseInv
      <4> QED BY <2>1, <4>1 DEF Timely, Landed, InTime
    <3> QED BY <1>4, <2>1, <2>2, <3>1 DEF RecordIsTrue
  <2>6. \A y \in Txs : y = x => \A j \in Ids : rec[j].hash # y
    BY <1>4 DEF Fresh
  <2>7. \A y \in Txs : \/ tx'[y] = tx[y]
                       \/ /\ Live(y)' => tx'[y].id = i
                          /\ \A j \in Ids : j # i => rec[j].hash # y
    BY <2>2, <2>3, <2>6
  <2>8. \A y \in Txs : ~(Live(y)' /\ tx'[y].id = i)
    BY <2>4 DEF NoneLive
  <2>9. CASE Finishing(c, Rejected(NoHash))
    <3>1. OutcomeFits(i, Rejected(NoHash))'
      BY <2>4 DEF OutcomeFits, Rejected
    <3>2. /\ RunIsPrompt(c)' /\ run'[c].pc \notin UnsentSteps
          /\ \A d \in Calls : d # c => run'[d] = run[d]
      BY <1>1, <1>2, <2>9, <3>1, EndIsPrompt
    <3> QED BY <1>2, <1>3, <2>1, <2>5, <2>7, <2>8, <3>2, PrivatePrompt
  <2>10. CASE run' = [run EXCEPT ![c].pc = "send", ![c].hash = x, ![c].left = Over]
    <3>1. /\ run'[c].pc = "send" /\ run'[c].id = i /\ run'[c].hash = x
          /\ \A d \in Calls : d # c => run'[d] = run[d]
      BY <1>1, <1>2, <2>10 DEF Run
    <3>2. RunIsPrompt(c)'
      BY <2>1, <3>1, ConstantsAreRight DEF RunIsPrompt
    <3> QED BY <1>2, <1>3, <2>1, <2>5, <2>7, <2>8, <3>1, <3>2, PrivatePrompt
  <2> QED BY <1>4, <2>9, <2>10
<1>5. ASSUME NEW x \in Txs, Fresh(x), rec' = SetHash(i, x),
             tx' = [tx EXCEPT ![x] = [NewTx(i) EXCEPT !.state = "sealed", !.left = run[c].left]],
             run' = [run EXCEPT ![c].pc = "send", ![c].hash = x, ![c].left = Over]
      PROVE  PromptInv'
  <2>1. PICK t : t = [NewTx(i) EXCEPT !.state = "sealed", !.left = run[c].left]
    OBVIOUS
  <2>2. t.id = i /\ t.state = "sealed"
    BY <2>1 DEF NewTx
  <2> QED BY <1>4, <1>5, <2>1, <2>2
<1>6. ASSUME NEW x \in Txs, Fresh(x), rec' = SetHash(i, x),
             tx' = [tx EXCEPT ![x] = [NewTx(i) EXCEPT !.state = "gone"]],
             Finishing(c, Rejected(NoHash))
      PROVE  PromptInv'
  <2>1. PICK t : t = [NewTx(i) EXCEPT !.state = "gone"]
    OBVIOUS
  <2>2. t.id = i /\ t.state = "gone"
    BY <2>1 DEF NewTx
  <2> QED BY <1>4, <1>6, <2>1, <2>2
<1>7. ASSUME Finishing(c, Rejected(NoHash)), UNCHANGED <<rec, tx>> PROVE PromptInv'
  BY <1>2, <1>7, PromptCalls
<1> QED BY <1>1, <1>5, <1>6, <1>7 DEF seal

LEMMA PromptSend ==
  ASSUME BaseInv, BaseInv', PromptInv, NEW c \in Calls,
         send(c) \/ (run[c].pc = "send" /\ Crash(c))
  PROVE  PromptInv'
<1>1. PICK i, x : i = run[c].id /\ x = run[c].hash
  OBVIOUS
<1>2. /\ run[c].pc = "send" /\ run[c].pc \in UnsentSteps /\ run[c].pc \in OwnSteps
      /\ run \in [Calls -> Run] /\ run[c] \in Run
      /\ rec \in [Ids -> Record] /\ tx \in [Txs -> Tx] /\ UNCHANGED <<rec, stale>>
  BY DEF send, Crash, BaseInv, TypeOK, UnsentSteps, OwnSteps
<1>3. /\ i \in Ids /\ NoneLive(i) /\ rec[i].status = "pending" /\ rec[i].fee = NoFee
      /\ \A d \in Calls : d # c /\ run[d].pc \in OwnSteps => run[d].id # i
      /\ \A r \in Resolvers : stale[r].pc # "idle" => stale[r].id # i
  BY <1>1, <1>2, UnsentIsOwn
<1>4. x \in Txs /\ tx[x].id = i /\ rec[i].hash = x /\ tx[x] \in Tx /\ rec[i].age <= StaleAfter
  BY <1>1, <1>2 DEF BaseInv, RunFits, PromptInv, RunIsPrompt, HashSteps
<1>5. ~Landed(x) /\ Timely(rec[i].age, x)
  BY <1>3, <1>4 DEF NoneLive, Live, PromptInv, RecordIsTrue, InFlight
<1>6. \A j \in Ids : j # i => rec[j].hash # x
  BY <1>4 DEF PromptInv, RecordIsTrue
<1>7. ASSUME NEW t, tx' = [tx EXCEPT ![x] = t], t.id = i,
             t.state \notin {"success", "failed"}, t.left \in {Over, tx[x].left},
             RunIsPrompt(c)', run'[c].pc \in UnsentSteps => run'[c].id = i,
             \A d \in Calls : d # c => run'[d] = run[d]
      PROVE  PromptInv'
  <2>1. tx'[x] = t /\ \A y \in Txs : y # x => tx'[y] = tx[y]
    BY <1>2, <1>4, <1>7
  <2>2. \A y \in Txs : y # x => (Live(y)' <=> Live(y))
    BY <2>1 DEF Live, Landed, CanLand, InTime
  <2>3. \A y \in Txs : Live(y)' /\ tx'[y].id = i => rec'[i].hash = y
    BY <1>2, <1>3, <1>4, <2>1, <2>2 DEF NoneLive
  <2>4. RecordIsTrue(i)'
    <3>1. Timely(rec[i].age, rec[i].hash)'
      BY <1>2, <1>4, <1>5, <1>7, <2>1 DEF Timely, Landed, InTime
    <3> QED BY <1>2, <1>3, <1>4, <1>7, <2>1, <3>1 DEF RecordIsTrue
  <2>5. \A y \in Txs : \/ tx'[y] = tx[y]
                       \/ /\ Live(y)' => tx'[y].id = i
                          /\ \A j \in Ids : j # i => rec[j].hash # y
    BY <1>6, <1>7, <2>1
  <2> QED BY <1>2, <1>3, <1>7, <2>3, <2>4, <2>5, PrivatePrompt
<1>8. PICK q, g : q = [tx[x] EXCEPT !.state = "queued"] /\ g = [tx[x] EXCEPT !.state = "gone", !.left = Over]
  OBVIOUS
<1>9. /\ q.id = i /\ q.state = "queued" /\ q.left = tx[x].left
      /\ g.id = i /\ g.state = "gone" /\ g.left = Over
  BY <1>4, <1>8 DEF Tx
<1>10. ASSUME Refused(c) PROVE tx' = [tx EXCEPT ![x] = g] /\ NoneLive(i)'
  <2>1. tx' = [tx EXCEPT ![x] = g]
    BY <1>1, <1>2, <1>4, <1>8, <1>10 DEF Refused, Tx
  <2>2. tx'[x] = g /\ \A y \in Txs : y # x => tx'[y] = tx[y]
    BY <1>2, <1>4, <2>1
  <2> QED BY <1>3, <1>9, <2>1, <2>2 DEF NoneLive, Live, Landed, CanLand, InTime
<1>11. ASSUME tx' = [tx EXCEPT ![run[c].hash].state = "queued"] PROVE tx' = [tx EXCEPT ![x] = q]
  BY <1>1, <1>8, <1>11
<1>12. ASSUME Done(c), Refused(c) PROVE PromptInv'
  BY <1>7, <1>9, <1>10, <1>12, EndIsPrompt
<1>13. ASSUME NEW o, Finishing(c, o), OutcomeFits(i, o)'
       PROVE  /\ RunIsPrompt(c)' /\ run'[c].pc \notin UnsentSteps
              /\ \A d \in Calls : d # c => run'[d] = run[d]
  BY <1>1, <1>2, <1>13, EndIsPrompt
<1>14. ASSUME Refused(c), Finishing(c, Rejected(NoHash)) PROVE PromptInv'
  <2>1. OutcomeFits(i, Rejected(NoHash))'
    BY <1>10, <1>14 DEF OutcomeFits, Rejected
  <2> QED BY <1>7, <1>9, <1>10, <1>13, <1>14, <2>1
<1>15. ASSUME Refused(c), NEW r, run' = [run EXCEPT ![c] = r], r.id = i, r.pc \in {"lease", "seal"}
       PROVE  PromptInv'
  <2>1. run'[c] = r /\ \A d \in Calls : d # c => run'[d] = run[d]
    BY <1>2, <1>15
  <2>2. RunIsPrompt(c)'
    BY <1>2, <1>3, <1>4, <1>15, <2>1 DEF RunIsPrompt, HashSteps
  <2> QED BY <1>7, <1>9, <1>10, <1>15, <2>1, <2>2
<1>16. CASE SendQueued(c)
  <2>1. /\ run'[c].pc = "poll" /\ run'[c].id = i /\ run'[c].hash = x
        /\ \A d \in Calls : d # c => run'[d] = run[d]
    BY <1>1, <1>2, <1>16 DEF SendQueued, Run
  <2>2. RunIsPrompt(c)'
    BY <1>2, <1>4, <2>1 DEF RunIsPrompt, UnsentSteps
  <2> QED BY <1>7, <1>9, <1>11, <1>16, <2>1, <2>2 DEF SendQueued, UnsentSteps
<1>17. CASE SendUnknown(c)
  <2>1. OutcomeFits(i, Unconfirmed(x))'
    BY <1>2, <1>4 DEF OutcomeFits, Unconfirmed
  <2>2. /\ RunIsPrompt(c)' /\ run'[c].pc \notin UnsentSteps
        /\ \A d \in Calls : d # c => run'[d] = run[d]
    BY <1>1, <1>13, <1>17, <2>1 DEF SendUnknown
  <2> QED BY <1>7, <1>9, <1>10, <1>11, <1>17, <2>2 DEF SendUnknown
<1>18. CASE RejectedBadSeq(c)
  <2>1. ASSUME run' = [run EXCEPT ![c].pc = "lease", ![c].hash = NoHash] PROVE PromptInv'
    <3>1. PICK r : r = [run[c] EXCEPT !.pc = "lease", !.hash = NoHash]
      OBVIOUS
    <3>2. r.pc = "lease" /\ r.id = i
      BY <1>1, <1>2, <3>1 DEF Run
    <3>3. run' = [run EXCEPT ![c] = r]
      BY <1>2, <2>1, <3>1 DEF Run
    <3> QED BY <1>15, <1>18, <3>2, <3>3 DEF RejectedBadSeq
  <2> QED BY <1>14, <1>18, <2>1 DEF RejectedBadSeq
<1>19. CASE RejectedFee(c)
  <2>1. ASSUME run' = [run EXCEPT ![c].pc = "seal", ![c].hash = NoHash, ![c].fees = @ + 1,
                                  ![c].left = tx[run[c].hash].left]
        PROVE  PromptInv'
    <3>1. PICK r : r = [run[c] EXCEPT !.pc = "seal", !.hash = NoHash, !.fees = @ + 1,
                                      !.left = tx[run[c].hash].left]
      OBVIOUS
    <3>2. r.pc = "seal" /\ r.id = i
      BY <1>1, <1>2, <3>1 DEF Run
    <3>3. run' = [run EXCEPT ![c] = r]
      BY <1>2, <2>1, <3>1 DEF Run
    <3> QED BY <1>15, <1>19, <3>2, <3>3 DEF RejectedFee
  <2> QED BY <1>14, <1>19, <2>1 DEF RejectedFee
<1>20. CASE RejectedOther(c)
  BY <1>14, <1>20 DEF RejectedOther
<1>21. CASE Crash(c)
  BY <1>2, <1>12, <1>21 DEF Crash
<1> QED BY <1>16, <1>17, <1>18, <1>19, <1>20, <1>21 DEF send

-----------------------------------------------------------------------------
(* Prompt submitters: the network and time.                                *)

\* A step that changes only ages and what becomes of transactions, for the worse.
LEMMA OutsidePrompt ==
  ASSUME BaseInv, PromptInv,
         \A x \in Txs : /\ Live(x)' => Live(x)
                        /\ tx'[x].id = tx[x].id
                        /\ Landed(x) => tx'[x].state = tx[x].state /\ tx'[x].fee = tx[x].fee,
         \A j \in Ids : /\ rec'[j].status = rec[j].status /\ rec'[j].hash = rec[j].hash
                        /\ rec'[j].fee = rec[j].fee,
         \A d \in Calls : /\ run'[d].pc = run[d].pc /\ run'[d].id = run[d].id
                          /\ run'[d].hash = run[d].hash /\ run'[d].out = run[d].out
                          /\ run[d].pc \in UnsentSteps => rec'[run[d].id].age <= StaleAfter,
         \A r \in Resolvers : /\ stale'[r].pc = stale[r].pc /\ stale'[r].id = stale[r].id
                              /\ stale'[r].hash = stale[r].hash /\ stale'[r].out = stale[r].out,
         \A x \in Txs : /\ \A j \in Ids : Timely(rec[j].age, x) => Timely(rec[j].age, x)'
                        /\ \A r \in Resolvers : Timely(stale[r].age, x) => Timely(stale[r].age, x)'
  PROVE  PromptInv'
<1>1. \A j : NoneLive(j) => NoneLive(j)'
  BY DEF NoneLive
<1>2. ASSUME NEW j \in Ids, NEW o, OutcomeFits(j, o) PROVE OutcomeFits(j, o)'
  <2>1. o.status \in {"success", "failed"} => tx'[o.hash].state = o.status /\ tx'[o.hash].fee = tx[o.hash].fee
    BY <1>2 DEF OutcomeFits, Landed
  <2> QED BY <1>1, <1>2, <2>1 DEF OutcomeFits
<1>3. ASSUME NEW d \in Calls PROVE RunIsPrompt(d)'
  <2>1. RunIsPrompt(d) /\ RunFits(d)
    BY DEF PromptInv, BaseInv
  <2>2. PICK j, o : j = run[d].id /\ o = run[d].out
    OBVIOUS
  <2>3. run[d].pc = "finish" => OutcomeFits(j, o)'
    BY <1>2, <2>1, <2>2 DEF RunIsPrompt, RunFits, OwnSteps
  <2>4. run'[d].pc = "finish" => OutcomeFits(run[d].id, run[d].out)'
    BY <2>2, <2>3 DEF OutcomeFits, NoneLive
  <2>5. run[d].pc \in OwnSteps => run[d].id \in Ids
    BY <2>1 DEF RunFits
  <2> QED BY <2>1, <2>4, <2>5 DEF RunIsPrompt, OwnSteps, UnsentSteps, HashSteps
<1>4. ASSUME NEW r \in Resolvers PROVE StaleIsSent(r)'
  <2>1. StaleIsSent(r) /\ (stale[r].pc # "idle" => stale[r].id \in Ids)
    BY DEF PromptInv, BaseInv, StaleIsReserved
  <2>2. PICK j, o, x : j = stale[r].id /\ o = stale[r].out /\ x = stale[r].hash
    OBVIOUS
  <2>3. stale[r].pc = "finish" => OutcomeFits(j, o)'
    BY <1>2, <2>1, <2>2 DEF StaleIsSent
  <2>4. stale[r].pc = "look" /\ x \in Txs => Timely(stale[r].age, x)'
    BY <2>1, <2>2 DEF StaleIsSent
  <2>5. /\ stale[r].pc = "finish" => OutcomeFits(stale[r].id, stale[r].out)'
        /\ stale[r].pc = "look" /\ stale[r].hash \in Txs => Timely(stale[r].age, stale[r].hash)'
    BY <2>2, <2>3, <2>4 DEF OutcomeFits, NoneLive, Timely, Landed, InTime
  <2> QED BY <2>1, <2>5 DEF StaleIsSent
<1>5. ASSUME NEW j \in Ids PROVE RecordIsTrue(j)'
  <2>1. RecordIsTrue(j)
    BY DEF PromptInv
  <2>2. PICK x : x = rec[j].hash
    OBVIOUS
  <2>3. rec[j].status \in InFlight /\ x \in Txs => Timely(rec[j].age, x)'
    BY <2>1, <2>2 DEF RecordIsTrue
  <2>4. rec'[j].status \in InFlight /\ rec'[j].hash \in Txs => Timely(rec[j].age, rec[j].hash)'
    BY <2>2, <2>3 DEF Timely, Landed, InTime
  <2>5. rec[j].status \in {"success", "failed"} =>
          tx'[rec[j].hash].state = rec[j].status /\ tx'[rec[j].hash].fee = tx[rec[j].hash].fee
    BY <2>1 DEF RecordIsTrue, Landed
  <2> QED BY <1>1, <2>1, <2>4, <2>5 DEF RecordIsTrue
<1>6. SentIsOnRecord'
  <2>1. \A x \in Txs : Live(x) => tx[x].id \in Ids /\ rec[tx[x].id].hash = x
    BY DEF PromptInv, SentIsOnRecord, BaseInv, LiveIsOne, Live
  <2> QED BY <2>1 DEF SentIsOnRecord, Live
<1> QED BY <1>3, <1>4, <1>5, <1>6 DEF PromptInv

LEMMA PromptNetwork ==
  ASSUME BaseInv, PromptInv, NEW x \in Txs, Lands(x) \/ Drop(x)
  PROVE  PromptInv'
<1>1. /\ tx \in [Txs -> Tx] /\ tx[x] \in Tx /\ CanLand(x) /\ UNCHANGED <<rec, run, stale>>
      /\ rec \in [Ids -> Record] /\ stale \in [Resolvers -> Stale]
  BY DEF BaseInv, TypeOK, Lands, Drop
<1>2. PICK t : /\ tx' = [tx EXCEPT ![x] = t] /\ t.id = tx[x].id /\ t.left = Over
               /\ t.state \in {"success", "failed", "gone"} /\ t.since = tx[x].since
  <2>1. ASSUME NEW state \in {"success", "failed"}, NEW fee, NEW t,
               t = [tx[x] EXCEPT !.state = state, !.fee = fee, !.left = Over]
        PROVE  t.id = tx[x].id /\ t.left = Over /\ t.state = state /\ t.since = tx[x].since
    BY <1>1, <2>1 DEF Tx
  <2>2. ASSUME NEW t, t = [tx[x] EXCEPT !.state = "gone", !.left = Over]
        PROVE  /\ t.id = tx[x].id /\ t.state = "gone" /\ t.left = Over /\ t.since = tx[x].since
               /\ [tx EXCEPT ![x].state = "gone", ![x].left = Over] = [tx EXCEPT ![x] = t]
    BY <1>1, <2>2 DEF Tx
  <2>3. CASE Drop(x)
    BY <2>2, <2>3 DEF Drop
  <2>4. CASE Lands(x)
    <3>1. PICK state \in {"success", "failed"}, fee \in 1 .. MaxFee :
            tx' = [tx EXCEPT ![x] = [@ EXCEPT !.state = state, !.fee = fee, !.left = Over]]
      BY <2>4 DEF Lands
    <3>2. PICK t : t = [tx[x] EXCEPT !.state = state, !.fee = fee, !.left = Over]
      OBVIOUS
    <3>3. tx' = [tx EXCEPT ![x] = t]
      BY <1>1, <3>1, <3>2
    <3> QED BY <2>1, <3>2, <3>3
  <2> QED BY <2>3, <2>4
<1>3. tx'[x] = t /\ \A y \in Txs : y # x => tx'[y] = tx[y]
  BY <1>1, <1>2
<1>4. \A y \in Txs : y # x => (Live(y)' <=> Live(y)) /\ \A a : Timely(a, y)' <=> Timely(a, y)
  BY <1>3 DEF Live, Landed, CanLand, InTime, Timely
<1>5. Live(x) /\ ~Landed(x) /\ InTime(x)
  BY <1>1 DEF Live, CanLand, Landed
<1>6. \A y \in Txs : /\ Live(y)' => Live(y)
                     /\ tx'[y].id = tx[y].id
                     /\ Landed(y) => tx'[y].state = tx[y].state /\ tx'[y].fee = tx[y].fee
  BY <1>2, <1>3, <1>4, <1>5
<1>7. ASSUME NEW a \in Nat, Timely(a, x) PROVE Timely(a, x)'
  <2>1. /\ tx[x].left \in Int /\ tx[x].left >= 0 /\ tx[x].since \in Nat /\ TxValidity \in Nat
    BY <1>1, <1>5, ConstantsAreRight DEF Tx, InTime, Over
  <2>2. a <= TxValidity
    BY <1>5, <1>7, <2>1 DEF Timely
  <2> QED BY <1>2, <1>3, <2>1, <2>2 DEF Timely, InTime
<1>8. \A j \in Ids : rec[j].age \in Nat
  BY <1>1, ConstantsAreRight DEF Record, Old
<1>9. \A r \in Resolvers : stale[r].age \in Nat
  BY <1>1, ConstantsAreRight DEF Stale, Old
<1>10. ASSUME NEW y \in Txs, NEW j \in Ids, Timely(rec[j].age, y) PROVE Timely(rec[j].age, y)'
  <2>1. PICK a \in Nat : a = rec[j].age
    BY <1>8
  <2>2. Timely(a, y)'
    BY <1>4, <1>7, <1>10, <2>1
  <2> QED BY <1>1, <2>1, <2>2 DEF Timely
<1>11. ASSUME NEW y \in Txs, NEW r \in Resolvers, Timely(stale[r].age, y) PROVE Timely(stale[r].age, y)'
  <2>1. PICK a \in Nat : a = stale[r].age
    BY <1>9
  <2>2. Timely(a, y)'
    BY <1>4, <1>7, <1>11, <2>1
  <2> QED BY <1>1, <2>1, <2>2 DEF Timely
<1>12. \A d \in Calls : run[d].pc \in UnsentSteps => rec'[run[d].id].age <= StaleAfter
  BY <1>1 DEF PromptInv, RunIsPrompt
<1> QED BY <1>1, <1>6, <1>10, <1>11, <1>12, OutsidePrompt

LEMMA PromptTick ==
  ASSUME BaseInv, PromptInv, PromptSubmitter, Tick
  PROVE  PromptInv'
<1>1. /\ rec \in [Ids -> Record] /\ tx \in [Txs -> Tx] /\ stale \in [Resolvers -> Stale]
  BY DEF BaseInv, TypeOK
<1>2. /\ TxValidity \in Nat /\ RpcLag \in Nat /\ Old \in Nat /\ StaleAfter \in Nat
  BY ConstantsAreRight DEF Old
<1>3. \A x \in Txs : /\ tx'[x].state = tx[x].state /\ tx'[x].id = tx[x].id
                     /\ tx'[x].fee = tx[x].fee
                     /\ Landed(x) => /\ tx'[x].left = tx[x].left
                                     /\ tx'[x].since = Older(tx[x].since, RpcLag + 1)
                     /\ ~Landed(x) => /\ tx'[x].left = Younger(tx[x].left)
                                      /\ tx'[x].since = tx[x].since
  BY TickDoes
<1>4. \A x \in Txs : Live(x)' => Live(x)
  BY <1>3 DEF Live, Landed, CanLand, InTime, Younger
<1>5. ASSUME NEW x \in Txs, NEW a \in Nat, NEW b \in Nat, b <= a + 1, Timely(a, x)
      PROVE  \A n : n = b => Timely(n, x)'
  <2>1. tx[x] \in Tx
    BY <1>1
  <2>2. tx[x].left \in Int /\ tx[x].since \in Nat
    BY <1>2, <2>1 DEF Tx, Over
  <2>3. CASE Landed(x)
    <3>1. /\ Landed(x)' /\ tx'[x].since = Older(tx[x].since, RpcLag + 1)
      BY <1>3, <2>3 DEF Landed
    <3>2. a <= TxValidity + tx[x].since \/ tx[x].since = RpcLag + 1
      BY <1>5, <2>3 DEF Timely
    <3>3. b <= TxValidity + tx'[x].since \/ tx'[x].since = RpcLag + 1
      BY <1>2, <1>5, <2>2, <3>1, <3>2 DEF Older
    <3> QED BY <3>1, <3>3 DEF Timely
  <2>4. CASE ~Landed(x)
    <3>1. /\ ~Landed(x)' /\ tx'[x].left = Younger(tx[x].left)
      BY <1>3, <2>4 DEF Landed
    <3>2. tx[x].left # Over => a + tx[x].left <= TxValidity
      BY <1>5, <2>4 DEF Timely, InTime
    <3>3. tx'[x].left # Over => b + tx'[x].left <= TxValidity
      BY <1>2, <1>5, <2>2, <3>1, <3>2 DEF Younger, Over
    <3> QED BY <3>1, <3>3 DEF Timely, InTime
  <2> QED BY <2>3, <2>4
<1>6. \A n \in 0 .. Old : Older(n, Old) \in Nat /\ Older(n, Old) <= n + 1 /\ n \in Nat
  BY <1>2 DEF Older
<1>7. \A j \in Ids : rec[j].age \in 0 .. Old /\ rec[j].age \in Nat /\ rec'[j].age \in Nat
                     /\ rec'[j].age <= rec[j].age + 1
  <2>1. \A j \in Ids : rec[j].age \in 0 .. Old /\ rec'[j].age \in {rec[j].age, Older(rec[j].age, Old)}
    BY <1>1, TickDoes DEF Record
  <2> QED BY <1>6, <2>1
<1>8. \A r \in Resolvers : stale[r].age \in Nat /\ stale'[r].age \in Nat
                           /\ stale'[r].age <= stale[r].age + 1
  <2>1. \A r \in Resolvers :
          stale[r].age \in 0 .. Old /\ stale'[r].age \in {stale[r].age, Older(stale[r].age, Old)}
    BY <1>1, TickDoes DEF Stale
  <2> QED BY <1>6, <2>1
<1>9. ASSUME NEW x \in Txs, NEW j \in Ids, Timely(rec[j].age, x) PROVE Timely(rec[j].age, x)'
  <2>1. PICK n : n = rec'[j].age
    OBVIOUS
  <2>2. Timely(n, x)'
    BY <1>5, <1>7, <1>9, <2>1
  <2> QED BY <2>1, <2>2 DEF Timely
<1>10. ASSUME NEW x \in Txs, NEW r \in Resolvers, Timely(stale[r].age, x) PROVE Timely(stale[r].age, x)'
  <2>1. PICK n : n = stale'[r].age
    OBVIOUS
  <2>2. Timely(n, x)'
    BY <1>5, <1>8, <1>10, <2>1
  <2> QED BY <2>1, <2>2 DEF Timely
<1>11. ASSUME NEW d \in Calls, run[d].pc \in UnsentSteps PROVE rec'[run[d].id].age <= StaleAfter
  <2>1. run[d].id \in Ids /\ rec[run[d].id].status = "pending"
    BY <1>11 DEF BaseInv, RunFits, UnsentSteps, OwnSteps, PromptInv, RunIsPrompt
  <2>2. ~(rec[run[d].id].age >= StaleAfter)
    BY <1>11, <2>1 DEF Tick, Late, UnsentSteps, InFlight
  <2> QED BY <1>2, <1>7, <2>1, <2>2
<1>12. /\ \A j \in Ids : /\ rec'[j].status = rec[j].status /\ rec'[j].hash = rec[j].hash
                         /\ rec'[j].fee = rec[j].fee
       /\ \A d \in Calls : /\ run'[d].pc = run[d].pc /\ run'[d].id = run[d].id
                           /\ run'[d].hash = run[d].hash /\ run'[d].out = run[d].out
       /\ \A r \in Resolvers : /\ stale'[r].pc = stale[r].pc /\ stale'[r].id = stale[r].id
                               /\ stale'[r].hash = stale[r].hash /\ stale'[r].out = stale[r].out
  BY TickDoes
<1> QED BY <1>3, <1>4, <1>9, <1>10, <1>11, <1>12, OutsidePrompt

LEMMA PromptStep ==
  ASSUME PromptSubmitter
  PROVE  BaseInv /\ PromptInv /\ [Next]_vars => PromptInv'
<1> SUFFICES ASSUME BaseInv, PromptInv, [Next]_vars PROVE PromptInv'
  OBVIOUS
<1>1. BaseInv'
  BY BaseStep
<1>2. ASSUME NEW c \in Calls, Submit(c) \/ Crash(c) PROVE PromptInv'
  BY <1>1, <1>2, PromptCalls, PromptReserve, PromptSeal, PromptSend DEF Submit
<1>3. CASE UNCHANGED vars
  <2>1. \A d \in Calls : run'[d].pc \in UnsentSteps => run[d].pc \in UnsentSteps
    BY <1>3 DEF vars
  <2> QED BY <1>3, <2>1, TablePrompt DEF vars
<1> QED BY <1>2, <1>3, PromptResolver, PromptNetwork, PromptTick DEF Next

LEMMA PromptInit == Init => PromptInv
<1> SUFFICES ASSUME Init PROVE PromptInv
  OBVIOUS
<1>1. \A i \in Ids : rec[i].status = "absent" /\ rec[i].hash = NoHash /\ rec[i].fee = NoFee
  BY DEF Init
<1>2. \A x \in Txs : ~Live(x)
  BY DEF Init, NewTx, Live, Landed, CanLand
<1>3. \A c \in Calls : run[c].pc = "start"
  BY DEF Init, NoRun
<1>4. \A r \in Resolvers : stale[r].pc = "idle"
  BY DEF Init, Idle
<1>5. \A c \in Calls : RunIsPrompt(c)
  BY <1>3 DEF RunIsPrompt, UnsentSteps, HashSteps
<1>6. \A r \in Resolvers : StaleIsSent(r)
  BY <1>4 DEF StaleIsSent
<1>7. \A i \in Ids : RecordIsTrue(i)
  BY <1>1, NamesAreFresh DEF RecordIsTrue, InFlight
<1> QED BY <1>2, <1>5, <1>6, <1>7 DEF PromptInv, SentIsOnRecord, Live

-----------------------------------------------------------------------------
(* The limits: only Reserve adds a row that counts.                        *)

\* A step that adds no row and revives none keeps the limits.
LEMMA LimitKeep ==
  ASSUME BaseInv, LimitInv,
         \A i \in Ids : /\ rec'[i].body = rec[i].body
                        /\ \/ rec'[i].status = rec[i].status
                           \/ rec[i].status \in InFlight /\ rec'[i].status # "absent"
  PROVE  LimitInv'
<1> DEFINE present == {i \in Ids : rec[i].status # "absent"}
<1>1. IsFiniteSet(present) /\ \A i \in Ids : rec[i].status # "absent" => rec[i].body \in Bodies
  BY DEF LimitInv
<1>2. \A i \in Ids : rec'[i].status # "absent" <=> rec[i].status # "absent"
  BY DEF InFlight
<1>3. IsFiniteSet({i \in Ids : rec[i].status # "absent"})'
  BY <1>1, <1>2
<1>4. \A i \in Ids : rec'[i].status # "absent" => rec'[i].body \in Bodies
  BY <1>1, <1>2
<1>5. ASSUME NEW w \in AllWallets
      PROVE  /\ Cardinality(Rows(w, "sponsored"))' <= MaxTxPerWallet
             /\ Cardinality(Exposed(w))' < MaxForwardFailuresPerWallet + MaxForwardInFlightPerWallet
  <2>1. /\ Rows(w, "sponsored") \in SUBSET present /\ Exposed(w) \in SUBSET present
        /\ Rows(w, "sponsored")' \in SUBSET Rows(w, "sponsored")
    BY DEF Rows, Exposed, InFlight
  <2>2. Exposed(w)' \in SUBSET Exposed(w)
    BY DEF Rows, Exposed, InFlight
  <2>3. IsFiniteSet(Rows(w, "sponsored")) /\ IsFiniteSet(Exposed(w))
    BY <1>1, <2>1, FS_Subset
  <2>4. IsFiniteSet(Rows(w, "sponsored")') /\ Cardinality(Rows(w, "sponsored")') <= Cardinality(Rows(w, "sponsored"))
    BY <2>1, <2>3, FS_Subset
  <2>5. IsFiniteSet(Exposed(w)') /\ Cardinality(Exposed(w)') <= Cardinality(Exposed(w))
    BY <2>2, <2>3, FS_Subset
  <2>6. /\ Cardinality(Rows(w, "sponsored")) \in Nat /\ Cardinality(Rows(w, "sponsored")') \in Nat
        /\ Cardinality(Exposed(w)) \in Nat /\ Cardinality(Exposed(w)') \in Nat
    BY <2>3, <2>4, <2>5, FS_CardinalityType
  <2>7. /\ Cardinality(Rows(w, "sponsored")) <= MaxTxPerWallet
        /\ Cardinality(Exposed(w)) < MaxForwardFailuresPerWallet + MaxForwardInFlightPerWallet
    BY DEF LimitInv
  <2> QED BY <2>4, <2>5, <2>6, <2>7, ConstantsAreRight
<1> QED BY <1>3, <1>4, <1>5 DEF LimitInv

\* A row is added only where the counts leave room for it.
LEMMA LimitInsert ==
  ASSUME BaseInv, LimitInv, NEW i \in Ids, NEW b \in Bodies, IsNew(i), Fits(b),
         rec' = [rec EXCEPT ![i] = Reserved(b)]
  PROVE  LimitInv'
<1> DEFINE present == {j \in Ids : rec[j].status # "absent"}
<1>1. /\ IsFiniteSet(present) /\ rec \in [Ids -> Record]
      /\ \A j \in Ids : rec[j].status # "absent" => rec[j].body \in Bodies
  BY DEF LimitInv, BaseInv, TypeOK
<1>2. /\ rec'[i].status = "pending" /\ rec'[i].body = b /\ rec[i].status = "absent"
      /\ \A j \in Ids : j # i => rec'[j] = rec[j]
  BY <1>1 DEF Reserved, IsNew
<1>3. IsFiniteSet({j \in Ids : rec[j].status # "absent"})'
  <2>1. IsFiniteSet(present \cup {i})
    BY <1>1, FS_AddElement
  <2>2. {j \in Ids : rec[j].status # "absent"}' = present \cup {i}
    BY <1>2
  <2> QED BY <2>1, <2>2
<1>4. \A j \in Ids : rec'[j].status # "absent" => rec'[j].body \in Bodies
  BY <1>1, <1>2
<1>5. ASSUME NEW w \in AllWallets
      PROVE  Cardinality(Rows(w, "sponsored"))' <= MaxTxPerWallet
  <2>1. Rows(w, "sponsored") \in SUBSET present
    BY DEF Rows
  <2>2. IsFiniteSet(Rows(w, "sponsored"))
    BY <1>1, <2>1, FS_Subset
  <2>3. Cardinality(Rows(w, "sponsored")) \in Nat /\ Cardinality(Rows(w, "sponsored")) <= MaxTxPerWallet
    BY <2>2, FS_CardinalityType DEF LimitInv
  <2>4. CASE ModeOf[b] = "sponsored" /\ WalletOf[b] = w
    <3>1. Rows(w, "sponsored")' = Rows(w, "sponsored") \cup {i}
      BY <1>2, <2>4 DEF Rows
    <3>2. i \notin Rows(w, "sponsored")
      BY <1>2 DEF Rows
    <3>3. Cardinality(Rows(w, "sponsored") \cup {i}) = Cardinality(Rows(w, "sponsored")) + 1
      BY <2>2, <3>2, FS_AddElement
    <3>4. Cardinality(Rows(w, "sponsored")) < MaxTxPerWallet
      BY <2>4 DEF Fits, checkCaps
    <3> QED BY <2>3, <3>1, <3>3, <3>4, ConstantsAreRight
  <2>5. CASE ~(ModeOf[b] = "sponsored" /\ WalletOf[b] = w)
    <3>1. Rows(w, "sponsored")' = Rows(w, "sponsored")
      BY <1>2, <2>5 DEF Rows
    <3> QED BY <2>3, <3>1
  <2> QED BY <2>4, <2>5
<1>6. ASSUME NEW w \in AllWallets
      PROVE  Cardinality(Exposed(w))' < MaxForwardFailuresPerWallet + MaxForwardInFlightPerWallet
  <2>1. CASE ModeOf[b] = "forward" /\ WalletOf[b] = w
    <3> DEFINE failed == {j \in Rows(w, "forward") : rec[j].status = "failed"}
               flying == {j \in Rows(w, "forward") : rec[j].status \in InFlight}
    <3>1. failed \in SUBSET present /\ flying \in SUBSET present
      BY DEF Rows
    <3>2. IsFiniteSet(failed) /\ IsFiniteSet(flying)
      BY <1>1, <3>1, FS_Subset
    <3>3. Cardinality(failed) < MaxForwardFailuresPerWallet /\ Cardinality(flying) < MaxForwardInFlightPerWallet
      BY <2>1 DEF Fits, checkForwardExposure
    <3>4. Exposed(w) = failed \cup flying
      BY DEF Exposed
    <3>5. /\ IsFiniteSet(failed \cup flying)
          /\ Cardinality(failed \cup flying) = Cardinality(failed) + Cardinality(flying) - Cardinality(failed \cap flying)
      BY <3>2, FS_Union
    <3>6. Cardinality(failed) \in Nat /\ Cardinality(flying) \in Nat /\ Cardinality(failed \cap flying) \in Nat
      <4>1. IsFiniteSet(failed \cap flying)
        BY <3>2, FS_Intersection
      <4> QED BY <3>2, <4>1, FS_CardinalityType
    <3>7. Exposed(w)' = Exposed(w) \cup {i} /\ i \notin Exposed(w)
      BY <1>2, <2>1 DEF Rows, Exposed, InFlight
    <3>8. Cardinality(Exposed(w) \cup {i}) = Cardinality(Exposed(w)) + 1
      BY <3>4, <3>5, <3>7, FS_AddElement
    <3>9. Cardinality(Exposed(w)) \in Nat /\ Cardinality(Exposed(w)) <= Cardinality(failed) + Cardinality(flying)
      <4>1. PICK n, m, k \in Nat : n = Cardinality(failed) /\ m = Cardinality(flying) /\ k = Cardinality(failed \cap flying)
        BY <3>6
      <4>2. Cardinality(Exposed(w)) = n + m - k
        BY <3>4, <3>5, <4>1
      <4>3. Cardinality(Exposed(w)) \in Nat
        BY <3>4, <3>5, FS_CardinalityType
      <4> HIDE DEF failed, flying
      <4> QED BY <4>1, <4>2, <4>3
    <3> HIDE DEF failed, flying
    <3> QED BY <3>3, <3>6, <3>7, <3>8, <3>9, ConstantsAreRight
  <2>2. CASE ~(ModeOf[b] = "forward" /\ WalletOf[b] = w)
    <3>1. Exposed(w)' = Exposed(w)
      BY <1>2, <2>2 DEF Rows, Exposed, InFlight
    <3> QED BY <3>1 DEF LimitInv
  <2> QED BY <2>1, <2>2
<1> QED BY <1>3, <1>4, <1>5, <1>6 DEF LimitInv

\* What the writes of an outcome or a hash do to a row, for the limits.
LEMMA WritesAreCounted ==
  ASSUME TypeOK, NEW i \in Ids, rec[i].status # "absent"
  PROVE  /\ \A x \in Txs : \A j \in Ids : /\ SetHash(i, x)[j].body = rec[j].body
                                          /\ SetHash(i, x)[j].status = rec[j].status
         /\ \A o \in Outcome : \A j \in Ids :
              /\ Finish(i, o)[j].body = rec[j].body
              /\ \/ Finish(i, o)[j].status = rec[j].status
                 \/ rec[j].status \in InFlight /\ Finish(i, o)[j].status # "absent"
<1>1. rec \in [Ids -> Record] /\ rec[i] \in Record
  BY DEF TypeOK
<1>2. ASSUME NEW x \in Txs, NEW j \in Ids
      PROVE  SetHash(i, x)[j].body = rec[j].body /\ SetHash(i, x)[j].status = rec[j].status
  <2>1. [rec EXCEPT ![i].hash = x, ![i].age = 0][j].body = rec[j].body
    BY <1>1 DEF Record
  <2> QED BY <2>1, WritesFit DEF SetHash
<1>3. ASSUME NEW o \in Outcome, NEW j \in Ids
      PROVE  /\ Finish(i, o)[j].body = rec[j].body
             /\ \/ Finish(i, o)[j].status = rec[j].status
                \/ rec[j].status \in InFlight /\ Finish(i, o)[j].status # "absent"
  <2>1. CASE rec[i].status \in Final
    BY <2>1 DEF Finish
  <2>2. CASE rec[i].status \notin Final
    <3>1. PICK y : y = [rec[i] EXCEPT !.status = o.status,
                                      !.hash = IF o.hash = NoHash THEN @ ELSE o.hash,
                                      !.fee = IF o.fee = NoFee THEN @ ELSE o.fee, !.age = 0]
      OBVIOUS
    <3>2. y.body = rec[i].body /\ y.status = o.status /\ o.status # "absent"
      BY <1>1, <3>1 DEF Record, Outcome, Final
    <3>3. Finish(i, o) = [rec EXCEPT ![i] = y]
      <4>1. Finish(i, o) = [rec EXCEPT ![i].status = o.status,
                             ![i].hash = IF o.hash = NoHash THEN @ ELSE o.hash,
                             ![i].fee = IF o.fee = NoFee THEN @ ELSE o.fee, ![i].age = 0]
        BY <2>2 DEF Finish
      <4> QED BY <1>1, <3>1, <4>1 DEF Record
    <3>4. rec[i].status \in InFlight
      BY <1>1, <2>2 DEF Record
    <3> QED BY <1>1, <3>2, <3>3, <3>4
  <2> QED BY <2>1, <2>2
<1> QED BY <1>2, <1>3

LEMMA LimitStep == BaseInv /\ LimitInv /\ [Next]_vars => LimitInv'
<1> SUFFICES ASSUME BaseInv, LimitInv, [Next]_vars PROVE LimitInv'
  OBVIOUS
<1>1. TypeOK
  BY DEF BaseInv
<1>2. CASE UNCHANGED rec
  BY <1>2, LimitKeep
<1>3. ASSUME NEW i \in Ids, rec[i].status # "absent",
             \/ \E x \in Txs : rec' = SetHash(i, x)
             \/ \E o \in Outcome : rec' = Finish(i, o)
      PROVE  LimitInv'
  BY <1>1, <1>3, WritesAreCounted, LimitKeep
<1>4. ASSUME NEW c \in Calls, Submit(c) \/ Crash(c) PROVE LimitInv'
  <2>1. CASE Reserve(c)
    <3>1. run[c].id \in Ids /\ run[c].body \in Bodies
      BY <2>1 DEF Reserve, BaseInv, RunFits
    <3> QED BY <1>2, <2>1, <3>1, LimitInsert DEF Reserve
  <2>2. CASE seal(c)
    <3>1. run[c].id \in Ids /\ rec[run[c].id].status # "absent"
      BY <2>2 DEF seal, BaseInv, RunFits, OwnSteps
    <3> QED BY <1>2, <1>3, <2>2, <3>1 DEF seal
  <2>3. CASE finish(c)
    <3>1. run[c].id \in Ids /\ rec[run[c].id].status # "absent" /\ run[c].out \in Outcome
      BY <1>1, <2>3 DEF finish, BaseInv, RunFits, OwnSteps, TypeOK, Run
    <3> QED BY <1>2, <1>3, <2>3, <3>1 DEF finish
  <2> QED BY <1>2, <1>4, <2>1, <2>2, <2>3 DEF Submit, Prepare, AcquireWait, send, poll, Crash
<1>5. ASSUME NEW r \in Resolvers, (\E i \in Ids : ListStale(r, i)) \/ resolve(r) \/ FinishStale(r)
      PROVE  LimitInv'
  <2>1. CASE FinishStale(r)
    <3>1. stale[r].id \in Ids /\ rec[stale[r].id].status # "absent" /\ stale[r].out \in Outcome
      BY <1>1, <2>1 DEF FinishStale, BaseInv, StaleIsReserved, TypeOK, Stale
    <3> QED BY <1>2, <1>3, <2>1, <3>1 DEF FinishStale
  <2> QED BY <1>2, <1>5, <2>1 DEF ListStale, resolve
<1>6. CASE Tick
  BY <1>6, TickDoes, LimitKeep
<1> QED BY <1>2, <1>4, <1>5, <1>6 DEF Next, Lands, Drop, vars

LEMMA LimitInit == Init => LimitInv
<1> SUFFICES ASSUME Init PROVE LimitInv
  OBVIOUS
<1>1. \A i \in Ids : rec[i].status = "absent"
  BY DEF Init
<1>2. {i \in Ids : rec[i].status # "absent"} = {}
  BY <1>1
<1>3. \A w \in AllWallets : Rows(w, "sponsored") = {} /\ Exposed(w) = {}
  BY <1>1 DEF Rows, Exposed
<1>4. IsFiniteSet({i \in Ids : rec[i].status # "absent"})
  BY <1>2, FS_EmptySet
<1>5. \A w \in AllWallets : Cardinality(Rows(w, "sponsored")) = 0 /\ Cardinality(Exposed(w)) = 0
  BY <1>3, FS_EmptySet
<1>6. MaxTxPerWallet >= 0 /\ MaxForwardFailuresPerWallet + MaxForwardInFlightPerWallet > 0
  BY ConstantsAreRight
<1> QED BY <1>1, <1>4, <1>5, <1>6 DEF LimitInv

-----------------------------------------------------------------------------
(* Sums over finite sets.                                                  *)

\* The element a sum takes next.
Pick(s) == CHOOSE x \in s : TRUE

\* g holds the sums of f over the subsets of S.
IsFold(f, S, g) ==
  g = [s \in SUBSET S |-> IF s = {} THEN 0 ELSE f[Pick(s)] + g[s \ {Pick(s)}]]

\* The sum of f over S.
Total(f, S) == (CHOOSE g : IsFold(f, S, g))[S]

\* Induction on the subsets of a finite set, one element at a time.
LEMMA RemoveInduction ==
  ASSUME NEW S, IsFiniteSet(S), NEW G \in SUBSET SUBSET S,
         \A T \in SUBSET S : (\A x \in T : T \ {x} \in G) => T \in G
  PROVE  \A T \in SUBSET S : T \in G
<1> SUFFICES ASSUME NEW T \in SUBSET S, T \notin G PROVE FALSE
  OBVIOUS
<1> DEFINE R == StrictSubsetOrdering(S)
           B == {U \in SUBSET S : U \notin G}
<1>1. IsWellFoundedOn(R, FiniteSubsetsOf(S))
  BY FS_StrictSubsetOrderingWellFounded
<1>2. B \subseteq FiniteSubsetsOf(S) /\ B # {}
  BY FS_Subset DEF FiniteSubsetsOf
<1>3. PICK U \in B : \A V \in B : ~(<<V, U>> \in R)
  <2> HIDE DEF R, B
  <2> QED BY <1>1, <1>2, WFMin
<1>4. \A x \in U : <<U \ {x}, U>> \in R
  BY DEF StrictSubsetOrdering
<1> QED BY <1>3, <1>4

LEMMA PickIn == ASSUME NEW s, s # {} PROVE Pick(s) \in s
BY DEF Pick

LEMMA FoldAt ==
  ASSUME NEW S, NEW f, NEW g, IsFold(f, S, g)
  PROVE  /\ g[{}] = 0
         /\ \A s \in SUBSET S : s # {} => g[s] = f[Pick(s)] + g[s \ {Pick(s)}]
<1>1. \A s \in SUBSET S : g[s] = IF s = {} THEN 0 ELSE f[Pick(s)] + g[s \ {Pick(s)}]
  BY DEF IsFold
<1> QED BY <1>1

\* Two such functions agree where both are defined.
LEMMA FoldIsUnique ==
  ASSUME NEW S, NEW T, NEW f, NEW g, NEW h, IsFold(f, S, g), IsFold(f, T, h), IsFiniteSet(S \cap T)
  PROVE  \A V \in SUBSET (S \cap T) : g[V] = h[V]
<1> DEFINE G == {V \in SUBSET (S \cap T) : g[V] = h[V]}
<1>1. ASSUME NEW V \in SUBSET (S \cap T), \A x \in V : V \ {x} \in G PROVE V \in G
  <2>1. CASE V = {}
    <3>1. g[{}] = 0 /\ h[{}] = 0
      BY FoldAt
    <3> QED BY <2>1, <3>1
  <2>2. CASE V # {}
    <3>1. PICK x \in V : x = Pick(V)
      BY <2>2, PickIn
    <3>2. g[V] = f[x] + g[V \ {x}] /\ h[V] = f[x] + h[V \ {x}]
      <4>1. V \in SUBSET S /\ V \in SUBSET T
        OBVIOUS
      <4>2. g[V] = f[x] + g[V \ {x}]
        BY <2>2, <3>1, <4>1, FoldAt
      <4>3. h[V] = f[x] + h[V \ {x}]
        BY <2>2, <3>1, <4>1, FoldAt
      <4> QED BY <4>2, <4>3
    <3>3. g[V \ {x}] = h[V \ {x}]
      BY <1>1
    <3> QED BY <3>2, <3>3
  <2> QED BY <2>1, <2>2
<1>2. \A V \in SUBSET (S \cap T) : V \in G
  <2>1. PICK D : D = S \cap T
    OBVIOUS
  <2>2. /\ IsFiniteSet(D) /\ G \in SUBSET SUBSET D
        /\ \A V \in SUBSET D : (\A x \in V : V \ {x} \in G) => V \in G
    BY <1>1, <2>1
  <2> HIDE DEF G
  <2>3. \A V \in SUBSET D : V \in G
    BY <2>2, RemoveInduction
  <2> QED BY <2>1, <2>3
<1> QED BY <1>2

LEMMA FoldExists ==
  ASSUME NEW S, IsFiniteSet(S), NEW f
  PROVE  \E g : IsFold(f, S, g)
<1> DEFINE G == {T \in SUBSET S : \E g : IsFold(f, T, g)}
<1>1. ASSUME NEW T \in SUBSET S, \A x \in T : T \ {x} \in G PROVE T \in G
  <2> DEFINE k == [x \in T |-> CHOOSE g : IsFold(f, T \ {x}, g)]
             h == [s \in SUBSET T |-> IF s = {} THEN 0 ELSE f[Pick(s)] + k[Pick(s)][s \ {Pick(s)}]]
  <2>1. \A x \in T : IsFold(f, T \ {x}, k[x])
    BY <1>1
  <2>2. ASSUME NEW s \in SUBSET T, s # {}
        PROVE  k[Pick(s)][s \ {Pick(s)}] = h[s \ {Pick(s)}]
    <3>1. PICK x \in s : x = Pick(s)
      BY <2>2, PickIn
    <3>2. PICK V : V = s \ {x}
      OBVIOUS
    <3>3. V \in SUBSET T /\ V \in SUBSET (T \ {x}) /\ IsFold(f, T \ {x}, k[x])
      BY <2>1, <3>2
    <3>4. CASE V = {}
      <4>1. k[x][V] = 0
        BY <3>3, <3>4, FoldAt
      <4>2. h[V] = 0
        BY <3>3, <3>4
      <4> QED BY <3>1, <3>2, <4>1, <4>2
    <3>5. CASE V # {}
      <4>1. PICK y \in V : y = Pick(V)
        BY <3>5, PickIn
      <4>2. k[x][V] = f[y] + k[x][V \ {y}]
        BY <3>3, <3>5, <4>1, FoldAt
      <4>3. h[V] = f[y] + k[y][V \ {y}]
        BY <3>3, <3>5, <4>1
      <4>4. IsFold(f, T \ {y}, k[y])
        BY <2>1, <3>3, <4>1
      <4>5. k[x][V \ {y}] = k[y][V \ {y}]
        <5>1. IsFiniteSet((T \ {x}) \cap (T \ {y}))
          BY FS_Subset
        <5>2. V \ {y} \in SUBSET ((T \ {x}) \cap (T \ {y}))
          BY <3>3
        <5> HIDE DEF k
        <5> QED BY <3>3, <4>4, <5>1, <5>2, FoldIsUnique
      <4> QED BY <3>1, <3>2, <4>2, <4>3, <4>5
    <3> QED BY <3>4, <3>5
  <2>3. PICK g : g = h
    OBVIOUS
  <2>4. ASSUME NEW s \in SUBSET T
        PROVE  (IF s = {} THEN 0 ELSE f[Pick(s)] + k[Pick(s)][s \ {Pick(s)}])
               = IF s = {} THEN 0 ELSE f[Pick(s)] + g[s \ {Pick(s)}]
    <3>1. s # {} => k[Pick(s)][s \ {Pick(s)}] = g[s \ {Pick(s)}]
      BY <2>2, <2>3
    <3> HIDE DEF k
    <3> QED BY <3>1
  <2>5. g = [s \in SUBSET T |-> IF s = {} THEN 0 ELSE f[Pick(s)] + g[s \ {Pick(s)}]]
    <3> HIDE DEF k
    <3> QED BY <2>3, <2>4
  <2>6. IsFold(f, T, g)
    BY <2>5 DEF IsFold
  <2> QED BY <2>6
<1>2. G \in SUBSET SUBSET S
  OBVIOUS
<1>3. S \in G
  <2> HIDE DEF G
  <2> QED BY <1>1, <1>2, RemoveInduction
<1> QED BY <1>3

\* A sum takes its elements one by one.
LEMMA TotalStep ==
  ASSUME NEW S, IsFiniteSet(S), NEW f
  PROVE  /\ S = {} => Total(f, S) = 0
         /\ S # {} => Total(f, S) = f[Pick(S)] + Total(f, S \ {Pick(S)})
<1>1. PICK g : g = CHOOSE h : IsFold(f, S, h)
  OBVIOUS
<1>2. IsFold(f, S, g) /\ Total(f, S) = g[S]
  BY <1>1, FoldExists DEF Total
<1>3. S = {} => Total(f, S) = 0
  BY <1>2, FoldAt
<1>4. ASSUME S # {} PROVE Total(f, S) = f[Pick(S)] + Total(f, S \ {Pick(S)})
  <2>1. PICK x \in S : x = Pick(S)
    BY <1>4, PickIn
  <2>2. g[S] = f[x] + g[S \ {x}]
    BY <1>2, <1>4, <2>1, FoldAt
  <2>3. PICK T : T = S \ {x}
    OBVIOUS
  <2>4. IsFiniteSet(T) /\ T \cap S = T /\ T \in SUBSET T
    BY <2>3, FS_Subset
  <2>5. PICK h : h = CHOOSE k : IsFold(f, T, k)
    OBVIOUS
  <2>6. IsFold(f, T, h) /\ Total(f, T) = h[T]
    BY <2>4, <2>5, FoldExists DEF Total
  <2>7. IsFiniteSet(T \cap S) /\ T \in SUBSET (T \cap S)
    BY <2>4
  <2>8. h[T] = g[T]
    BY <1>2, <2>6, <2>7, FoldIsUnique
  <2> QED BY <1>2, <2>1, <2>2, <2>3, <2>6, <2>8
<1> QED BY <1>3, <1>4

LEMMA TotalIsNat ==
  ASSUME NEW S, IsFiniteSet(S), NEW f, \A x \in S : f[x] \in Nat
  PROVE  \A T \in SUBSET S : Total(f, T) \in Nat
<1> DEFINE G == {T \in SUBSET S : Total(f, T) \in Nat}
<1>1. ASSUME NEW T \in SUBSET S, \A x \in T : T \ {x} \in G PROVE T \in G
  <2>1. IsFiniteSet(T)
    BY FS_Subset
  <2>2. CASE T = {}
    BY <2>1, <2>2, TotalStep
  <2>3. CASE T # {}
    <3>1. PICK x \in T : x = Pick(T)
      BY <2>3, PickIn
    <3>2. Total(f, T) = f[x] + Total(f, T \ {x})
      BY <2>1, <2>3, <3>1, TotalStep
    <3>3. Total(f, T \ {x}) \in Nat /\ f[x] \in Nat
      BY <1>1
    <3> QED BY <3>2, <3>3
  <2> QED BY <2>2, <2>3
<1>2. G \in SUBSET SUBSET S
  OBVIOUS
<1>3. \A T \in SUBSET S : T \in G
  <2> HIDE DEF G
  <2> QED BY <1>1, <1>2, RemoveInduction
<1> QED BY <1>3

\* Which element it takes first does not matter.
LEMMA TotalRemove ==
  ASSUME NEW S, IsFiniteSet(S), NEW f, \A x \in S : f[x] \in Nat
  PROVE  \A T \in SUBSET S : \A x \in T : Total(f, T) = f[x] + Total(f, T \ {x})
<1> DEFINE G == {T \in SUBSET S : \A x \in T : Total(f, T) = f[x] + Total(f, T \ {x})}
<1>1. ASSUME NEW T \in SUBSET S, \A x \in T : T \ {x} \in G, NEW x \in T
      PROVE  Total(f, T) = f[x] + Total(f, T \ {x})
  <2>1. IsFiniteSet(T) /\ T # {}
    BY FS_Subset
  <2>2. PICK y \in T : y = Pick(T)
    BY <2>1, PickIn
  <2>3. Total(f, T) = f[y] + Total(f, T \ {y})
    BY <2>1, <2>2, TotalStep
  <2>4. CASE x = y
    BY <2>3, <2>4
  <2>5. CASE x # y
    <3>1. x \in T \ {y} /\ y \in T \ {x}
      BY <2>5
    <3>2. Total(f, T \ {y}) = f[x] + Total(f, (T \ {y}) \ {x})
      BY <1>1, <3>1
    <3>3. Total(f, T \ {x}) = f[y] + Total(f, (T \ {x}) \ {y})
      BY <1>1, <3>1
    <3>4. PICK U \in SUBSET S : U = (T \ {y}) \ {x} /\ U = (T \ {x}) \ {y}
      OBVIOUS
    <3>5. Total(f, U) \in Nat /\ f[x] \in Nat /\ f[y] \in Nat
      BY <3>4, TotalIsNat
    <3>6. PICK n \in Nat : n = Total(f, U)
      BY <3>5
    <3>7. Total(f, T) = f[y] + (f[x] + n) /\ Total(f, T \ {x}) = f[y] + n
      BY <2>3, <3>2, <3>3, <3>4, <3>6
    <3>8. f[y] + (f[x] + n) = f[x] + (f[y] + n)
      BY <3>5, <3>6
    <3> QED BY <3>7, <3>8
  <2> QED BY <2>4, <2>5
<1>2. G \in SUBSET SUBSET S /\ \A T \in SUBSET S : (\A x \in T : T \ {x} \in G) => T \in G
  BY <1>1
<1>3. \A T \in SUBSET S : T \in G
  <2> HIDE DEF G
  <2> QED BY <1>2, RemoveInduction
<1> QED BY <1>3

\* A total over what maps one to one into another set of at least the same values.
LEMMA TotalInto ==
  ASSUME NEW S, NEW T, IsFiniteSet(S), IsFiniteSet(T), NEW f, NEW g,
         \A x \in S : f[x] \in Nat, \A y \in T : g[y] \in Nat,
         NEW m \in [S -> T], \A x, y \in S : m[x] = m[y] => x = y,
         \A x \in S : f[x] <= g[m[x]]
  PROVE  Total(f, S) <= Total(g, T)
<1> DEFINE G == {U \in SUBSET T : \A V \in SUBSET S : (\A x \in V : m[x] \in U) => Total(f, V) <= Total(g, U)}
<1>1. ASSUME NEW U \in SUBSET T, \A y \in U : U \ {y} \in G,
             NEW V \in SUBSET S, \A x \in V : m[x] \in U
      PROVE  Total(f, V) <= Total(g, U)
  <2>1. Total(f, V) \in Nat /\ Total(g, U) \in Nat /\ IsFiniteSet(V)
    BY TotalIsNat, FS_Subset
  <2>2. CASE V = {}
    <3>1. Total(f, V) = 0
      BY <2>1, <2>2, TotalStep
    <3> QED BY <2>1, <3>1
  <2>3. CASE V # {}
    <3>1. PICK x : x \in V
      BY <2>3
    <3>2. x \in S /\ m[x] \in U /\ m[x] \in T
      BY <1>1, <3>1
    <3>3. Total(f, V) = f[x] + Total(f, V \ {x})
      BY <3>1, TotalRemove
    <3>4. Total(g, U) = g[m[x]] + Total(g, U \ {m[x]})
      BY <3>2, TotalRemove
    <3>5. Total(f, V \ {x}) <= Total(g, U \ {m[x]})
      <4>1. U \ {m[x]} \in G
        BY <1>1, <3>2
      <4>2. V \ {x} \in SUBSET S /\ \A z \in V \ {x} : m[z] \in U \ {m[x]}
        BY <1>1, <3>1, <3>2
      <4> QED BY <4>1, <4>2
    <3>6. Total(f, V \ {x}) \in Nat /\ Total(g, U \ {m[x]}) \in Nat
      BY TotalIsNat
    <3>7. f[x] \in Nat /\ g[m[x]] \in Nat /\ f[x] <= g[m[x]]
      BY <3>2
    <3> QED BY <3>3, <3>4, <3>5, <3>6, <3>7
  <2> QED BY <2>2, <2>3
<1>2. G \in SUBSET SUBSET T /\ \A U \in SUBSET T : (\A y \in U : U \ {y} \in G) => U \in G
  BY <1>1
<1>3. T \in G
  <2> HIDE DEF G
  <2> QED BY <1>2, RemoveInduction
<1> QED BY <1>3

-----------------------------------------------------------------------------
(* What rows and transactions amount to.                                   *)

\* What each row counts for.
Owed == [i \in Ids |-> IF rec[i].fee = NoFee THEN MaxFee ELSE rec[i].fee]
FeeOf == [x \in Txs |-> tx[x].fee]

LEMMA SpendIsTotal ==
  \A S \in SUBSET Ids : IsFiniteSet(S) => spendSQL(S) = Total(Owed, S)
<1> SUFFICES ASSUME NEW S \in SUBSET Ids, IsFiniteSet(S) PROVE spendSQL(S) = Total(Owed, S)
  OBVIOUS
<1> DEFINE val(i) == IF rec[i].fee = NoFee THEN MaxFee ELSE rec[i].fee
           D(g) == g = [s \in SUBSET S |-> IF s = {} THEN 0 ELSE val(Pick(s)) + g[s \ {Pick(s)}]]
<1>1. spendSQL(S) = (CHOOSE g : D(g))[S]
  BY DEF spendSQL, MapThenSumSet, MapThenFoldSet, Pick
<1>2. \A g : D(g) <=> IsFold(Owed, S, g)
  <2>1. \A s \in SUBSET S : s # {} => val(Pick(s)) = Owed[Pick(s)]
    BY PickIn DEF Owed
  <2> HIDE DEF val
  <2>2. ASSUME NEW g
        PROVE  [s \in SUBSET S |-> IF s = {} THEN 0 ELSE val(Pick(s)) + g[s \ {Pick(s)}]]
               = [s \in SUBSET S |-> IF s = {} THEN 0 ELSE Owed[Pick(s)] + g[s \ {Pick(s)}]]
    BY <2>1
  <2> QED BY <2>2 DEF IsFold
<1>3. PICK h : h = CHOOSE g : D(g)
  OBVIOUS
<1>4. D(h)
  <2> HIDE DEF D
  <2>1. \E g : D(g)
    BY <1>2, FoldExists
  <2> QED BY <1>3, <2>1
<1>5. PICK k : k = CHOOSE g : IsFold(Owed, S, g)
  OBVIOUS
<1>6. IsFold(Owed, S, k) /\ IsFold(Owed, S, h) /\ Total(Owed, S) = k[S] /\ spendSQL(S) = h[S]
  <2> HIDE DEF D
  <2> QED BY <1>1, <1>2, <1>3, <1>4, <1>5, FoldExists DEF Total
<1>7. h[S] = k[S]
  <2>1. IsFiniteSet(S \cap S) /\ S \in SUBSET (S \cap S)
    BY FS_Subset
  <2> QED BY <1>6, <2>1, FoldIsUnique
<1> QED BY <1>6, <1>7

LEMMA SpendIsTotalNext ==
  (\A S \in SUBSET Ids : IsFiniteSet(S) => spendSQL(S) = Total(Owed, S))'
BY SpendIsTotal, PTL

LEMMA CostIsTotal ==
  \A S \in SUBSET Txs : IsFiniteSet(S) => Cost(S) = Total(FeeOf, S)
<1> SUFFICES ASSUME NEW S \in SUBSET Txs, IsFiniteSet(S) PROVE Cost(S) = Total(FeeOf, S)
  OBVIOUS
<1> DEFINE D(g) == g = [s \in SUBSET S |-> IF s = {} THEN 0 ELSE tx[Pick(s)].fee + g[s \ {Pick(s)}]]
<1>1. Cost(S) = (CHOOSE g : D(g))[S]
  BY DEF Cost, MapThenSumSet, MapThenFoldSet, Pick
<1>2. \A g : D(g) <=> IsFold(FeeOf, S, g)
  <2>1. \A s \in SUBSET S : s # {} => tx[Pick(s)].fee = FeeOf[Pick(s)]
    BY PickIn DEF FeeOf
  <2>2. ASSUME NEW g
        PROVE  [s \in SUBSET S |-> IF s = {} THEN 0 ELSE tx[Pick(s)].fee + g[s \ {Pick(s)}]]
               = [s \in SUBSET S |-> IF s = {} THEN 0 ELSE FeeOf[Pick(s)] + g[s \ {Pick(s)}]]
    BY <2>1
  <2> QED BY <2>2 DEF IsFold
<1>3. PICK h : h = CHOOSE g : D(g)
  OBVIOUS
<1>4. D(h)
  <2> HIDE DEF D
  <2>1. \E g : D(g)
    BY <1>2, FoldExists
  <2> QED BY <1>3, <2>1
<1>5. PICK k : k = CHOOSE g : IsFold(FeeOf, S, g)
  OBVIOUS
<1>6. IsFold(FeeOf, S, k) /\ IsFold(FeeOf, S, h) /\ Total(FeeOf, S) = k[S] /\ Cost(S) = h[S]
  <2> HIDE DEF D
  <2> QED BY <1>1, <1>2, <1>3, <1>4, <1>5, FoldExists DEF Total
<1>7. h[S] = k[S]
  <2>1. IsFiniteSet(S \cap S) /\ S \in SUBSET (S \cap S)
    BY FS_Subset
  <2> QED BY <1>6, <2>1, FoldIsUnique
<1> QED BY <1>6, <1>7

\* A row counts for at least nothing and at most the reservation.
LEMMA OwedIsBounded ==
  /\ TypeOK => \A i \in Ids : Owed[i] \in Nat /\ Owed[i] <= MaxFee
  /\ TypeOK' => \A i \in Ids : Owed'[i] \in Nat /\ Owed'[i] <= MaxFee
<1>1. MaxFee \in Nat
  BY ConstantsAreRight
<1>2. ASSUME TypeOK, NEW i \in Ids PROVE Owed[i] \in Nat /\ Owed[i] <= MaxFee
  <2>1. rec[i].fee \in {NoFee} \cup 1 .. MaxFee
    BY <1>2 DEF TypeOK, Record
  <2> QED BY <1>1, <2>1 DEF Owed
<1>3. ASSUME TypeOK', NEW i \in Ids PROVE Owed'[i] \in Nat /\ Owed'[i] <= MaxFee
  <2>1. rec'[i].fee \in {NoFee} \cup 1 .. MaxFee
    BY <1>3 DEF TypeOK, Record
  <2> QED BY <1>1, <2>1 DEF Owed
<1> QED BY <1>2, <1>3

\* Fewer rows, none of which got dearer.
LEMMA SpendShrinks ==
  ASSUME TypeOK, TypeOK', NEW A \in SUBSET Ids, NEW B \in SUBSET Ids, IsFiniteSet(B), A \subseteq B,
         \A i \in A : rec'[i].fee = rec[i].fee \/ rec[i].fee = NoFee
  PROVE  spendSQL(A)' <= spendSQL(B) /\ spendSQL(A)' \in Nat /\ spendSQL(B) \in Nat
<1>1. IsFiniteSet(A)
  BY FS_Subset
<1>2. spendSQL(A)' = Total(Owed', A) /\ spendSQL(B) = Total(Owed, B)
  BY <1>1, SpendIsTotal, SpendIsTotalNext
<1>3. PICK f, g : f = Owed' /\ g = Owed
  OBVIOUS
<1>4. /\ \A x \in A : f[x] \in Nat /\ f[x] <= MaxFee
      /\ \A x \in B : g[x] \in Nat /\ g[x] <= MaxFee
  BY <1>3, OwedIsBounded
<1>5. \A x \in A : f[x] <= g[x]
  <2>1. ASSUME NEW x \in A, rec[x].fee = NoFee PROVE f[x] <= g[x]
    BY <1>3, <1>4, <2>1 DEF Owed
  <2>2. ASSUME NEW x \in A, rec'[x].fee = rec[x].fee PROVE f[x] <= g[x]
    <3>1. f[x] = g[x] /\ g[x] \in Nat
      BY <1>3, <1>4, <2>2 DEF Owed
    <3> QED BY <3>1
  <2> QED BY <2>1, <2>2
<1>6. PICK m \in [A -> B] : \A x \in A : m[x] = x
  <2>1. [x \in A |-> x] \in [A -> B]
    OBVIOUS
  <2> QED BY <2>1
<1>7. Total(f, A) <= Total(g, B)
  <2>1. \A x \in A : f[x] \in Nat
    BY <1>4
  <2>2. \A x \in B : g[x] \in Nat
    BY <1>4
  <2>3. \A x, y \in A : m[x] = m[y] => x = y
    BY <1>6
  <2>4. \A x \in A : f[x] <= g[m[x]]
    BY <1>5, <1>6
  <2> QED BY <1>1, <2>1, <2>2, <2>3, <2>4, TotalInto
<1>8. Total(f, A) \in Nat /\ Total(g, B) \in Nat
  BY <1>1, <1>4, TotalIsNat
<1> QED BY <1>2, <1>3, <1>7, <1>8

\* One more row, which counts for its reservation.
LEMMA SpendAdds ==
  ASSUME TypeOK, TypeOK', NEW B \in SUBSET Ids, IsFiniteSet(B), NEW i \in Ids, i \notin B,
         \A j \in B : rec'[j].fee = rec[j].fee
  PROVE  \A C : C = B \cup {i} => spendSQL(C)' <= spendSQL(B) + MaxFee
<1> SUFFICES ASSUME NEW C, C = B \cup {i} PROVE spendSQL(C)' <= spendSQL(B) + MaxFee
  OBVIOUS
<1>1. IsFiniteSet(C) /\ C \in SUBSET Ids /\ C \ {i} = B /\ i \in C /\ C \in SUBSET C
  BY FS_AddElement
<1>2. spendSQL(C)' = Total(Owed', C) /\ spendSQL(B)' = Total(Owed', B)
  BY <1>1, SpendIsTotalNext
<1>3. PICK f : f = Owed'
  OBVIOUS
<1>4. f[i] \in Nat /\ f[i] <= MaxFee /\ \A x \in C : f[x] \in Nat
  BY <1>1, <1>3, OwedIsBounded
<1>5. Total(f, C) = f[i] + Total(f, B)
  BY <1>1, <1>4, TotalRemove
<1>6. spendSQL(B)' <= spendSQL(B) /\ spendSQL(B)' \in Nat /\ spendSQL(B) \in Nat
  BY SpendShrinks
<1>7. spendSQL(C)' = f[i] + spendSQL(B)'
  BY <1>2, <1>3, <1>5
<1> QED BY <1>4, <1>6, <1>7, ConstantsAreRight

\* The rows that count are rows.
LEMMA RowsAreFinite ==
  ASSUME LimitInv
  PROVE  /\ \A w : Rows(w, "sponsored") \in SUBSET Ids /\ IsFiniteSet(Rows(w, "sponsored"))
         /\ Sponsored \in SUBSET Ids /\ IsFiniteSet(Sponsored)
<1> DEFINE present == {i \in Ids : rec[i].status # "absent"}
<1>1. IsFiniteSet(present)
  BY DEF LimitInv
<1>2. /\ \A w : Rows(w, "sponsored") \in SUBSET present
      /\ Sponsored \in SUBSET present
  BY DEF Rows, Sponsored
<1>3. /\ \A w : Rows(w, "sponsored") \in SUBSET Ids
      /\ Sponsored \in SUBSET Ids
  BY <1>2
<1>4. /\ \A w : IsFiniteSet(Rows(w, "sponsored"))
      /\ IsFiniteSet(Sponsored)
  <2> HIDE DEF present
  <2> QED BY <1>1, <1>2, FS_Subset
<1> QED BY <1>3, <1>4

\* A step that adds no row, and replaces a reservation at most, keeps the sums.
LEMMA SpendKeep ==
  ASSUME BaseInv, TypeOK', LimitInv, SpendInv,
         \A i \in Ids : /\ rec'[i].body = rec[i].body
                        /\ \/ rec'[i].status = rec[i].status
                           \/ rec[i].status \in InFlight /\ rec'[i].status # "absent"
                        /\ rec'[i].fee = rec[i].fee \/ rec[i].fee = NoFee
  PROVE  SpendInv'
<1>1. TypeOK /\ MaxStroopsPerWallet \in Nat /\ MaxStroopsPerDay \in Nat
  BY ConstantsAreRight DEF BaseInv
<1>2. ASSUME NEW w \in AllWallets PROVE spendSQL(Rows(w, "sponsored"))' <= MaxStroopsPerWallet
  <2>1. PICK A, B : A = Rows(w, "sponsored")' /\ B = Rows(w, "sponsored")
    OBVIOUS
  <2>2. A \subseteq B
    BY <2>1 DEF Rows, InFlight
  <2>3. B \in SUBSET Ids /\ IsFiniteSet(B)
    BY <2>1, RowsAreFinite
  <2>4. spendSQL(A)' <= spendSQL(B) /\ spendSQL(A)' \in Nat /\ spendSQL(B) \in Nat
    BY <1>1, <2>2, <2>3, SpendShrinks
  <2>5. spendSQL(B) <= MaxStroopsPerWallet
    BY <2>1 DEF SpendInv
  <2> QED BY <1>1, <2>1, <2>4, <2>5
<1>3. spendSQL(Sponsored)' <= MaxStroopsPerDay
  <2>1. PICK A, B : A = Sponsored' /\ B = Sponsored
    OBVIOUS
  <2>2. A \subseteq B
    BY <2>1 DEF Sponsored, Rows, InFlight
  <2>3. B \in SUBSET Ids /\ IsFiniteSet(B)
    BY <2>1, RowsAreFinite
  <2>4. spendSQL(A)' <= spendSQL(B) /\ spendSQL(A)' \in Nat /\ spendSQL(B) \in Nat
    BY <1>1, <2>2, <2>3, SpendShrinks
  <2>5. spendSQL(B) <= MaxStroopsPerDay
    BY <2>1 DEF SpendInv
  <2> QED BY <1>1, <2>1, <2>4, <2>5
<1> QED BY <1>2, <1>3 DEF SpendInv

\* A row is added only where the sums leave room for its reservation.
LEMMA SpendInsert ==
  ASSUME BaseInv, TypeOK', LimitInv, SpendInv, NEW i \in Ids, NEW b \in Bodies, IsNew(i), Fits(b),
         rec' = [rec EXCEPT ![i] = Reserved(b)]
  PROVE  SpendInv'
<1>1. TypeOK /\ MaxStroopsPerWallet \in Nat /\ MaxStroopsPerDay \in Nat /\ MaxFee \in Nat
  BY ConstantsAreRight DEF BaseInv
<1>2. /\ rec'[i].status = "pending" /\ rec'[i].body = b /\ rec[i].status = "absent"
      /\ \A j \in Ids : j # i => rec'[j] = rec[j]
  BY <1>1 DEF Reserved, IsNew, TypeOK
<1>3. ASSUME NEW B \in SUBSET Ids, IsFiniteSet(B), i \notin B
      PROVE  /\ spendSQL(B)' <= spendSQL(B) /\ spendSQL(B)' \in Nat /\ spendSQL(B) \in Nat
             /\ \A C : C = B \cup {i} => spendSQL(C)' <= spendSQL(B) + MaxFee
  <2>1. \A j \in B : rec'[j].fee = rec[j].fee
    BY <1>2, <1>3
  <2>2. \A C : C = B \cup {i} => spendSQL(C)' <= spendSQL(B) + MaxFee
    BY <1>1, <1>3, <2>1, SpendAdds
  <2>3. spendSQL(B)' <= spendSQL(B) /\ spendSQL(B)' \in Nat /\ spendSQL(B) \in Nat
    BY <1>1, <1>3, <2>1, SpendShrinks
  <2> QED BY <2>2, <2>3
<1>4. ASSUME NEW C \in SUBSET Ids, IsFiniteSet(C) PROVE spendSQL(C)' \in Nat
  <2>1. spendSQL(C)' = Total(Owed', C)
    BY <1>4, SpendIsTotalNext
  <2>2. PICK f : f = Owed'
    OBVIOUS
  <2>3. \A x \in C : f[x] \in Nat
    BY <2>2, OwedIsBounded
  <2> QED BY <1>4, <2>1, <2>2, <2>3, TotalIsNat
<1>5. ASSUME NEW A, NEW B \in SUBSET Ids, IsFiniteSet(B), i \notin B, NEW limit \in Nat,
             \/ A = B /\ spendSQL(B) <= limit
             \/ A = B \cup {i} /\ spendSQL(B) + MaxFee <= limit
      PROVE  spendSQL(A)' <= limit
  <2>1. A \in SUBSET Ids /\ IsFiniteSet(A)
    BY <1>5, FS_AddElement
  <2>2. spendSQL(A)' \in Nat /\ spendSQL(B) \in Nat
    BY <1>3, <1>4, <1>5, <2>1
  <2>3. CASE A = B /\ spendSQL(B) <= limit
    <3>1. spendSQL(A)' <= spendSQL(B)
      BY <1>3, <1>5, <2>3
    <3> QED BY <2>2, <2>3, <3>1
  <2>4. CASE A = B \cup {i} /\ spendSQL(B) + MaxFee <= limit
    <3>1. spendSQL(A)' <= spendSQL(B) + MaxFee
      BY <1>3, <1>5, <2>4
    <3> QED BY <1>1, <2>2, <2>4, <3>1
  <2> QED BY <1>5, <2>3, <2>4
<1>6. ASSUME NEW w \in AllWallets PROVE spendSQL(Rows(w, "sponsored"))' <= MaxStroopsPerWallet
  <2>1. PICK A, B : A = Rows(w, "sponsored")' /\ B = Rows(w, "sponsored")
    OBVIOUS
  <2>2. B \in SUBSET Ids /\ IsFiniteSet(B) /\ i \notin B
    BY <1>2, <2>1, RowsAreFinite DEF Rows
  <2>3. \/ A = B
        \/ A = B \cup {i} /\ ModeOf[b] = "sponsored" /\ w = WalletOf[b]
    BY <1>2, <2>1 DEF Rows
  <2>4. ModeOf[b] = "sponsored" /\ w = WalletOf[b] => spendSQL(B) + MaxFee <= MaxStroopsPerWallet
    BY <2>1 DEF Fits, checkCaps
  <2>5. spendSQL(B) <= MaxStroopsPerWallet
    BY <2>1 DEF SpendInv
  <2>6. spendSQL(A)' <= MaxStroopsPerWallet
    BY <1>1, <1>5, <2>2, <2>3, <2>4, <2>5
  <2> QED BY <2>1, <2>6
<1>7. spendSQL(Sponsored)' <= MaxStroopsPerDay
  <2>1. PICK A, B : A = Sponsored' /\ B = Sponsored
    OBVIOUS
  <2>2. B \in SUBSET Ids /\ IsFiniteSet(B) /\ i \notin B
    BY <1>2, <2>1, RowsAreFinite DEF Sponsored, Rows
  <2>3. A = B \/ (A = B \cup {i} /\ ModeOf[b] = "sponsored")
    <3>1. WalletOf[b] \in AllWallets
      BY DEF AllWallets
    <3>2. CASE ModeOf[b] = "sponsored"
      <4>1. \A v : Rows(v, "sponsored")' = IF v = WalletOf[b] THEN Rows(v, "sponsored") \cup {i}
                                                              ELSE Rows(v, "sponsored")
        BY <1>2, <3>2 DEF Rows
      <4> QED BY <2>1, <3>1, <3>2, <4>1 DEF Sponsored
    <3>3. CASE ModeOf[b] # "sponsored"
      <4>1. \A v : Rows(v, "sponsored")' = Rows(v, "sponsored")
        BY <1>2, <3>3 DEF Rows
      <4> QED BY <2>1, <4>1 DEF Sponsored
    <3> QED BY <3>2, <3>3
  <2>4. ModeOf[b] = "sponsored" => spendSQL(B) + MaxFee <= MaxStroopsPerDay
    BY <2>1 DEF Fits, checkCaps, Sponsored
  <2>5. spendSQL(B) <= MaxStroopsPerDay
    BY <2>1 DEF SpendInv
  <2>6. spendSQL(A)' <= MaxStroopsPerDay
    BY <1>1, <1>5, <2>2, <2>3, <2>4, <2>5
  <2> QED BY <2>1, <2>6
<1> QED BY <1>6, <1>7 DEF SpendInv

\* A fee is written only where there was none.
LEMMA FeesAreWrittenOnce ==
  ASSUME TypeOK, PromptInv, NEW i \in Ids, rec[i].status # "absent"
  PROVE  /\ \A x \in Txs : \A j \in Ids : SetHash(i, x)[j].fee = rec[j].fee
         /\ \A o \in Outcome : \A j \in Ids : Finish(i, o)[j].fee = rec[j].fee \/ rec[j].fee = NoFee
<1>1. rec \in [Ids -> Record] /\ rec[i] \in Record /\ RecordIsTrue(i)
  BY DEF TypeOK, PromptInv
<1>2. ASSUME NEW x \in Txs, NEW j \in Ids PROVE SetHash(i, x)[j].fee = rec[j].fee
  <2>1. [rec EXCEPT ![i].hash = x, ![i].age = 0][j].fee = rec[j].fee
    BY <1>1 DEF Record
  <2> QED BY <2>1 DEF SetHash
<1>3. ASSUME NEW o \in Outcome, NEW j \in Ids
      PROVE  Finish(i, o)[j].fee = rec[j].fee \/ rec[j].fee = NoFee
  <2>1. CASE rec[i].status \in Final
    BY <2>1 DEF Finish
  <2>2. CASE rec[i].status \notin Final
    <3>1. rec[i].fee = NoFee
      BY <1>1, <2>2 DEF RecordIsTrue, Final
    <3>2. PICK y : y = [rec[i] EXCEPT !.status = o.status,
                                      !.hash = IF o.hash = NoHash THEN @ ELSE o.hash,
                                      !.fee = IF o.fee = NoFee THEN @ ELSE o.fee, !.age = 0]
      OBVIOUS
    <3>3. Finish(i, o) = [rec EXCEPT ![i] = y]
      <4>1. Finish(i, o) = [rec EXCEPT ![i].status = o.status,
                             ![i].hash = IF o.hash = NoHash THEN @ ELSE o.hash,
                             ![i].fee = IF o.fee = NoFee THEN @ ELSE o.fee, ![i].age = 0]
        BY <2>2 DEF Finish
      <4> QED BY <1>1, <3>2, <4>1 DEF Record
    <3> QED BY <1>1, <3>1, <3>3
  <2> QED BY <2>1, <2>2
<1> QED BY <1>2, <1>3

LEMMA SpendStep == IInv /\ [Next]_vars => SpendInv'
<1> SUFFICES ASSUME IInv, [Next]_vars PROVE SpendInv'
  OBVIOUS
<1>1. TypeOK /\ TypeOK' /\ BaseInv /\ PromptInv /\ LimitInv /\ SpendInv
  BY BaseStep DEF IInv, BaseInv
<1>2. CASE UNCHANGED rec
  BY <1>1, <1>2, SpendKeep
<1>3. ASSUME NEW i \in Ids, rec[i].status # "absent",
             \/ \E x \in Txs : rec' = SetHash(i, x)
             \/ \E o \in Outcome : rec' = Finish(i, o)
      PROVE  SpendInv'
  <2>1. \A j \in Ids : /\ rec'[j].body = rec[j].body
                       /\ \/ rec'[j].status = rec[j].status
                          \/ rec[j].status \in InFlight /\ rec'[j].status # "absent"
    BY <1>1, <1>3, WritesAreCounted
  <2>2. \A j \in Ids : rec'[j].fee = rec[j].fee \/ rec[j].fee = NoFee
    BY <1>1, <1>3, FeesAreWrittenOnce
  <2> QED BY <1>1, <2>1, <2>2, SpendKeep
<1>4. ASSUME NEW c \in Calls, Submit(c) \/ Crash(c) PROVE SpendInv'
  <2>1. CASE Reserve(c)
    <3>1. run[c].id \in Ids /\ run[c].body \in Bodies
      BY <1>1, <2>1 DEF Reserve, BaseInv, RunFits
    <3> QED BY <1>1, <1>2, <2>1, <3>1, SpendInsert DEF Reserve
  <2>2. CASE seal(c)
    <3>1. run[c].id \in Ids /\ rec[run[c].id].status # "absent"
      BY <1>1, <2>2 DEF seal, BaseInv, RunFits, OwnSteps
    <3> QED BY <1>2, <1>3, <2>2, <3>1 DEF seal
  <2>3. CASE finish(c)
    <3>1. run[c].id \in Ids /\ rec[run[c].id].status # "absent" /\ run[c].out \in Outcome
      BY <1>1, <2>3 DEF finish, BaseInv, RunFits, OwnSteps, TypeOK, Run
    <3> QED BY <1>2, <1>3, <2>3, <3>1 DEF finish
  <2> QED BY <1>2, <1>4, <2>1, <2>2, <2>3 DEF Submit, Prepare, AcquireWait, send, poll, Crash
<1>5. ASSUME NEW r \in Resolvers, (\E i \in Ids : ListStale(r, i)) \/ resolve(r) \/ FinishStale(r)
      PROVE  SpendInv'
  <2>1. CASE FinishStale(r)
    <3>1. stale[r].id \in Ids /\ rec[stale[r].id].status # "absent" /\ stale[r].out \in Outcome
      BY <1>1, <2>1 DEF FinishStale, BaseInv, StaleIsReserved, TypeOK, Stale
    <3> QED BY <1>2, <1>3, <2>1, <3>1 DEF FinishStale
  <2> QED BY <1>2, <1>5, <2>1 DEF ListStale, resolve
<1>6. CASE Tick
  BY <1>1, <1>6, TickDoes, SpendKeep
<1> QED BY <1>2, <1>4, <1>5, <1>6 DEF Next, Lands, Drop, vars

LEMMA SpendInit == Init => SpendInv
<1> SUFFICES ASSUME Init PROVE SpendInv
  OBVIOUS
<1>1. \A i \in Ids : rec[i].status = "absent"
  BY DEF Init
<1>2. (\A w \in AllWallets : Rows(w, "sponsored") = {}) /\ Sponsored = {}
  BY <1>1 DEF Rows, Sponsored
<1>3. spendSQL({}) = 0
  <2>1. IsFiniteSet({}) /\ {} \in SUBSET Ids
    BY FS_EmptySet
  <2> QED BY <2>1, SpendIsTotal, TotalStep
<1>4. 0 <= MaxStroopsPerWallet /\ 0 <= MaxStroopsPerDay
  BY ConstantsAreRight
<1> QED BY <1>2, <1>3, <1>4 DEF SpendInv

LEMMA InvHolds ==
  ASSUME PromptSubmitter
  PROVE  Spec => []IInv
<1>1. Init => IInv
  BY BaseInit, PromptInit, LimitInit, SpendInit DEF IInv
<1>2. IInv /\ [Next]_vars => IInv'
  BY BaseStep, PromptStep, LimitStep, SpendStep DEF IInv
<1> QED BY <1>1, <1>2, PTL DEF Spec

-----------------------------------------------------------------------------
(* Theorems.                                                               *)

\* Every variable keeps its type, whatever crashes and however slow a submission is.
THEOREM Typing == Spec => []TypeOK
<1>1. BaseInv => TypeOK
  BY DEF BaseInv
<1> QED BY <1>1, BaseHolds, PTL

\* The funder pays for a request id at most once, for any number of submissions,
\* retries, crashes and resolvers and at any speed (Submit's "never pays twice").
THEOREM PaidOnce == Spec => []PaidAtMostOnce
<1>1. ASSUME BaseInv, NEW i \in Ids PROVE Cardinality(LandedFor(i)) <= 1
  <2>1. \A x, y \in LandedFor(i) : x = y
    BY <1>1 DEF LandedFor, BaseInv, LiveIsOne, Live
  <2>2. LandedFor(i) = {} \/ \E x : LandedFor(i) = {x}
    BY <2>1
  <2>3. Cardinality(LandedFor(i)) = 0 \/ Cardinality(LandedFor(i)) = 1
    BY <2>2, FS_EmptySet, FS_Singleton
  <2> QED BY <2>3
<1>2. BaseInv => PaidAtMostOnce
  BY <1>1 DEF PaidAtMostOnce
<1> QED BY <1>2, BaseHolds, PTL

\* What the network has, or had and applied, is on its request's record, when a
\* submission sends before its record gets stale (SetHash before SendTransaction).
THEOREM SentIsRecorded ==
  ASSUME PromptSubmitter
  PROVE  Spec => []SentIsOnRecord
<1>1. IInv => SentIsOnRecord
  BY DEF IInv, PromptInv
<1> QED BY <1>1, InvHolds, PTL

\* A rejected request has cost nothing and never will, and a success or failure is the
\* one of the transaction on record, when a landed transaction is found within the
\* margin the resolver leaves (ledgerTime).
THEOREM OutcomesAreTrue ==
  ASSUME PromptSubmitter, RpcLag <= LedgerTime
  PROVE  Spec => []OutcomeIsTrue
<1>1. IInv => OutcomeIsTrue
  BY DEF IInv, PromptInv, RecordIsTrue, NoneLive, Live, OutcomeIsTrue
<1> QED BY <1>1, InvHolds, PTL

\* What has been charged belongs to a row that counts, one for each transaction.
LEMMA ChargedIsCounted ==
  ASSUME IInv, RpcLag <= LedgerTime, NEW w, NEW mode, NEW x \in Charged(w, mode), NEW i, i = tx[x].id
  PROVE  i \in Rows(w, mode) /\ rec[i].hash = x
<1>1. x \in Txs /\ Landed(x) /\ Live(x) /\ WalletOf[rec[i].body] = w /\ ModeOf[rec[i].body] = mode
  BY DEF Charged, Live
<1>2. i \in Ids /\ rec[i].status # "absent"
  BY <1>1 DEF IInv, BaseInv, LiveIsOne, AbsentIsUnused
<1>3. rec[i].hash = x
  BY <1>1 DEF IInv, PromptInv, SentIsOnRecord
<1>4. rec[i].status # "rejected"
  BY <1>1, <1>2 DEF IInv, PromptInv, RecordIsTrue, NoneLive
<1> QED BY <1>1, <1>2, <1>3, <1>4 DEF Rows

\* Transactions cost no more than the rows they belong to count for.
LEMMA CostIsCovered ==
  ASSUME IInv, NEW A \in SUBSET Txs, NEW B \in SUBSET Ids, IsFiniteSet(B),
         \A x \in A : Landed(x) /\ tx[x].id \in B /\ rec[tx[x].id].hash = x
  PROVE  /\ Cost(A) <= spendSQL(B) /\ Cost(A) \in Nat /\ spendSQL(B) \in Nat
         /\ IsFiniteSet(A) /\ Cardinality(A) <= Cardinality(B)
<1>1. PICK m : m = [x \in A |-> tx[x].id]
  OBVIOUS
<1>2. m \in [A -> B] /\ \A x, y \in A : m[x] = m[y] => x = y
  BY <1>1
<1>3. m \in Injection(A, B)
  BY <1>2 DEF Injection, IsInjective
<1>4. IsFiniteSet(A) /\ Cardinality(A) <= Cardinality(B)
  BY <1>3, FS_Injection
<1>5. Cost(A) = Total(FeeOf, A) /\ spendSQL(B) = Total(Owed, B)
  BY <1>4, CostIsTotal, SpendIsTotal
<1>6. PICK f, g : f = FeeOf /\ g = Owed
  OBVIOUS
<1>7. \A y \in B : g[y] \in Nat /\ g[y] <= MaxFee
  BY <1>6, OwedIsBounded DEF IInv, BaseInv
<1>8. ASSUME NEW x \in A PROVE f[x] \in Nat /\ f[x] <= g[m[x]]
  <2>1. f[x] = tx[x].fee /\ tx[x].fee \in 1 .. MaxFee
    BY <1>6 DEF FeeOf, IInv, BaseInv, LiveIsOne
  <2>2. PICK i \in Ids : i = tx[x].id /\ i = m[x] /\ rec[i].hash = x
    BY <1>1
  <2>3. rec[i].fee \in {NoFee, tx[x].fee}
    BY <2>2 DEF IInv, PromptInv, RecordIsTrue
  <2>4. g[i] = (IF rec[i].fee = NoFee THEN MaxFee ELSE rec[i].fee)
    BY <1>6 DEF Owed
  <2>5. MaxFee \in Nat
    BY ConstantsAreRight
  <2> QED BY <2>1, <2>2, <2>3, <2>4, <2>5
<1>9. Total(f, A) <= Total(g, B)
  <2>1. \A x \in A : f[x] \in Nat
    BY <1>8
  <2>2. \A y \in B : g[y] \in Nat
    BY <1>7
  <2>3. \A x \in A : f[x] <= g[m[x]]
    BY <1>8
  <2> QED BY <1>2, <1>4, <2>1, <2>2, <2>3, TotalInto
<1>10. Total(f, A) \in Nat /\ Total(g, B) \in Nat
  BY <1>4, <1>7, <1>8, TotalIsNat
<1> QED BY <1>4, <1>5, <1>6, <1>9, <1>10

\* What the network charges for a wallet's sponsored transactions stays within the
\* wallet's caps, in number and in stroops, and for all wallets within the day's budget,
\* with any number of concurrent submissions, crashes, lost outcomes and resolvers
\* (checkCaps under Reserve's lock, and reservations replaced by the fee only in Finish).
THEOREM CapsHold ==
  ASSUME PromptSubmitter, RpcLag <= LedgerTime
  PROVE  Spec => []SpendIsWithinCaps
<1>1. ASSUME IInv, NEW w \in AllWallets
      PROVE  /\ Cardinality(Charged(w, "sponsored")) <= MaxTxPerWallet
             /\ Cost(Charged(w, "sponsored")) <= MaxStroopsPerWallet
  <2>1. PICK A, B : A = Charged(w, "sponsored") /\ B = Rows(w, "sponsored")
    OBVIOUS
  <2>2. A \in SUBSET Txs /\ \A x \in A : Landed(x) /\ tx[x].id \in B /\ rec[tx[x].id].hash = x
    <3>1. \A x \in A : tx[x].id \in B /\ rec[tx[x].id].hash = x
      BY <1>1, <2>1, ChargedIsCounted
    <3> QED BY <2>1, <3>1 DEF Charged
  <2>3. B \in SUBSET Ids /\ IsFiniteSet(B)
    BY <1>1, <2>1, RowsAreFinite DEF IInv
  <2>4. /\ Cost(A) <= spendSQL(B) /\ Cost(A) \in Nat /\ spendSQL(B) \in Nat
        /\ IsFiniteSet(A) /\ Cardinality(A) <= Cardinality(B)
    BY <1>1, <2>2, <2>3, CostIsCovered
  <2>5. Cardinality(A) \in Nat /\ Cardinality(B) \in Nat
    BY <2>3, <2>4, FS_CardinalityType
  <2>6. Cardinality(B) <= MaxTxPerWallet /\ spendSQL(B) <= MaxStroopsPerWallet
    BY <1>1, <2>1 DEF IInv, LimitInv, SpendInv
  <2>7. MaxTxPerWallet \in Nat /\ MaxStroopsPerWallet \in Nat
    BY ConstantsAreRight
  <2>8. Cardinality(A) <= MaxTxPerWallet /\ Cost(A) <= MaxStroopsPerWallet
    BY <2>4, <2>5, <2>6, <2>7
  <2> QED BY <2>1, <2>8
<1>2. ASSUME IInv PROVE Cost(UNION {Charged(w, "sponsored") : w \in AllWallets}) <= MaxStroopsPerDay
  <2>1. PICK A : A = UNION {Charged(w, "sponsored") : w \in AllWallets}
    OBVIOUS
  <2>2. PICK B : B = Sponsored
    OBVIOUS
  <2>3. ASSUME NEW x \in A
        PROVE  x \in Txs /\ Landed(x) /\ tx[x].id \in B /\ rec[tx[x].id].hash = x
    <3>1. PICK w \in AllWallets : x \in Charged(w, "sponsored")
      BY <2>1
    <3>2. tx[x].id \in Rows(w, "sponsored") /\ rec[tx[x].id].hash = x
      BY <1>2, <3>1, ChargedIsCounted
    <3> QED BY <2>2, <3>1, <3>2 DEF Charged, Sponsored
  <2>4. B \in SUBSET Ids /\ IsFiniteSet(B)
    BY <1>2, <2>2, RowsAreFinite DEF IInv
  <2>5. Cost(A) <= spendSQL(B) /\ Cost(A) \in Nat /\ spendSQL(B) \in Nat
    BY <1>2, <2>3, <2>4, CostIsCovered
  <2>6. spendSQL(B) <= MaxStroopsPerDay /\ MaxStroopsPerDay \in Nat
    BY <1>2, <2>2, ConstantsAreRight DEF IInv, SpendInv
  <2>7. Cost(A) <= MaxStroopsPerDay
    BY <2>5, <2>6
  <2> QED BY <2>1, <2>7
<1>3. IInv => SpendIsWithinCaps
  BY <1>1, <1>2 DEF SpendIsWithinCaps
<1> QED BY <1>3, InvHolds, PTL

\* A wallet's forwards that fail on-chain within a window never exceed the failures
\* allowed when the last was let in plus those in flight with it (checkForwardExposure).
THEOREM ForwardLossBound ==
  ASSUME PromptSubmitter, RpcLag <= LedgerTime
  PROVE  Spec => []ForwardLossIsBounded
<1>1. ASSUME IInv, NEW w \in AllWallets
      PROVE  Cardinality(FailedForwards(w)) < MaxForwardFailuresPerWallet + MaxForwardInFlightPerWallet
  <2> DEFINE f == [x \in FailedForwards(w) |-> tx[x].id]
  <2>1. ASSUME NEW x \in FailedForwards(w) PROVE f[x] \in Exposed(w) /\ rec[f[x]].hash = x
    <3>1. PICK i : i = tx[x].id
      OBVIOUS
    <3>2. x \in Charged(w, "forward") /\ tx[x].state = "failed"
      BY DEF FailedForwards
    <3>3. i \in Rows(w, "forward") /\ rec[i].hash = x
      BY <1>1, <3>1, <3>2, ChargedIsCounted
    <3>4. i \in Ids /\ rec[i] \in Record /\ rec[i].status \notin {"absent", "rejected"}
      BY <1>1, <3>3 DEF Rows, IInv, BaseInv, TypeOK
    <3>5. rec[i].status # "success"
      BY <1>1, <3>2, <3>3, <3>4 DEF IInv, PromptInv, RecordIsTrue
    <3>6. i \in Exposed(w)
      BY <3>3, <3>4, <3>5 DEF Exposed, Record, Final
    <3> QED BY <3>1, <3>3, <3>6
  <2>2. f \in Injection(FailedForwards(w), Exposed(w))
    BY <2>1 DEF Injection, IsInjective
  <2>3. /\ Exposed(w) \in SUBSET {i \in Ids : rec[i].status # "absent"}
        /\ IsFiniteSet({i \in Ids : rec[i].status # "absent"})
        /\ Cardinality(Exposed(w)) < MaxForwardFailuresPerWallet + MaxForwardInFlightPerWallet
    BY <1>1 DEF Rows, Exposed, IInv, LimitInv
  <2>4. IsFiniteSet(Exposed(w))
    BY <2>3, FS_Subset
  <2>5. /\ Cardinality(FailedForwards(w)) <= Cardinality(Exposed(w))
        /\ IsFiniteSet(FailedForwards(w))
    BY <2>2, <2>4, FS_Injection
  <2>6. Cardinality(FailedForwards(w)) \in Nat /\ Cardinality(Exposed(w)) \in Nat
    BY <2>4, <2>5, FS_CardinalityType
  <2> QED BY <2>3, <2>5, <2>6, ConstantsAreRight
<1>2. IInv => ForwardLossIsBounded
  BY <1>1 DEF ForwardLossIsBounded
<1> QED BY <1>2, InvHolds, PTL
=============================================================================
