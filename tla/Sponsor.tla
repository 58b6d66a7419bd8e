------------------------------- MODULE Sponsor -------------------------------
(***************************************************************************)
(* Sponsored transactions: the submitter, the records and the resolver of  *)
(* internal/gasless/sponsor, with the handler that starts a submission,    *)
(* for any number of gasless processes on one database.                    *)
(*                                                                         *)
(* Times are ages, so that the clock needs no bound: the age of a record   *)
(* since its updated_at, what is left of a transaction's time bounds, and  *)
(* how long ago it landed.  Channels and sequence numbers are the module   *)
(* ChannelPool; here a lease may be had or not and the network may take or *)
(* refuse a transaction for any reason the code tells apart.               *)
(***************************************************************************)
EXTENDS Integers, FiniteSets, FiniteSetsExt

CONSTANTS
  Calls,         \* submissions: requests to POST /gasless/submit
  Ids,           \* request ids
  Bodies,        \* request bodies, by payload hash
  WalletOf,      \* the wallet of a body
  ModeOf,        \* its mode: "sponsored" or "forward"
  Txs,           \* transactions, by hash
  Resolvers,     \* one in every gasless process
  StaleAfter,    \* staleAfter
  TxValidity,    \* txValidity
  LedgerTime,    \* ledgerTime
  RpcLag,        \* longest time until a landed transaction is found
  MaxFee,        \* what maxBid reserves
  MaxTxPerWallet, MaxStroopsPerWallet, MaxStroopsPerDay,
  MaxForwardFailuresPerWallet, MaxForwardInFlightPerWallet,
  MaxLeaseRetries, MaxFeeRetries,
  PromptSubmitter,  \* a submission never lets its record get stale before it has sent
  MaxFaults         \* bound: failed calls and crashes

ASSUME ConstantsAreRight ==
  /\ ModeOf \in [Bodies -> {"sponsored", "forward"}] /\ DOMAIN WalletOf = Bodies
  /\ TxValidity \in Nat \ {0} /\ LedgerTime \in Nat /\ RpcLag \in Nat
  /\ StaleAfter \in 1 .. TxValidity + LedgerTime
  /\ MaxFee \in Nat \ {0}
  /\ MaxTxPerWallet \in Nat \ {0} /\ MaxStroopsPerWallet \in Nat /\ MaxStroopsPerDay \in Nat
  /\ MaxForwardFailuresPerWallet \in Nat \ {0} /\ MaxForwardInFlightPerWallet \in Nat \ {0}
  /\ MaxLeaseRetries \in Nat \ {0} /\ MaxFeeRetries \in Nat /\ MaxFaults \in Nat
  /\ PromptSubmitter \in BOOLEAN

NoHash == "none"
NoId == "no id"
NoBody == "no body"

\* NULL.
NoFee == -1

ASSUME NamesAreFresh == NoHash \notin Txs /\ NoId \notin Ids /\ NoBody \notin Bodies

Final == {"success", "failed", "rejected"}
InFlight == {"pending", "unconfirmed"}

\* Time bounds that have passed.
Over == -1

\* Older than any age a decision depends on.
Old == TxValidity + LedgerTime + 1

Record == [status : Final \cup InFlight \cup {"absent"}, body : Bodies \cup {NoBody},
           hash : Txs \cup {NoHash}, fee : {NoFee} \cup 1 .. MaxFee, age : 0 .. Old]

\* sealed: signed and on its way; queued: the network has it; gone: it can never land.
Tx == [state : {"unused", "sealed", "queued", "success", "failed", "gone"},
       id : Ids \cup {NoId}, left : Over .. TxValidity, since : 0 .. RpcLag + 1, fee : 0 .. MaxFee]

Outcome == [status : Final \cup {"unconfirmed"}, hash : Txs \cup {NoHash},
            fee : {NoFee} \cup 1 .. MaxFee]

Run == [pc : {"start", "reserve", "lease", "seal", "send", "poll", "finish", "done"},
        id : Ids \cup {NoId}, body : Bodies \cup {NoBody}, hash : Txs \cup {NoHash}, leases : 0 .. MaxLeaseRetries, fees : 0 .. MaxFeeRetries,
        left : Over .. TxValidity, out : Outcome]

\* A record of the resolver's batch, as it was when it was listed.
Stale == [pc : {"idle", "look", "finish"}, id : Ids \cup {NoId}, hash : Txs \cup {NoHash}, age : 0 .. Old,
          out : Outcome]

VARIABLES
  rec,       \* the sponsored_transactions table
  tx,        \* the transactions
  run,       \* the submission each call runs
  stale,     \* the record each resolver works on
  faults     \* failed calls and crashes so far

vars == <<rec, tx, run, stale, faults>>

NewTx(i) == [state |-> "unused", id |-> i, left |-> Over, since |-> 0, fee |-> 0]

Rejected(x) == [status |-> "rejected", hash |-> x, fee |-> NoFee]
Unconfirmed(x) == [status |-> "unconfirmed", hash |-> x, fee |-> NoFee]

Idle == [pc |-> "idle", id |-> NoId, hash |-> NoHash, age |-> 0, out |-> Rejected(NoHash)]

NoRun(step) == [pc |-> step, id |-> NoId, body |-> NoBody, hash |-> NoHash, leases |-> 0,
                fees |-> 0, left |-> Over, out |-> Rejected(NoHash)]

Init ==
  /\ rec = [i \in Ids |-> [status |-> "absent", body |-> NoBody, hash |-> NoHash,
                           fee |-> NoFee, age |-> 0]]
  /\ tx = [x \in Txs |-> NewTx(NoId)]
  /\ run = [c \in Calls |-> NoRun("start")]
  /\ stale = [r \in Resolvers |-> Idle]
  /\ faults = 0

Fault == faults < MaxFaults /\ faults' = faults + 1

Done(c) == run' = [run EXCEPT ![c] = NoRun("done")]
Finishing(c, o) ==
  run' = [run EXCEPT ![c] = [NoRun("finish") EXCEPT !.id = run[c].id, !.out = o]]

-----------------------------------------------------------------------------
(* The table.                                                              *)

AllWallets == {WalletOf[b] : b \in Bodies}

\* Mutant: a submission counts once it has landed.
RowsLanded(w, mode) ==
  {i \in Ids : /\ rec[i].status \in {"success", "failed"}
               /\ WalletOf[rec[i].body] = w
               /\ ModeOf[rec[i].body] = mode}

\* The rows that count against a limit.
Rows(w, mode) ==
  {i \in Ids : /\ rec[i].status \notin {"absent", "rejected"}
               /\ WalletOf[rec[i].body] = w
               /\ ModeOf[rec[i].body] = mode}

\* What rows count against a cap: the charged fee once known, else the reservation.
spendSQL(rows) ==
  MapThenSumSet(LAMBDA i : IF rec[i].fee = NoFee THEN MaxFee ELSE rec[i].fee, rows)

checkCaps(w) ==
  LET mine == Rows(w, "sponsored")
      all  == UNION {Rows(v, "sponsored") : v \in AllWallets}
  IN  /\ Cardinality(mine) < MaxTxPerWallet
      /\ spendSQL(mine) + MaxFee <= MaxStroopsPerWallet
      /\ spendSQL(all) + MaxFee <= MaxStroopsPerDay

\* Mutant: only the failures are looked at.
FailuresOnly(w) ==
  Cardinality({i \in Rows(w, "forward") : rec[i].status = "failed"}) < MaxForwardFailuresPerWallet

checkForwardExposure(w) ==
  LET mine == Rows(w, "forward")
  IN  /\ Cardinality({i \in mine : rec[i].status = "failed"}) < MaxForwardFailuresPerWallet
      /\ Cardinality({i \in mine : rec[i].status \in InFlight}) < MaxForwardInFlightPerWallet

Fits(b) ==
  IF ModeOf[b] = "sponsored" THEN checkCaps(WalletOf[b]) ELSE checkForwardExposure(WalletOf[b])

Reserved(b) == [status |-> "pending", body |-> b, hash |-> NoHash, fee |-> NoFee, age |-> 0]

\* Mutant: the first hash stays.
FirstHash(i, x) ==
  IF rec[i].status = "pending" /\ rec[i].hash = NoHash
  THEN [rec EXCEPT ![i].hash = x, ![i].age = 0] ELSE rec

\* The hash of a transaction about to be sent.  A record that is no longer
\* pending is left alone, and that is not an error.
SetHash(i, x) ==
  IF rec[i].status = "pending" THEN [rec EXCEPT ![i].hash = x, ![i].age = 0] ELSE rec

\* Records an outcome; a final record is never changed again.
Finish(i, o) ==
  IF rec[i].status \in Final THEN rec
  ELSE [rec EXCEPT ![i].status = o.status, ![i].hash = IF o.hash = NoHash THEN @ ELSE o.hash,
                   ![i].fee = IF o.fee = NoFee THEN @ ELSE o.fee, ![i].age = 0]

-----------------------------------------------------------------------------
(* The network, through the RPC server.                                    *)

InTime(x) == tx[x].left # Over
CanLand(x) == tx[x].state = "queued" /\ InTime(x)
Landed(x) == tx[x].state \in {"success", "failed"}

\* The hash depends on the channel's sequence number, the fee and the time
\* bounds, so it is never one that is still in use.
Fresh(x) ==
  /\ ~Landed(x) /\ ~InTime(x)
  /\ \A i \in Ids : rec[i].hash # x
  /\ \A c \in Calls : run[c].hash # x /\ run[c].out.hash # x
  /\ \A r \in Resolvers : stale[r].hash # x

Lands(x) ==
  /\ CanLand(x)
  /\ \E state \in {"success", "failed"}, fee \in 1 .. MaxFee :
       tx' = [tx EXCEPT ![x] = [@ EXCEPT !.state = state, !.fee = fee, !.left = Over]]
  /\ UNCHANGED <<rec, run, stale, faults>>

\* The network drops a queued transaction.
Drop(x) ==
  /\ CanLand(x)
  /\ Fault
  /\ tx' = [tx EXCEPT ![x].state = "gone", ![x].left = Over]
  /\ UNCHANGED <<rec, run, stale>>

\* What landed makes of a found transaction; the fee may be unreadable.
landed(x) ==
  {[status |-> tx[x].state, hash |-> x, fee |-> f] : f \in {tx[x].fee, NoFee}}

\* GetTransaction answers with what landed; NOT_FOUND while it has not, or
\* while the server has not ingested that ledger.
Found(x) == Landed(x)
NotFound(x) == ~Landed(x) \/ tx[x].since <= RpcLag

-----------------------------------------------------------------------------
(* A submission: Submit, Prepare and Run.                                  *)

\* A known request id is answered from its record.  A new one may be refused:
\* invalid, sponsorship unavailable, failed simulation, unreadable table.
Prepare(c) ==
  /\ run[c].pc = "start"
  /\ \/ \E i \in Ids, b \in Bodies :
          /\ rec[i].status = "absent"
          /\ run' = [run EXCEPT ![c].pc = "reserve", ![c].id = i, ![c].body = b]
     \/ Done(c)
  /\ UNCHANGED <<rec, tx, stale, faults>>

IsNew(i) == rec[i].status = "absent"

\* Under one advisory lock: look the request id up again, check the caps, insert.
Reserve(c) ==
  /\ run[c].pc = "reserve"
  /\ \/ /\ IsNew(run[c].id) /\ Fits(run[c].body)
        /\ rec' = [rec EXCEPT ![run[c].id] = Reserved(run[c].body)]
        /\ \/ run' = [run EXCEPT ![c].pc = "lease"] /\ UNCHANGED faults
           \/ Done(c) /\ Fault                        \* committed, the reply was lost
     \/ /\ ~(IsNew(run[c].id) /\ Fits(run[c].body))
        /\ Done(c) /\ UNCHANGED <<rec, faults>>
     \/ Done(c) /\ Fault /\ UNCHANGED rec
  /\ UNCHANGED <<tx, stale>>

\* A channel, its sequence number, and the time bounds; or nothing is sent.
AcquireWait(c) ==
  /\ run[c].pc = "lease"
  /\ \/ run' = [run EXCEPT ![c].pc = "seal", ![c].leases = @ + 1, ![c].fees = 0,
                           ![c].left = TxValidity]
     \/ Finishing(c, Rejected(NoHash))
  /\ UNCHANGED <<rec, tx, stale, faults>>

\* Build and sign, and put the hash on record; an error ends the submission.
seal(c) ==
  /\ run[c].pc = "seal"
  /\ \/ \E x \in Txs :
          /\ Fresh(x)
          /\ rec' = SetHash(run[c].id, x)
          /\ \/ /\ tx' = [tx EXCEPT ![x] = [NewTx(run[c].id) EXCEPT !.state = "sealed",
                                                                  !.left = run[c].left]]
                /\ run' = [run EXCEPT ![c].pc = "send", ![c].hash = x, ![c].left = Over]
                /\ UNCHANGED faults
             \/ /\ tx' = [tx EXCEPT ![x] = [NewTx(run[c].id) EXCEPT !.state = "gone"]]
                /\ Finishing(c, Rejected(NoHash)) /\ Fault
     \/ Finishing(c, Rejected(NoHash)) /\ Fault /\ UNCHANGED <<rec, tx>>
  /\ UNCHANGED stale

Refused(c) == tx' = [tx EXCEPT ![run[c].hash].state = "gone", ![run[c].hash].left = Over]

\* PENDING or DUPLICATE.
SendQueued(c) ==
  /\ InTime(run[c].hash)
  /\ tx' = [tx EXCEPT ![run[c].hash].state = "queued"]
  /\ run' = [run EXCEPT ![c].pc = "poll"]
  /\ UNCHANGED faults

\* Mutant: a lost answer is taken for a stale sequence number.
ResendUnknown(c) ==
  /\ Fault
  /\ InTime(run[c].hash)
  /\ tx' = [tx EXCEPT ![run[c].hash].state = "queued"]
  /\ IF run[c].leases < MaxLeaseRetries
     THEN run' = [run EXCEPT ![c].pc = "lease", ![c].hash = NoHash]
     ELSE Finishing(c, Unconfirmed(run[c].hash))

\* No answer, or one nobody knows: it may have reached the network.
SendUnknown(c) ==
  /\ Fault
  /\ \/ Refused(c)
     \/ /\ InTime(run[c].hash)
        /\ tx' = [tx EXCEPT ![run[c].hash].state = "queued"]
  /\ Finishing(c, Unconfirmed(run[c].hash))

\* The sequence number was stale: a fresh lease, a few times.
RejectedBadSeq(c) ==
  /\ Refused(c)
  /\ IF run[c].leases < MaxLeaseRetries
     THEN run' = [run EXCEPT ![c].pc = "lease", ![c].hash = NoHash]
     ELSE Finishing(c, Rejected(NoHash))
  /\ UNCHANGED faults

\* The fee was too low: twice the fee within the same lease and time bounds.
RejectedFee(c) ==
  /\ Refused(c)
  /\ \/ /\ run[c].fees < MaxFeeRetries
        /\ run' = [run EXCEPT ![c].pc = "seal", ![c].hash = NoHash, ![c].fees = @ + 1,
                              ![c].left = tx[run[c].hash].left]
     \/ Finishing(c, Rejected(NoHash))
  /\ UNCHANGED faults

\* TRY_AGAIN_LATER every time, or any other error.
RejectedOther(c) == Refused(c) /\ Finishing(c, Rejected(NoHash)) /\ UNCHANGED faults

send(c) ==
  /\ run[c].pc = "send"
  /\ \/ SendQueued(c) \/ SendUnknown(c)
     \/ RejectedBadSeq(c) \/ RejectedFee(c) \/ RejectedOther(c)
  /\ UNCHANGED <<rec, stale>>

\* Follow a queued transaction until it is found, or for pollTimeout.
poll(c) ==
  /\ run[c].pc = "poll"
  /\ \/ Found(run[c].hash) /\ \E o \in landed(run[c].hash) : Finishing(c, o)
     \/ Finishing(c, Unconfirmed(run[c].hash))
  /\ UNCHANGED <<rec, tx, stale, faults>>

\* The outcome is stored whether the caller is still there or not.
finish(c) ==
  /\ run[c].pc = "finish"
  /\ \/ rec' = Finish(run[c].id, run[c].out) /\ UNCHANGED faults
     \/ Fault /\ UNCHANGED rec
  /\ Done(c)
  /\ UNCHANGED <<tx, stale>>

\* The process ends.
Crash(c) ==
  /\ run[c].pc \notin {"start", "done"}
  /\ Fault
  /\ IF run[c].pc = "send" THEN Refused(c) ELSE UNCHANGED tx
  /\ Done(c)
  /\ UNCHANGED <<rec, stale>>

-----------------------------------------------------------------------------
(* The resolver.                                                           *)

\* Mutant: only submissions that were sent are listed.
IsUnconfirmed(i) == rec[i].status = "unconfirmed" /\ rec[i].age > StaleAfter

IsStale(i) == rec[i].status \in InFlight /\ rec[i].age > StaleAfter

ListStale(r, i) ==
  /\ stale[r].pc = "idle"
  /\ IsStale(i)
  /\ stale' = [stale EXCEPT ![r] = [Idle EXCEPT !.pc = "look", !.id = i, !.hash = rec[i].hash,
                                                !.age = rec[i].age]]
  /\ UNCHANGED <<rec, tx, run, faults>>

Settle(r, o) == stale' = [stale EXCEPT ![r].pc = "finish", ![r].age = 0, ![r].out = o]
Leave(r) == stale' = [stale EXCEPT ![r] = Idle]

\* Mutant: a transaction that is not found is taken for expired.
NotFoundIsExpired(r) == TRUE

\* The transaction's time bounds have passed, with a ledger's margin.
Expired(r) == stale[r].age > TxValidity + LedgerTime

\* What one look decides: abandoned, landed, expired, or ask again at a later tick.
resolve(r) ==
  /\ stale[r].pc = "look"
  /\ LET x == stale[r].hash
     IN  \/ x = NoHash /\ Settle(r, Rejected(NoHash)) /\ UNCHANGED faults
         \/ x # NoHash /\ Leave(r) /\ Fault
         \/ /\ x # NoHash /\ NotFound(x)
            /\ IF Expired(r) THEN Settle(r, Rejected(x)) ELSE Leave(r)
            /\ UNCHANGED faults
         \/ /\ x # NoHash /\ Found(x)
            /\ \E o \in landed(x) : Settle(r, o)
            /\ UNCHANGED faults
  /\ UNCHANGED <<rec, tx, run>>

FinishStale(r) ==
  /\ stale[r].pc = "finish"
  /\ \/ rec' = Finish(stale[r].id, stale[r].out) /\ UNCHANGED faults
     \/ Fault /\ UNCHANGED rec
  /\ Leave(r)
  /\ UNCHANGED <<tx, run>>

-----------------------------------------------------------------------------
(* Time.                                                                   *)

Older(n, most) == IF n = most THEN n ELSE n + 1
Younger(n) == IF n = Over THEN n ELSE n - 1

\* A submission that has not sent yet, whose record is about to be stale.
Late(c) ==
  /\ run[c].pc \in {"lease", "seal", "send"}
  /\ rec[run[c].id].status \in InFlight
  /\ rec[run[c].id].age >= StaleAfter

Tick ==
  /\ PromptSubmitter => \A c \in Calls : ~Late(c)
  /\ rec' = [i \in Ids |-> IF rec[i].status \in InFlight
                           THEN [rec[i] EXCEPT !.age = Older(@, Old)] ELSE rec[i]]
  /\ tx' = [x \in Txs |->
              IF Landed(x) THEN [tx[x] EXCEPT !.since = Older(@, RpcLag + 1)]
              ELSE [tx[x] EXCEPT !.left = Younger(@)]]
  /\ run' = [c \in Calls |-> [run[c] EXCEPT !.left = Younger(@)]]
  /\ stale' = [r \in Resolvers |-> IF stale[r].pc = "look"
                                   THEN [stale[r] EXCEPT !.age = Older(@, Old)] ELSE stale[r]]
  /\ UNCHANGED faults

-----------------------------------------------------------------------------
Submit(c) ==
  \/ Prepare(c) \/ Reserve(c) \/ AcquireWait(c) \/ seal(c) \/ send(c) \/ poll(c) \/ finish(c)

Next ==
  \/ \E c \in Calls : Submit(c) \/ Crash(c)
  \/ \E r \in Resolvers : (\E i \in Ids : ListStale(r, i)) \/ resolve(r) \/ FinishStale(r)
  \/ \E x \in Txs : Lands(x) \/ Drop(x)
  \/ Tick

Spec == Init /\ [][Next]_vars

\* Time passes, a running submission takes its next step, and the resolver,
\* which lists the oldest records first, comes to every stale record.
Fairness ==
  /\ WF_vars(Tick)
  /\ \A c \in Calls : WF_vars(Submit(c))
  /\ \A r \in Resolvers :
       /\ WF_vars(resolve(r)) /\ WF_vars(FinishStale(r))
       /\ \A i \in Ids : SF_vars(ListStale(r, i))

FairSpec == Spec /\ Fairness

-----------------------------------------------------------------------------
(* Properties.                                                             *)

\* Every variable has its type.
TypeOK ==
  /\ rec \in [Ids -> Record] /\ tx \in [Txs -> Tx]
  /\ run \in [Calls -> Run] /\ stale \in [Resolvers -> Stale]
  /\ faults \in 0 .. MaxFaults

LandedFor(i) == {x \in Txs : Landed(x) /\ tx[x].id = i}

\* The funder pays for a request id at most once, however often it is
\* submitted, whatever answer is lost and whoever concludes what (Submit's
\* "never pays twice").
PaidAtMostOnce == \A i \in Ids : Cardinality(LandedFor(i)) <= 1

\* A transaction the network has, or had and applied, is the one on its
\* request's record: whatever crashes next, the resolver can look it up
\* (SetHash before SendTransaction).
SentIsOnRecord ==
  \A x \in Txs : Landed(x) \/ CanLand(x) => rec[tx[x].id].hash = x

\* A rejected request has cost nothing and never will; a success or failure is
\* that of the transaction on record, with the fee it was charged.
OutcomeIsTrue ==
  \A i \in Ids :
    /\ rec[i].status = "rejected" =>
         \A x \in Txs : tx[x].id = i => ~Landed(x) /\ ~CanLand(x)
    /\ rec[i].status \in {"success", "failed"} =>
         /\ tx[rec[i].hash].state = rec[i].status
         /\ rec[i].fee \in {NoFee, tx[rec[i].hash].fee}

\* Transactions of a wallet that landed, by mode.
Charged(w, mode) ==
  {x \in Txs : /\ Landed(x) /\ rec[tx[x].id].body # NoBody
               /\ WalletOf[rec[tx[x].id].body] = w /\ ModeOf[rec[tx[x].id].body] = mode}

Cost(txs) == MapThenSumSet(LAMBDA x : tx[x].fee, txs)

\* What the network really charged for a wallet's sponsored transactions stays
\* within the wallet's caps, and for all wallets within the day's budget, with
\* concurrent submissions, crashes, lost outcomes, reservations replaced by the fee
\* and resolvers that release what never landed (checkCaps under Reserve's lock).
SpendIsWithinCaps ==
  /\ \A w \in AllWallets :
       /\ Cardinality(Charged(w, "sponsored")) <= MaxTxPerWallet
       /\ Cost(Charged(w, "sponsored")) <= MaxStroopsPerWallet
  /\ Cost(UNION {Charged(w, "sponsored") : w \in AllWallets}) <= MaxStroopsPerDay

FailedForwards(w) == {x \in Charged(w, "forward") : tx[x].state = "failed"}

\* Forwards of one wallet that failed on-chain within one window never exceed
\* the failures allowed when the last was let in plus those in flight with it.
ForwardLossIsBounded ==
  \A w \in AllWallets :
    Cardinality(FailedForwards(w)) < MaxForwardFailuresPerWallet + MaxForwardInFlightPerWallet

\* Every reserved request reaches a final status, so no reservation and no
\* idempotency key stays stuck (Resolver).
EveryRequestSettles ==
  \A i \in Ids : rec[i].status \in InFlight ~> rec[i].status \in Final
=============================================================================
