------------------------------ MODULE Sequencer ------------------------------
(***************************************************************************)
(* The sequence numbers of one pool account, for transfers that are sent   *)
(* from the pool itself: internal/service/forwarder/sequence.go and the    *)
(* part of transfer in forwarder.go that draws a number, sends under the   *)
(* pool's send lock and decides whether to resync.                         *)
(*                                                                         *)
(* Serve processes that run without channels share the account, each with  *)
(* a position of its own.  The network takes a transaction only if it      *)
(* carries the number after the last one applied or queued, and only while *)
(* fewer than Depth of the account wait: the load test of the repository   *)
(* measured a depth of one (docs/concurrency-load-test.md, "One            *)
(* transaction per account at a time, confirmed").  What a transfer pays,  *)
(* and whether it is paid once, is the module Forwards.                    *)
(***************************************************************************)
EXTENDS Integers, FiniteSets

CONSTANTS
  Processes,  \* serve processes on the account
  Senders,    \* goroutines that forward, sweep or retry on the pool
  ProcessOf,  \* the process of each
  Depth,      \* transactions of one account the network holds before it applies one
  MaxSeq,     \* bound: numbers the account ever uses
  MaxFaults   \* bound: sends that fail for another reason than their number

ASSUME BoundsAreNaturals ==
  Depth \in Nat \ {0} /\ MaxSeq \in Nat \ {0} /\ MaxFaults \in Nat

Nobody == "nobody"

ASSUME SendersAreRight == Nobody \notin Senders /\ ProcessOf \in [Senders -> Processes]

VARIABLES
  applied,  \* sequence number of the account, as of the last closed ledger
  queued,   \* how many transactions of the account wait behind it
  next,     \* poolSequence.next of each process
  loaded,   \* the processes with poolSequence.loaded
  lock,     \* holder of each process's poolSequence.send
  pc,       \* where each sender is
  drawn,    \* the number it drew
  doubt,    \* processes whose number may be wrong without a fault of their sequencer
  faults    \* failed sends so far

vars == <<applied, queued, next, loaded, lock, pc, drawn, doubt, faults>>

\* The number after the last one applied or queued.
Due == applied + queued + 1

\* Another transaction of the account, of this process or another, is in the way.
InFlight == queued >= Depth

Init ==
  /\ applied = 0
  /\ queued = 0
  /\ next = [p \in Processes |-> 0]
  /\ loaded = {}
  /\ lock = [p \in Processes |-> Nobody]
  /\ pc = [s \in Senders |-> "idle"]
  /\ drawn = [s \in Senders |-> 0]
  /\ doubt = {}
  /\ faults = 0

Goto(s, step) == pc' = [pc EXCEPT ![s] = step]

Fault == faults < MaxFaults /\ faults' = faults + 1

-----------------------------------------------------------------------------
(* One transfer.                                                           *)

\* Mutant: sends are not serialised.
AlwaysFree(s) == TRUE

Free(s) == lock[ProcessOf[s]] = Nobody

\* The lock is held from drawing the number to the answer of the send.
lockSend(s) ==
  /\ pc[s] = "idle"
  /\ Free(s)
  /\ lock' = [lock EXCEPT ![ProcessOf[s]] = s]
  /\ Goto(s, "draw")
  /\ UNCHANGED <<applied, queued, next, loaded, drawn, doubt, faults>>

\* The lock is released; the number is the transfer's own and gone with it.
Unlock(s) ==
  /\ lock' = [lock EXCEPT ![ProcessOf[s]] = IF @ = s THEN Nobody ELSE @]
  /\ drawn' = [drawn EXCEPT ![s] = 0]
  /\ Goto(s, "idle")

\* Mutant: the number reported, which the account has used, is handed out.
SeedAtCurrent == applied

\* GetSequenceNumber reports the last number used in a closed ledger.
Seed == applied + 1

Number(p) == IF p \in loaded THEN next[p] ELSE Seed

\* next, seeding from Horizon when nothing is loaded.  Numbers that are queued
\* already are drawn again when the account is read before their ledger closes.
draw(s) ==
  LET p == ProcessOf[s]
  IN  /\ pc[s] = "draw"
      /\ \/ /\ drawn' = [drawn EXCEPT ![s] = Number(p)]
            /\ next' = [next EXCEPT ![p] = Number(p) + 1]
            /\ loaded' = loaded \cup {p}
            /\ doubt' = IF p \in loaded THEN doubt
                       ELSE IF queued # 0 THEN doubt \cup {p} ELSE doubt \ {p}
            /\ Goto(s, "send")
            /\ UNCHANGED <<lock, faults>>
         \/ /\ p \notin loaded
            /\ Fault
            /\ Unlock(s)
            /\ UNCHANGED <<next, loaded, doubt>>
      /\ UNCHANGED <<applied, queued>>

\* resync: the next draw reads the account.
resync(s) == loaded' = loaded \ {ProcessOf[s]}

\* The network takes the transaction; what the other processes have loaded is old.
Takes(s) ==
  /\ drawn[s] = Due /\ ~InFlight /\ Due <= MaxSeq
  /\ queued' = queued + 1

Outrun(s) == doubt \cup (Processes \ {ProcessOf[s]})

\* PENDING: the lock is released before the confirmation is polled for.
Accepted(s) ==
  /\ pc[s] = "send"
  /\ Takes(s)
  /\ doubt' = Outrun(s)
  /\ Unlock(s)
  /\ UNCHANGED <<applied, next, loaded, faults>>

\* A number that is not due is refused, and so is the one that is due while the
\* transaction before it is not applied.
Refused(s) == drawn[s] # Due \/ InFlight

\* txBadSeq: contention, after which the account is read again.  For a transaction
\* in flight the answer may be TRY_AGAIN_LATER as well: the sender then keeps its
\* number and the lock and asks again a ledger later, up to maxTryAgain times.
BadSeq(s) ==
  /\ pc[s] = "send"
  /\ Refused(s)
  /\ resync(s)
  /\ Unlock(s)
  /\ UNCHANGED <<applied, queued, next, doubt, faults>>

\* A failure before or at the send that leaves the number unused: the
\* simulation, the record, the fee, TRY_AGAIN_LATER to the end.
NotSent(s) ==
  /\ pc[s] = "send"
  /\ Fault
  /\ resync(s)
  /\ Unlock(s)
  /\ UNCHANGED <<applied, queued, next, doubt>>

\* The answer is lost.  Whether the number is spent is not known; the position is
\* kept.
Unconfirmed(s) ==
  /\ pc[s] = "send"
  /\ Fault
  /\ \/ UNCHANGED queued /\ doubt' = doubt \cup {ProcessOf[s]}
     \/ Takes(s) /\ doubt' = Processes
  /\ Unlock(s)
  /\ UNCHANGED <<applied, next, loaded>>

\* A process dies, and its position with it; a send may be on its way.
Crash(p) ==
  /\ Fault
  /\ \/ UNCHANGED <<queued, doubt>>
     \/ \E s \in Senders :
          ProcessOf[s] = p /\ pc[s] = "send" /\ Takes(s) /\ doubt' = Outrun(s)
  /\ next' = [next EXCEPT ![p] = 0]
  /\ loaded' = loaded \ {p}
  /\ lock' = [lock EXCEPT ![p] = Nobody]
  /\ pc' = [s \in Senders |-> IF ProcessOf[s] = p THEN "idle" ELSE pc[s]]
  /\ drawn' = [s \in Senders |-> IF ProcessOf[s] = p THEN 0 ELSE drawn[s]]
  /\ UNCHANGED applied

-----------------------------------------------------------------------------
(* The network.                                                            *)

\* A ledger closes with the first of the queue.
Close ==
  /\ queued > 0
  /\ applied' = applied + 1
  /\ queued' = queued - 1
  /\ UNCHANGED <<next, loaded, lock, pc, drawn, doubt, faults>>

\* The queue is dropped: the first transaction expired, and with it those behind.
Drop ==
  /\ queued > 0
  /\ Fault
  /\ queued' = 0
  /\ doubt' = Processes
  /\ UNCHANGED <<applied, next, loaded, lock, pc, drawn>>

-----------------------------------------------------------------------------
(* Specification.                                                          *)

Send(s) ==
  lockSend(s) \/ draw(s) \/ Accepted(s) \/ BadSeq(s) \/ NotSent(s) \/ Unconfirmed(s)

Next ==
  \/ \E s \in Senders : Send(s)
  \/ \E p \in Processes : Crash(p)
  \/ Close
  \/ Drop

Spec == Init /\ [][Next]_vars

\* A deposit that lost the race is retried, a send gets an answer and ledgers
\* close.  The lock is a Go mutex, which lets every waiter in eventually.
FairSpec ==
  /\ Spec
  /\ \A s \in Senders : WF_vars(draw(s) \/ Accepted(s) \/ BadSeq(s)) /\ SF_vars(lockSend(s))
  /\ WF_vars(Close)

-----------------------------------------------------------------------------
(* Properties.                                                             *)

\* Every variable has its type.
TypeOK ==
  /\ applied \in Nat
  /\ queued \in Nat
  /\ next \in [Processes -> Nat]
  /\ loaded \subseteq Processes
  /\ lock \in [Processes -> Senders \cup {Nobody}]
  /\ pc \in [Senders -> {"idle", "draw", "send"}]
  /\ drawn \in [Senders -> Nat]
  /\ doubt \subseteq Processes
  /\ faults \in 0 .. MaxFaults

\* "An account can only land one Soroban transaction per ledger, so under load a
\* perfectly good transaction loses the race": a send is refused for its number only
\* while another transaction of the account is in flight, or when an earlier one had
\* an unknown outcome, was dropped, or was still queued while the account was read,
\* or when another process has sent since.  The sequencer adds no cause of its own.
RefusedForACause ==
  \A s \in Senders : pc[s] = "send" /\ Refused(s) => InFlight \/ ProcessOf[s] \in doubt

\* "The caller owns that number: it must either land it on-chain or call resync":
\* between sends the position in memory is the number after the last one applied or
\* queued, unless one of the causes of doubt is there.  The network may still refuse
\* it while the queued one is in flight.
NoGap == \A p \in loaded \ doubt : lock[p] = Nobody => next[p] = Due

\* The inductive strengthening: who is past the lock, and what it drew.
OnlyTheHolderSends == \A s \in Senders : pc[s] # "idle" => lock[ProcessOf[s]] = s

HolderIsBusy ==
  \A p \in Processes : lock[p] # Nobody => ProcessOf[lock[p]] = p /\ pc[lock[p]] # "idle"

Sending(p) == \E s \in Senders : ProcessOf[s] = p /\ pc[s] = "send"

Position == \A p \in loaded \ doubt : next[p] = IF Sending(p) THEN Due + 1 ELSE Due

DrawnIsLatest ==
  \A s \in Senders : pc[s] = "send" =>
    ProcessOf[s] \in loaded /\ drawn[s] = next[ProcessOf[s]] - 1

IInv == TypeOK /\ OnlyTheHolderSends /\ HolderIsBusy /\ Position /\ DrawnIsLatest

\* A gap in the numbers, or one that is drawn twice, in one process or in two, does
\* not stop the account: whatever failed, a transfer is applied after it.
AccountMovesOn == \A n \in 0 .. MaxSeq - 1 : applied = n ~> applied > n
=============================================================================
