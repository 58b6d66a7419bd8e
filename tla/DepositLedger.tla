---------------------------- MODULE DepositLedger ----------------------------
(***************************************************************************)
(* What the deposit bridge promises, with no processes, retries or clocks: *)
(* a recorded deposit is paid out once, to the right place, while its row  *)
(* is open, and its row is closed as credited or returned only after that. *)
(* A row closed as failed stays unpaid if it was unpaid when it closed.    *)
(***************************************************************************)
CONSTANTS
  Deposits,    \* inbound payments
  Creditable,  \* the deposits their intent's address must receive
  Transfers    \* outbound transfers

VARIABLES
  book,  \* what the forwards table says of a deposit
  paid   \* the transfers that moved a deposit's money, each with where to

vars == <<book, paid>>

Books == {"unrecorded", "open", "credited", "returned", "failed"}

Owed(d) == IF d \in Creditable THEN "credit" ELSE "recovery"

Init ==
  /\ book = [d \in Deposits |-> "unrecorded"]
  /\ paid = [d \in Deposits |-> {}]

\* The deposit is recorded.
Record(d) ==
  /\ book[d] = "unrecorded"
  /\ book' = [book EXCEPT ![d] = "open"]
  /\ UNCHANGED paid

\* The first and only transfer for d lands.
Pay(d, t) ==
  /\ book[d] = "open"
  /\ paid[d] = {}
  /\ paid' = [paid EXCEPT ![d] = {<<t, Owed(d)>>}]
  /\ UNCHANGED book

\* The row is closed with what happened.
Settle(d) ==
  /\ book[d] = "open"
  /\ paid[d] # {}
  /\ book' = [book EXCEPT ![d] = IF d \in Creditable THEN "credited" ELSE "returned"]
  /\ UNCHANGED paid

\* The row is closed as failed: not paid, or with an outcome nobody can tell.
Abandon(d) ==
  /\ book[d] = "open"
  /\ book' = [book EXCEPT ![d] = "failed"]
  /\ UNCHANGED paid

Next ==
  \E d \in Deposits :
    Record(d) \/ (\E t \in Transfers : Pay(d, t)) \/ Settle(d) \/ Abandon(d)

Spec == Init /\ [][Next]_vars
=============================================================================
