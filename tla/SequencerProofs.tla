--------------------------- MODULE SequencerProofs ---------------------------
(***************************************************************************)
(* That a pool account's sequence position has no gap without a cause, for *)
(* any number of processes and senders.  The proof follows the send lock:  *)
(* in a process only its holder has a number drawn and not answered for,   *)
(* so that the position is the number due, or one past it while that       *)
(* number is on its way.                                                   *)
(***************************************************************************)
EXTENDS Sequencer, TLAPS

\* The parts of the invariant hold when the process starts.
LEMMA InitIInv == Init => IInv
<1> SUFFICES ASSUME Init PROVE IInv
  OBVIOUS
<1> USE DEF Init
<1>1. TypeOK
  BY BoundsAreNaturals DEF TypeOK
<1>2. OnlyTheHolderSends /\ HolderIsBusy
  BY DEF OnlyTheHolderSends, HolderIsBusy
<1>3. Position /\ DrawnIsLatest
  BY DEF Position, DrawnIsLatest
<1> QED
  BY <1>1, <1>2, <1>3 DEF IInv

\* Every step preserves the invariant.
LEMMA StepIInv == IInv /\ [Next]_vars => IInv'
<1> SUFFICES ASSUME IInv, [Next]_vars PROVE IInv'
  OBVIOUS
<1> USE SendersAreRight, BoundsAreNaturals DEF IInv
<1>1. ASSUME NEW s \in Senders, lockSend(s) PROVE IInv'
  <2> USE <1>1 DEF lockSend, Free, Goto
  <2>1. TypeOK'
    BY DEF TypeOK
  <2>2. OnlyTheHolderSends' /\ HolderIsBusy'
    BY DEF TypeOK, OnlyTheHolderSends, HolderIsBusy
  <2>3. DrawnIsLatest'
    BY DEF TypeOK, OnlyTheHolderSends, HolderIsBusy, DrawnIsLatest
  <2>4. Position'
    BY DEF TypeOK, OnlyTheHolderSends, HolderIsBusy, Position, Sending, DrawnIsLatest, Due
  <2> QED
    BY <2>1, <2>2, <2>3, <2>4 DEF IInv
<1>2. ASSUME NEW s \in Senders, draw(s) PROVE IInv'
  <2> DEFINE p == ProcessOf[s]
  <2>1. pc[s] = "draw" /\ p \in Processes /\ lock[p] = s /\ UNCHANGED <<applied, queued>>
    BY <1>2 DEF draw, OnlyTheHolderSends
  <2>2. CASE /\ drawn' = [drawn EXCEPT ![s] = Number(p)]
             /\ next' = [next EXCEPT ![p] = Number(p) + 1]
             /\ loaded' = loaded \cup {p}
             /\ doubt' = IF p \in loaded THEN doubt
                        ELSE IF queued # 0 THEN doubt \cup {p} ELSE doubt \ {p}
             /\ Goto(s, "send")
             /\ UNCHANGED <<lock, faults>>
    <3>1. Number(p) \in Nat
      BY <2>1 DEF TypeOK, Number, Seed
    <3>2. TypeOK'
      BY <2>1, <2>2, <3>1 DEF TypeOK, Goto
    <3>3. OnlyTheHolderSends' /\ HolderIsBusy'
      BY <2>1, <2>2 DEF TypeOK, OnlyTheHolderSends, HolderIsBusy, Goto
    <3>4. DrawnIsLatest'
      BY <2>1, <2>2, <3>1 DEF TypeOK, OnlyTheHolderSends, DrawnIsLatest, Goto
    <3>5. ~Sending(p)
      BY <2>1 DEF OnlyTheHolderSends, Sending
    <3>6. ASSUME p \notin doubt' PROVE Number(p) = Due
      <4>1. CASE p \in loaded
        BY <2>2, <3>5, <3>6, <4>1 DEF Position, Number
      <4>2. CASE p \notin loaded
        BY <2>1, <2>2, <3>6, <4>2 DEF TypeOK, Number, Seed, Due
      <4> QED
        BY <4>1, <4>2
    <3>7. Sending(p)'
      BY <2>1, <2>2 DEF Sending, Goto, TypeOK
    <3>8. ASSUME NEW q \in Processes, q # p PROVE Sending(q)' <=> Sending(q)
      BY <2>1, <2>2, <3>8 DEF Sending, Goto, TypeOK
    <3>9. Due' = Due
      BY <2>1 DEF Due
    <3>10. ASSUME NEW q \in loaded' \ doubt'
           PROVE  next'[q] = IF Sending(q)' THEN Due + 1 ELSE Due
      <4>1. CASE q = p
        BY <2>1, <2>2, <3>6, <3>7, <3>10, <4>1 DEF TypeOK
      <4>2. CASE q # p
        <5>1. q \in loaded \ doubt /\ q \in Processes /\ next'[q] = next[q]
          BY <2>1, <2>2, <3>10, <4>2 DEF TypeOK
        <5> QED
          BY <3>8, <4>2, <5>1 DEF Position
      <4> QED
        BY <4>1, <4>2
    <3>11. Position'
      BY <3>9, <3>10 DEF Position
    <3> QED
      BY <3>2, <3>3, <3>4, <3>11 DEF IInv
  <2>3. CASE Fault /\ Unlock(s) /\ UNCHANGED <<next, loaded, doubt>>
    <3>1. TypeOK'
      BY <2>1, <2>3 DEF TypeOK, Fault, Unlock, Goto
    <3>2. OnlyTheHolderSends' /\ HolderIsBusy'
      BY <2>1, <2>3 DEF TypeOK, OnlyTheHolderSends, HolderIsBusy, Unlock, Goto
    <3>3. DrawnIsLatest'
      BY <2>1, <2>3 DEF TypeOK, DrawnIsLatest, Unlock, Goto
    <3>4. Position'
      BY <2>1, <2>3 DEF TypeOK, Position, Sending, Unlock, Goto, Due
    <3> QED
      BY <3>1, <3>2, <3>3, <3>4 DEF IInv
  <2> QED
    BY <1>2, <2>2, <2>3 DEF draw
<1>3. ASSUME NEW s \in Senders, Accepted(s) PROVE IInv'
  <2> USE <1>3 DEF Accepted, Takes, Outrun, Unlock, Goto
  <2>1. TypeOK'
    BY DEF TypeOK
  <2>2. OnlyTheHolderSends' /\ HolderIsBusy'
    BY DEF TypeOK, OnlyTheHolderSends, HolderIsBusy
  <2>3. DrawnIsLatest'
    BY DEF TypeOK, OnlyTheHolderSends, HolderIsBusy, DrawnIsLatest
  <2>4. Position'
    BY DEF TypeOK, OnlyTheHolderSends, HolderIsBusy, Position, Sending, DrawnIsLatest, Due
  <2> QED
    BY <2>1, <2>2, <2>3, <2>4 DEF IInv
<1>4. ASSUME NEW s \in Senders, BadSeq(s) PROVE IInv'
  <2> USE <1>4 DEF BadSeq, Refused, resync, Unlock, Goto
  <2>1. TypeOK'
    BY DEF TypeOK
  <2>2. OnlyTheHolderSends' /\ HolderIsBusy'
    BY DEF TypeOK, OnlyTheHolderSends, HolderIsBusy
  <2>3. DrawnIsLatest'
    BY DEF TypeOK, OnlyTheHolderSends, HolderIsBusy, DrawnIsLatest
  <2>4. Position'
    BY DEF TypeOK, OnlyTheHolderSends, HolderIsBusy, Position, Sending, DrawnIsLatest, Due
  <2> QED
    BY <2>1, <2>2, <2>3, <2>4 DEF IInv
<1>5. ASSUME NEW s \in Senders, NotSent(s) PROVE IInv'
  <2> USE <1>5 DEF NotSent, resync, Unlock, Goto, Fault
  <2>1. TypeOK'
    BY DEF TypeOK
  <2>2. OnlyTheHolderSends' /\ HolderIsBusy'
    BY DEF TypeOK, OnlyTheHolderSends, HolderIsBusy
  <2>3. DrawnIsLatest'
    BY DEF TypeOK, OnlyTheHolderSends, HolderIsBusy, DrawnIsLatest
  <2>4. Position'
    BY DEF TypeOK, OnlyTheHolderSends, HolderIsBusy, Position, Sending, DrawnIsLatest, Due
  <2> QED
    BY <2>1, <2>2, <2>3, <2>4 DEF IInv
<1>6. ASSUME NEW s \in Senders, Unconfirmed(s) PROVE IInv'
  <2> USE <1>6 DEF Unconfirmed, Takes, Unlock, Goto, Fault
  <2>1. TypeOK'
    BY DEF TypeOK
  <2>2. OnlyTheHolderSends' /\ HolderIsBusy'
    BY DEF TypeOK, OnlyTheHolderSends, HolderIsBusy
  <2>3. DrawnIsLatest'
    BY DEF TypeOK, OnlyTheHolderSends, HolderIsBusy, DrawnIsLatest
  <2>4. Position'
    BY DEF TypeOK, OnlyTheHolderSends, HolderIsBusy, Position, Sending, DrawnIsLatest, Due
  <2> QED
    BY <2>1, <2>2, <2>3, <2>4 DEF IInv
<1>7. ASSUME NEW p \in Processes, Crash(p) PROVE IInv'
  <2> USE <1>7 DEF Crash, Takes, Outrun, Fault
  <2>1. TypeOK'
    BY DEF TypeOK
  <2>2. OnlyTheHolderSends' /\ HolderIsBusy'
    BY DEF TypeOK, OnlyTheHolderSends, HolderIsBusy
  <2>3. DrawnIsLatest'
    BY DEF TypeOK, OnlyTheHolderSends, HolderIsBusy, DrawnIsLatest
  <2>4. Position'
    BY DEF TypeOK, OnlyTheHolderSends, HolderIsBusy, Position, Sending, DrawnIsLatest, Due
  <2> QED
    BY <2>1, <2>2, <2>3, <2>4 DEF IInv
<1>8. CASE Close
  <2> USE <1>8 DEF Close
  <2>1. TypeOK'
    BY DEF TypeOK
  <2>2. OnlyTheHolderSends' /\ HolderIsBusy'
    BY DEF TypeOK, OnlyTheHolderSends, HolderIsBusy
  <2>3. DrawnIsLatest'
    BY DEF TypeOK, OnlyTheHolderSends, HolderIsBusy, DrawnIsLatest
  <2>4. Position'
    BY DEF TypeOK, OnlyTheHolderSends, HolderIsBusy, Position, Sending, DrawnIsLatest, Due
  <2> QED
    BY <2>1, <2>2, <2>3, <2>4 DEF IInv
<1>9. CASE Drop
  <2> USE <1>9 DEF Drop, Fault
  <2>1. TypeOK'
    BY DEF TypeOK
  <2>2. OnlyTheHolderSends' /\ HolderIsBusy'
    BY DEF TypeOK, OnlyTheHolderSends, HolderIsBusy
  <2>3. DrawnIsLatest'
    BY DEF TypeOK, OnlyTheHolderSends, HolderIsBusy, DrawnIsLatest
  <2>4. Position'
    BY DEF TypeOK, OnlyTheHolderSends, HolderIsBusy, Position, Sending, DrawnIsLatest, Due
  <2> QED
    BY <2>1, <2>2, <2>3, <2>4 DEF IInv
<1>10. CASE UNCHANGED vars
  BY <1>10 DEF vars, TypeOK, OnlyTheHolderSends, HolderIsBusy, Position, Sending, DrawnIsLatest, Due
<1> QED
  BY <1>1, <1>2, <1>3, <1>4, <1>5, <1>6, <1>7, <1>8, <1>9, <1>10 DEF Next, Send

\* The inductive invariant holds of every behaviour.
THEOREM InvariantHolds == Spec => []IInv
  BY InitIInv, StepIInv, PTL DEF Spec

\* A send is refused for its number only while another transaction of the account is
\* in flight, after an unknown outcome, a drop, a reading of the account while
\* transactions of it were queued, or another process's send.
THEOREM RefusalsHaveACause == Spec => []RefusedForACause
<1>1. IInv => RefusedForACause
  BY SendersAreRight
     DEF IInv, TypeOK, RefusedForACause, Refused, Position, Sending, DrawnIsLatest, Due
<1> QED
  BY <1>1, InvariantHolds, PTL

\* Between sends the position is the number after the last one applied or queued.
THEOREM PositionHasNoGap == Spec => []NoGap
<1>1. IInv => NoGap
  BY SendersAreRight DEF IInv, TypeOK, NoGap, Position, Sending, OnlyTheHolderSends, Due
<1> QED
  BY <1>1, InvariantHolds, PTL
=============================================================================
