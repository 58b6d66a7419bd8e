---------------------------- MODULE WatcherProofs ----------------------------
(***************************************************************************)
(* Theorems about Watcher, for any number of serve processes, operations   *)
(* and faults: no deposit is passed over, the queue holds recorded         *)
(* deposits only, and each of them once.                                   *)
(*                                                                         *)
(* The argument follows the poll of a process along its page.  Whatever    *)
(* lies between where polling began and its cursor variable is in the      *)
(* table; the operation it is at joins the table before the cursor moves;  *)
(* so any cursor a process can save, an old one too, has nothing           *)
(* unrecorded behind it.                                                   *)
(***************************************************************************)
EXTENDS Watcher, TLAPS

-----------------------------------------------------------------------------
(* The inductive invariant.                                                *)

\* Steps of a poll that has a cursor, and those at an operation of its page.
HasCursor == {"fetch", "handle", "dispatch", "save"}
OnPage == {"handle", "dispatch", "save"}

\* Cursors are of operations Horizon has shown.
CursorsHaveLanded ==
  /\ saved <= landed /\ base <= landed
  /\ \A i \in Instances :
       /\ pos[i] <= landed
       /\ poll[i] \in OnPage => pos[i] < upto[i] /\ upto[i] <= landed

\* What a poll has walked over is in the table.
WalkedIsRecorded ==
  \A i \in Instances : poll[i] \in HasCursor =>
    \A t \in Tokens : IsDeposit(t) /\ base < t /\ t <= pos[i] => t \in rows

\* So is the operation it has handled and not yet left.
HandledIsRecorded ==
  \A i \in Instances :
    /\ poll[i] = "save" /\ IsDeposit(pos[i] + 1) => pos[i] + 1 \in rows
    /\ poll[i] = "dispatch" => pos[i] + 1 \in rows

\* A deposit about to be queued is new, and no other process is about to queue it.
DispatchedIsNew ==
  \A i \in Instances : poll[i] = "dispatch" =>
    /\ pos[i] + 1 \notin offered
    /\ \A j \in Instances : poll[j] = "dispatch" /\ pos[j] = pos[i] => j = i

OfferedIsRecorded == offered \subseteq rows

IInv ==
  /\ TypeOK
  /\ CursorsHaveLanded /\ WalkedIsRecorded /\ HandledIsRecorded
  /\ NothingIsSkipped
  /\ DispatchedIsNew /\ OfferedIsRecorded /\ QueueIsRecorded

-----------------------------------------------------------------------------
(* The operators the proofs rest on.                                       *)

\* The deposit key tells the operations of a pool apart: a row that conflicts with
\* an operation is its own.
LEMMA ConflictIsOwnRow ==
  ASSUME NEW t \in Tokens, rows \subseteq Tokens
  PROVE  Conflict(t) <=> t \in rows
<1>1. t \in rows => Conflict(t)
  BY DEF Conflict
<1>2. ASSUME NEW u \in rows, depositKey(Ops[u]) = depositKey(Ops[t]) PROVE u = t
  <2>1. u \in Tokens /\ Ops[u] \in Operation /\ Ops[t] \in Operation
    BY OpsAreOperations
  <2>2. Ops[u].tx = Ops[t].tx
    <3>1. depositKey(Ops[u])[1] = Ops[u].tx /\ depositKey(Ops[t])[1] = Ops[t].tx
      BY DEF depositKey
    <3> QED BY <3>1, <1>2
  <2>3. Ops[u].count = Ops[t].count
    BY <2>1, <2>2, OpsAreOperations
  <2>4. CASE Ops[t].count = 1
    BY <2>1, <2>2, <2>3, <2>4, OpsAreOperations
  <2>5. CASE Ops[t].count # 1
    <3>1. /\ depositKey(Ops[u]) = <<Ops[u].tx, Ops[u].id % 4096>>
          /\ depositKey(Ops[t]) = <<Ops[t].tx, Ops[t].id % 4096>>
      BY <2>3, <2>5 DEF depositKey
    <3>2. Ops[u].id % 4096 = Ops[t].id % 4096
      BY <3>1, <1>2
    <3> QED BY <3>2, <2>1, <2>2, OpsAreOperations
  <2> QED BY <2>4, <2>5
<1> QED BY <1>1, <1>2 DEF Conflict

\* After an INSERT that returned, the operation has its row.
LEMMA InsertedIsRow ==
  ASSUME NEW t \in Tokens, rows \subseteq Tokens
  PROVE  InsertForward(t) = rows \cup {t}
BY ConflictIsOwnRow DEF InsertForward

\* What appending to and taking from a queue of recorded deposits leaves in it.
LEMMA QueueOps ==
  ASSUME NEW S, NEW q \in Seq(S)
  PROVE  /\ \A t \in S : /\ Append(q, t) \in Seq(S)
                         /\ Len(Append(q, t)) = Len(q) + 1
                         /\ Append(q, t)[Len(q) + 1] = t
                         /\ \A n \in DOMAIN q : Append(q, t)[n] = q[n]
                         /\ DOMAIN Append(q, t) = 1 .. Len(q) + 1
         /\ q # <<>> => /\ Tail(q) \in Seq(S)
                        /\ Len(Tail(q)) = Len(q) - 1
                        /\ DOMAIN Tail(q) = 1 .. Len(q) - 1
                        /\ \A n \in DOMAIN Tail(q) : Tail(q)[n] = q[n + 1] /\ n + 1 \in DOMAIN q
         /\ DOMAIN q = 1 .. Len(q) /\ Len(q) \in Nat
OBVIOUS

-----------------------------------------------------------------------------
(* The invariant holds in the initial states and every step keeps it.      *)

LEMMA InitIInv == Init => IInv
<1> SUFFICES ASSUME Init PROVE IInv
  OBVIOUS
<1> USE BoundsAreNaturals DEF Init, NoCursor
<1>1. TypeOK
  BY DEF TypeOK, Steps
<1>2. CursorsHaveLanded /\ WalkedIsRecorded /\ HandledIsRecorded
  BY DEF CursorsHaveLanded, WalkedIsRecorded, HandledIsRecorded, OnPage, HasCursor
<1>3. NothingIsSkipped
  BY DEF NothingIsSkipped, Tokens
<1>4. DispatchedIsNew /\ OfferedIsRecorded /\ QueueIsRecorded
  BY DEF DispatchedIsNew, OfferedIsRecorded, QueueIsRecorded
<1> QED
  BY <1>1, <1>2, <1>3, <1>4 DEF IInv

\* A fault is counted within its bound.
LEMMA FaultType ==
  ASSUME TypeOK, NEW i \in Instances, Fault \/ CallFails(i) \/ CallReturns(i) \/ UNCHANGED faults
  PROVE  faults' \in 0 .. MaxFaults
BY BoundsAreNaturals DEF TypeOK, Fault, CallFails, CallReturns

\* A step that leaves what was recorded and offered alone, and the cursors too, and
\* takes no process onto a page.
Quiet ==
  /\ UNCHANGED <<landed, saved, rows, offered, base>>
  /\ \A i \in Instances :
       /\ poll'[i] \in HasCursor => poll'[i] = poll[i] /\ pos'[i] = pos[i] /\ upto'[i] = upto[i]
       /\ pos'[i] \in {0, pos[i]}

LEMMA QuietKeeps ==
  ASSUME IInv, TypeOK', Quiet, QueueIsRecorded'
  PROVE  IInv'
<1> USE DEF IInv, Quiet
<1>1. landed \in Nat
  BY BoundsAreNaturals DEF TypeOK
<1>2. CursorsHaveLanded'
  <2>1. ASSUME NEW i \in Instances
        PROVE  /\ pos'[i] <= landed
               /\ poll'[i] \in OnPage => pos'[i] < upto'[i] /\ upto'[i] <= landed
    <3>1. OnPage \subseteq HasCursor
      BY DEF OnPage, HasCursor
    <3>2. pos'[i] \in {0, pos[i]} /\ pos[i] <= landed
      BY DEF CursorsHaveLanded
    <3> QED BY <1>1, <3>1, <3>2 DEF CursorsHaveLanded
  <2> QED BY <2>1 DEF CursorsHaveLanded
<1>3. WalkedIsRecorded' /\ NothingIsSkipped' /\ OfferedIsRecorded'
  BY DEF WalkedIsRecorded, NothingIsSkipped, OfferedIsRecorded
<1>4. HandledIsRecorded'
  BY DEF HandledIsRecorded, HasCursor
<1>5. DispatchedIsNew'
  BY DEF DispatchedIsNew, HasCursor
<1> QED BY <1>2, <1>3, <1>4, <1>5

LEMMA StartKeeps == ASSUME IInv, NEW i \in Instances, Start(i) PROVE IInv'
<1>1. TypeOK'
  BY DEF IInv, TypeOK, Start, Goto, Steps
<1>2. Quiet
  BY DEF IInv, TypeOK, Quiet, Start, Goto, HasCursor
<1>3. QueueIsRecorded'
  BY DEF IInv, QueueIsRecorded, Start
<1> QED BY <1>1, <1>2, <1>3, QuietKeeps

LEMMA GetCursorKeeps == ASSUME IInv, NEW i \in Instances, GetCursor(i) PROVE IInv'
<1> USE DEF IInv
<1>1. TypeOK'
  BY FaultType, BoundsAreNaturals DEF TypeOK, GetCursor, Goto, Steps, NoCursor
<1>2. QueueIsRecorded'
  BY DEF QueueIsRecorded, GetCursor
<1>3. CASE poll'[i] # "fetch"
  <2>1. Quiet
    BY <1>3 DEF TypeOK, Quiet, GetCursor, Goto, HasCursor
  <2> QED BY <1>1, <1>2, <2>1, QuietKeeps
<1>4. CASE poll'[i] = "fetch"
  <2>1. /\ poll' = [poll EXCEPT ![i] = "fetch"] /\ pos' = [pos EXCEPT ![i] = saved]
        /\ saved # NoCursor /\ UNCHANGED <<landed, saved, rows, offered, base, upto>>
    BY <1>4 DEF TypeOK, GetCursor, Goto
  <2>2. CursorsHaveLanded'
    BY <2>1 DEF TypeOK, CursorsHaveLanded, OnPage
  <2>3. WalkedIsRecorded' /\ NothingIsSkipped' /\ OfferedIsRecorded'
    BY <2>1 DEF TypeOK, WalkedIsRecorded, NothingIsSkipped, OfferedIsRecorded, HasCursor
  <2>4. HandledIsRecorded'
    BY <2>1 DEF TypeOK, HandledIsRecorded
  <2>5. DispatchedIsNew'
    BY <2>1 DEF TypeOK, DispatchedIsNew
  <2> QED BY <1>1, <1>2, <2>2, <2>3, <2>4, <2>5
<1> QED BY <1>3, <1>4

LEMMA LatestCursorKeeps == ASSUME IInv, NEW i \in Instances, latestCursor(i) PROVE IInv'
<1> USE DEF IInv
<1>1. TypeOK'
  BY FaultType, BoundsAreNaturals DEF TypeOK, latestCursor, Goto, Steps, NoCursor
<1>2. QueueIsRecorded'
  BY DEF QueueIsRecorded, latestCursor
<1>3. CASE poll'[i] # "fetch"
  <2>1. Quiet
    BY <1>3 DEF TypeOK, Quiet, latestCursor, Goto, HasCursor
  <2> QED BY <1>1, <1>2, <2>1, QuietKeeps
<1>4. CASE poll'[i] = "fetch"
  <2>1. /\ poll' = [poll EXCEPT ![i] = "fetch"] /\ pos' = [pos EXCEPT ![i] = landed]
        /\ base' = landed /\ UNCHANGED <<landed, saved, rows, offered, upto>>
    BY <1>4 DEF TypeOK, latestCursor, Goto
  <2>2. CursorsHaveLanded'
    BY <2>1 DEF TypeOK, CursorsHaveLanded, OnPage
  <2>3. WalkedIsRecorded' /\ NothingIsSkipped' /\ OfferedIsRecorded'
    BY <2>1, BoundsAreNaturals
    DEF TypeOK, CursorsHaveLanded, WalkedIsRecorded, NothingIsSkipped, OfferedIsRecorded,
        Tokens, NoCursor
  <2>4. HandledIsRecorded'
    BY <2>1 DEF TypeOK, HandledIsRecorded
  <2>5. DispatchedIsNew'
    BY <2>1 DEF TypeOK, DispatchedIsNew
  <2> QED BY <1>1, <1>2, <2>2, <2>3, <2>4, <2>5
<1> QED BY <1>3, <1>4

LEMMA PaymentsKeeps == ASSUME IInv, NEW i \in Instances, Payments(i) PROVE IInv'
<1> USE DEF IInv
<1>1. TypeOK'
  <2>1. faults' \in 0 .. MaxFaults
    BY FaultType DEF Payments
  <2>2. Least(pos[i] + PageSize, landed) \in 0 .. NumOps
    BY BoundsAreNaturals DEF TypeOK, Least
  <2> QED BY <2>1, <2>2 DEF TypeOK, Payments, Goto, Steps
<1>2. QueueIsRecorded'
  BY DEF QueueIsRecorded, Payments
<1>3. CASE poll'[i] # "handle"
  <2>1. Quiet
    BY <1>3 DEF TypeOK, Quiet, Payments, Goto, HasCursor
  <2> QED BY <1>1, <1>2, <2>1, QuietKeeps
<1>4. CASE poll'[i] = "handle"
  <2>1. /\ poll' = [poll EXCEPT ![i] = "handle"] /\ poll[i] = "fetch" /\ landed > pos[i]
        /\ upto' = [upto EXCEPT ![i] = Least(pos[i] + PageSize, landed)]
        /\ UNCHANGED <<landed, saved, rows, offered, base, pos>>
    BY <1>4 DEF TypeOK, Payments, Goto
  <2>2. pos[i] < Least(pos[i] + PageSize, landed) /\ Least(pos[i] + PageSize, landed) <= landed
    BY <2>1, BoundsAreNaturals DEF TypeOK, Least
  <2>3. CursorsHaveLanded'
    BY <2>1, <2>2 DEF TypeOK, CursorsHaveLanded, OnPage
  <2>4. WalkedIsRecorded' /\ NothingIsSkipped' /\ OfferedIsRecorded'
    BY <2>1 DEF TypeOK, WalkedIsRecorded, NothingIsSkipped, OfferedIsRecorded, HasCursor
  <2>5. HandledIsRecorded'
    BY <2>1 DEF TypeOK, HandledIsRecorded
  <2>6. DispatchedIsNew'
    BY <2>1 DEF TypeOK, DispatchedIsNew
  <2> QED BY <1>1, <1>2, <2>3, <2>4, <2>5, <2>6
<1> QED BY <1>3, <1>4

\* The operation a process is at is one of the pool's, and has landed.
LEMMA AtOperation ==
  ASSUME IInv, NEW i \in Instances, poll[i] \in OnPage
  PROVE  pos[i] + 1 \in Tokens /\ pos[i] + 1 <= landed
BY BoundsAreNaturals DEF IInv, TypeOK, CursorsHaveLanded, Tokens

LEMMA HandleKeeps == ASSUME IInv, NEW i \in Instances, handle(i) PROVE IInv'
<1> DEFINE t == pos[i] + 1
<1> USE DEF IInv
<1>1. t \in Tokens /\ poll[i] = "handle"
  BY AtOperation DEF handle, OnPage
<1>2. (rows' = rows \/ rows' = rows \cup {t}) /\ InsertForward(t) = rows \cup {t}
  BY <1>1, InsertedIsRow DEF handle, TypeOK
<1>3. UNCHANGED <<landed, saved, offered, base, pos, upto, queue, intake, serving>>
  BY DEF handle
<1>4. PICK step \in {"save", "wait", "dispatch"} : Goto(i, step)
  BY DEF handle, StopPoll, SkipIfKnown
<1>5. step = "dispatch" => t \notin rows /\ t \in rows'
  BY <1>1, <1>2, <1>4, ConflictIsOwnRow DEF handle, Goto, StopPoll, SkipIfKnown, TypeOK
<1>6. step = "save" /\ IsDeposit(t) => t \in rows'
  BY <1>1, <1>2, <1>4, ConflictIsOwnRow DEF handle, Goto, StopPoll, SkipIfKnown, TypeOK
<1> HIDE DEF t
<1>7. TypeOK'
  <2>1. faults' \in 0 .. MaxFaults
    BY FaultType DEF handle
  <2> QED BY <2>1, <1>1, <1>2, <1>3, <1>4 DEF TypeOK, Goto, Steps
<1>8. CursorsHaveLanded'
  BY <1>1, <1>3, <1>4 DEF TypeOK, CursorsHaveLanded, Goto, OnPage
<1>9. WalkedIsRecorded' /\ NothingIsSkipped' /\ OfferedIsRecorded' /\ QueueIsRecorded'
  BY <1>1, <1>2, <1>3, <1>4
  DEF TypeOK, WalkedIsRecorded, NothingIsSkipped, OfferedIsRecorded, QueueIsRecorded, Goto, HasCursor
<1>10. HandledIsRecorded'
  BY <1>2, <1>3, <1>4, <1>5, <1>6 DEF TypeOK, HandledIsRecorded, Goto, t
<1>11. DispatchedIsNew'
  <2>1. \A j \in Instances : j # i /\ poll[j] = "dispatch" => pos[j] + 1 \in rows
    BY DEF HandledIsRecorded
  <2>2. step = "dispatch" => t \notin offered
    BY <1>5 DEF OfferedIsRecorded
  <2> QED BY <1>3, <1>4, <1>5, <2>1, <2>2 DEF TypeOK, DispatchedIsNew, Goto, t
<1> QED BY <1>7, <1>8, <1>9, <1>10, <1>11

LEMMA DispatchKeeps == ASSUME IInv, NEW i \in Instances, dispatch(i) PROVE IInv'
<1> DEFINE t == pos[i] + 1
<1> USE DEF IInv
<1>1. t \in Tokens /\ poll[i] = "dispatch" /\ t \in rows
  BY AtOperation DEF dispatch, OnPage, HandledIsRecorded
<1>2. CASE ~HasRoom(i) \/ queue' = queue
  <2>1. \/ poll' = [poll EXCEPT ![i] = "stopped"] /\ UNCHANGED <<queue, offered>>
        \/ HasRoom(i) /\ queue' = [queue EXCEPT ![i] = Append(@, t)]
    BY DEF dispatch, Goto
  <2>2. ~(HasRoom(i) /\ queue' = [queue EXCEPT ![i] = Append(@, t)])
    <3>1. queue[i] \in Seq(Tokens)
      BY DEF TypeOK
    <3>2. Len(Append(queue[i], t)) = Len(queue[i]) + 1 /\ Len(queue[i]) \in Nat
      BY <3>1, <1>1, QueueOps
    <3>3. Append(queue[i], t) # queue[i]
      BY <3>2
    <3> QED BY <1>2, <3>3 DEF TypeOK
  <2>3. TypeOK'
    BY <2>1, <2>2 DEF TypeOK, dispatch, Steps
  <2>4. Quiet
    BY <2>1, <2>2 DEF TypeOK, Quiet, dispatch, HasCursor
  <2>5. QueueIsRecorded'
    BY <2>1, <2>2 DEF QueueIsRecorded, dispatch
  <2> QED BY <2>3, <2>4, <2>5, QuietKeeps
<1>3. CASE HasRoom(i) /\ queue' # queue
  <2>1. /\ queue' = [queue EXCEPT ![i] = Append(@, t)] /\ offered' = offered \cup {t}
        /\ poll' = [poll EXCEPT ![i] = "save"]
        /\ UNCHANGED <<landed, saved, rows, base, pos, upto, intake, serving, faults>>
    BY <1>3 DEF dispatch, Goto
  <2>2. queue[i] \in Seq(Tokens)
    BY DEF TypeOK
  <2> HIDE DEF t
  <2>3. TypeOK'
    <3>1. Append(queue[i], t) \in Seq(Tokens)
      BY <2>2, <1>1, QueueOps
    <3> QED BY <3>1, <2>1, <1>1 DEF TypeOK, Steps
  <2>4. CursorsHaveLanded'
    BY <2>1, <1>1 DEF TypeOK, CursorsHaveLanded, OnPage
  <2>5. WalkedIsRecorded' /\ NothingIsSkipped'
    BY <2>1, <1>1 DEF TypeOK, WalkedIsRecorded, NothingIsSkipped, HasCursor
  <2>6. HandledIsRecorded'
    BY <2>1, <1>1 DEF TypeOK, HandledIsRecorded, t
  <2>7. DispatchedIsNew' /\ OfferedIsRecorded'
    <3>1. OfferedIsRecorded'
      BY <2>1, <1>1 DEF OfferedIsRecorded
    <3>2. ASSUME NEW j \in Instances, poll'[j] = "dispatch"
          PROVE  j # i /\ poll[j] = "dispatch" /\ pos[j] + 1 # t
      <4>1. j # i /\ poll[j] = "dispatch"
        BY <3>2, <2>1 DEF TypeOK
      <4>2. pos[j] # pos[i]
        BY <4>1, <1>1 DEF DispatchedIsNew
      <4> QED BY <4>1, <4>2 DEF TypeOK, t
    <3> QED BY <3>1, <3>2, <2>1 DEF DispatchedIsNew
  <2>8. QueueIsRecorded'
    <3>1. Len(queue[i]) \in Nat /\ Len(queue[i]) < ForwardQueue
      BY <2>2, <1>3 DEF HasRoom
    <3>2. ASSUME NEW n \in DOMAIN Append(queue[i], t) PROVE Append(queue[i], t)[n] \in rows
      <4>1. n \in DOMAIN queue[i] \/ n = Len(queue[i]) + 1
        BY <3>1, <3>2, <2>2, <1>1, QueueOps
      <4> QED BY <4>1, <2>2, <1>1, QueueOps DEF QueueIsRecorded
    <3>3. Len(Append(queue[i], t)) <= ForwardQueue
      BY <3>1, <2>2, <1>1, QueueOps, BoundsAreNaturals
    <3>4. ASSUME NEW j \in Instances
          PROVE  queue'[j] = IF j = i THEN Append(queue[i], t) ELSE queue[j]
      BY <2>1 DEF TypeOK
    <3> QED BY <3>2, <3>3, <3>4, <2>1 DEF QueueIsRecorded
  <2> QED BY <2>3, <2>4, <2>5, <2>6, <2>7, <2>8
<1> QED BY <1>2, <1>3

LEMMA SaveCursorKeeps == ASSUME IInv, NEW i \in Instances, saveCursor(i) PROVE IInv'
<1> DEFINE t == pos[i] + 1
<1> USE DEF IInv
<1>1. t \in Tokens /\ t <= landed /\ poll[i] = "save"
  BY AtOperation DEF saveCursor, OnPage
<1>2. saved' \in {saved, t} /\ pos' = [pos EXCEPT ![i] = t]
  BY DEF saveCursor, PagingToken
<1>3. UNCHANGED <<landed, rows, offered, base, upto, queue, intake, serving>>
  BY DEF saveCursor
<1>4. PICK step \in {"stopped", "handle", "fetch"} :
        Goto(i, step) /\ (step = "handle" => t < upto[i])
  BY DEF saveCursor
<1>5. \A u \in Tokens : IsDeposit(u) /\ base < u /\ u <= t => u \in rows
  <2>1. ASSUME NEW u \in Tokens, u <= t PROVE u <= pos[i] \/ u = t
    BY <2>1 DEF TypeOK, Tokens
  <2> QED BY <2>1, <1>1 DEF WalkedIsRecorded, HandledIsRecorded, HasCursor
<1>6. TypeOK'
  <2>1. faults' \in 0 .. MaxFaults
    BY FaultType DEF saveCursor
  <2>2. t \in 0 .. NumOps
    BY <1>1, BoundsAreNaturals DEF Tokens
  <2> HIDE DEF t
  <2> QED BY <2>1, <2>2, <1>2, <1>3, <1>4 DEF TypeOK, Goto, Steps
<1> HIDE DEF t
<1>7. CursorsHaveLanded'
  <2>1. ASSUME NEW j \in Instances
        PROVE  /\ pos'[j] <= landed
               /\ poll'[j] \in OnPage => pos'[j] < upto[j] /\ upto[j] <= landed
    <3>1. CASE j = i
      BY <3>1, <1>1, <1>2, <1>4 DEF TypeOK, CursorsHaveLanded, Goto, OnPage
    <3>2. CASE j # i
      BY <3>2, <1>2, <1>4 DEF TypeOK, CursorsHaveLanded, Goto
    <3> QED BY <3>1, <3>2
  <2> QED BY <2>1, <1>1, <1>2, <1>3 DEF CursorsHaveLanded
<1>8. NothingIsSkipped'
  BY <1>2, <1>3, <1>5 DEF NothingIsSkipped
<1>9. WalkedIsRecorded'
  <2>1. \A j \in Instances : pos'[j] = IF j = i THEN t ELSE pos[j]
    BY <1>2 DEF TypeOK
  <2>2. \A j \in Instances \ {i} : poll'[j] = poll[j]
    BY <1>4 DEF TypeOK, Goto
  <2> QED BY <2>1, <2>2, <1>3, <1>5 DEF WalkedIsRecorded
<1>10. HandledIsRecorded' /\ DispatchedIsNew' /\ OfferedIsRecorded' /\ QueueIsRecorded'
  <2>1. \A j \in Instances : poll'[j] \in {"save", "dispatch"} =>
           j # i /\ poll'[j] = poll[j] /\ pos'[j] = pos[j]
    BY <1>2, <1>4 DEF TypeOK, Goto
  <2>2. HandledIsRecorded'
    BY <2>1, <1>3 DEF HandledIsRecorded
  <2>3. DispatchedIsNew'
    BY <2>1, <1>3 DEF DispatchedIsNew
  <2> QED BY <2>2, <2>3, <1>3 DEF OfferedIsRecorded, QueueIsRecorded
<1> QED BY <1>6, <1>7, <1>8, <1>9, <1>10

LEMMA ResumeKeeps == ASSUME IInv, NEW i \in Instances, Resume(i) PROVE IInv'
<1>1. TypeOK'
  BY BoundsAreNaturals DEF IInv, TypeOK, Resume, Goto, Steps
<1>2. Quiet
  BY DEF IInv, TypeOK, Quiet, Resume, Goto, HasCursor
<1>3. QueueIsRecorded'
  BY DEF IInv, QueueIsRecorded, Resume
<1> QED BY <1>1, <1>2, <1>3, QuietKeeps

LEMMA TakeKeeps == ASSUME IInv, NEW i \in Instances, Take(i) PROVE IInv'
<1>1. queue[i] \in Seq(Tokens) /\ queue[i] # <<>>
  BY DEF IInv, TypeOK, Take
<1>2. ASSUME NEW j \in Instances
      PROVE  queue'[j] = IF j = i THEN Tail(queue[i]) ELSE queue[j]
  BY DEF IInv, TypeOK, Take
<1>3. TypeOK'
  <2>1. Tail(queue[i]) \in Seq(Tokens)
    BY <1>1, QueueOps
  <2> QED BY <2>1 DEF IInv, TypeOK, Take
<1>4. Quiet
  BY DEF IInv, TypeOK, Quiet, Take
<1>5. QueueIsRecorded'
  <2>1. \A n \in DOMAIN Tail(queue[i]) : Tail(queue[i])[n] \in rows
    BY <1>1, QueueOps DEF IInv, QueueIsRecorded
  <2>2. Len(Tail(queue[i])) <= ForwardQueue
    <3>1. Len(queue[i]) <= ForwardQueue
      BY DEF IInv, QueueIsRecorded
    <3> QED BY <3>1, <1>1, QueueOps, BoundsAreNaturals
  <2> QED BY <2>1, <2>2, <1>2 DEF IInv, QueueIsRecorded, Take
<1> QED BY <1>3, <1>4, <1>5, QuietKeeps

LEMMA StopKeeps ==
  ASSUME IInv, NEW i \in Instances, Drain(i) \/ Shutdown(i)
  PROVE  IInv'
<1>1. TypeOK'
  BY FaultType DEF IInv, TypeOK, Drain, Shutdown
<1>2. Quiet
  BY DEF IInv, TypeOK, Quiet, Drain, Shutdown
<1>3. QueueIsRecorded'
  BY DEF IInv, QueueIsRecorded, Drain, Shutdown
<1> QED BY <1>1, <1>2, <1>3, QuietKeeps

LEMMA VanishKeeps ==
  ASSUME IInv, NEW i \in Instances, Vanish(i), Fault \/ UNCHANGED faults
  PROVE  IInv'
<1>1. TypeOK'
  <2>1. faults' \in 0 .. MaxFaults
    BY FaultType DEF IInv
  <2> QED BY <2>1, BoundsAreNaturals DEF IInv, TypeOK, Vanish, Goto, Steps
<1>2. Quiet
  BY DEF IInv, TypeOK, Quiet, Vanish, Goto, HasCursor
<1>3. QueueIsRecorded'
  <2>1. ASSUME NEW j \in Instances PROVE queue'[j] = IF j = i THEN <<>> ELSE queue[j]
    BY DEF IInv, TypeOK, Vanish
  <2>2. DOMAIN <<>> = {} /\ Len(<<>>) = 0
    OBVIOUS
  <2> QED BY <2>1, <2>2, BoundsAreNaturals DEF IInv, QueueIsRecorded, Vanish
<1> QED BY <1>1, <1>2, <1>3, QuietKeeps

LEMMA LandKeeps == ASSUME IInv, Land PROVE IInv'
<1> USE DEF IInv, Land, memory
<1>1. TypeOK'
  BY BoundsAreNaturals DEF TypeOK
<1>2. CursorsHaveLanded'
  BY BoundsAreNaturals DEF TypeOK, CursorsHaveLanded, NoCursor
<1>3. WalkedIsRecorded' /\ HandledIsRecorded' /\ NothingIsSkipped'
  BY DEF WalkedIsRecorded, HandledIsRecorded, NothingIsSkipped
<1>4. DispatchedIsNew' /\ OfferedIsRecorded' /\ QueueIsRecorded'
  BY DEF DispatchedIsNew, OfferedIsRecorded, QueueIsRecorded
<1> QED BY <1>1, <1>2, <1>3, <1>4

LEMMA StepIInv == IInv /\ [Next]_vars => IInv'
<1> SUFFICES ASSUME IInv, [Next]_vars PROVE IInv'
  OBVIOUS
<1>1. ASSUME NEW i \in Instances, Poll(i) PROVE IInv'
  BY <1>1, StartKeeps, GetCursorKeeps, LatestCursorKeeps, PaymentsKeeps, HandleKeeps,
     DispatchKeeps, SaveCursorKeeps, ResumeKeeps, VanishKeeps DEF Poll, Exit
<1>2. ASSUME NEW i \in Instances, Work(i) \/ Shutdown(i) \/ Crash(i) PROVE IInv'
  BY <1>2, TakeKeeps, StopKeeps, VanishKeeps DEF Work, Crash
<1>3. CASE UNCHANGED vars
  BY <1>3
  DEF vars, IInv, TypeOK, CursorsHaveLanded, WalkedIsRecorded, HandledIsRecorded, NothingIsSkipped,
      DispatchedIsNew, OfferedIsRecorded, QueueIsRecorded
<1> QED BY <1>1, <1>2, <1>3, LandKeeps DEF Next

LEMMA Inductive == Spec => []IInv
BY InitIInv, StepIInv, PTL DEF Spec

-----------------------------------------------------------------------------
(* Theorems.                                                               *)

\* The variables of the poll keep their types.
THEOREM Typing == Spec => []TypeOK
<1>1. IInv => TypeOK
  BY DEF IInv
<1> QED BY <1>1, Inductive, PTL

\* No deposit is passed over by poll, handle and saveCursor: whatever the saved
\* cursor is past has its row, however many processes save their cursors in
\* whatever order, with failed writes and crashes anywhere.
THEOREM NoDepositIsSkipped == Spec => []NothingIsSkipped
<1>1. IInv => NothingIsSkipped
  BY DEF IInv
<1> QED BY <1>1, Inductive, PTL

\* What dispatch puts on the jobs channel has its row, so that a queue lost with its
\* process is found by the retry worker, and the channel stays within its bound.
THEOREM QueueHoldsRows == Spec => []QueueIsRecorded
<1>1. IInv => QueueIsRecorded
  BY DEF IInv
<1> QED BY <1>1, Inductive, PTL

\* A deposit is put on a queue once, over all processes, replays and restarts.
THEOREM QueuedOnce == Spec => OfferedOnce
<1> DEFINE New(i) == Len(queue'[i]) > Len(queue[i]) => queue'[i][Len(queue'[i])] \notin offered
<1>1. IInv /\ [Next]_vars => [\A i \in Instances : New(i)]_vars
  <2> SUFFICES ASSUME IInv, Next, NEW i \in Instances PROVE New(i)
    OBVIOUS
  <2>1. queue[i] \in Seq(Tokens) /\ Len(queue[i]) \in Nat
    BY DEF IInv, TypeOK
  <2>2. CASE queue'[i] = queue[i]
    BY <2>1, <2>2
  <2>3. ASSUME NEW j \in Instances, dispatch(j), queue'[i] # queue[i] PROVE New(i)
    <3>1. pos[j] + 1 \in Tokens /\ pos[j] + 1 \notin offered
      BY <2>3, AtOperation DEF IInv, DispatchedIsNew, dispatch, OnPage
    <3>2. j = i /\ queue'[i] = Append(queue[i], pos[i] + 1)
      BY <2>3 DEF IInv, TypeOK, dispatch
    <3> QED BY <3>1, <3>2, <2>1, QueueOps
  <2>4. ASSUME NEW j \in Instances, Take(j), queue'[i] # queue[i] PROVE New(i)
    <3>1. queue'[i] = Tail(queue[i]) /\ queue[i] # <<>>
      BY <2>4 DEF IInv, TypeOK, Take
    <3>2. Len(queue'[i]) = Len(queue[i]) - 1
      BY <3>1, <2>1, QueueOps
    <3> QED BY <3>2, <2>1
  <2>5. ASSUME NEW j \in Instances, Vanish(j), queue'[i] # queue[i] PROVE New(i)
    <3>1. Len(queue'[i]) = 0
      BY <2>5 DEF IInv, TypeOK, Vanish
    <3> QED BY <3>1, <2>1
  <2>6. queue' = queue \/ \E j \in Instances : dispatch(j) \/ Take(j) \/ Vanish(j)
    BY DEF Next, Poll, Work, Start, GetCursor, latestCursor, Payments, handle, saveCursor, Resume,
           Exit, Drain, Shutdown, Crash, Land, memory
  <2> HIDE DEF New
  <2> QED BY <2>2, <2>3, <2>4, <2>5, <2>6
<1> QED BY <1>1, Inductive, PTL DEF Spec, OfferedOnce
=============================================================================
