------------------------------- MODULE Watcher -------------------------------
(***************************************************************************)
(* How a deposit that lands on a pool account comes to be recorded: the    *)
(* poll loop of internal/service/watcher/watcher.go, its saved cursor, its *)
(* bounded queue and the workers that drain it, for one pool watched by    *)
(* one or more serve processes on one database.                            *)
(*                                                                         *)
(* A paging token is the position of an operation in Horizon's list for    *)
(* the pool.  Horizon lists operations in order and without gaps, so the   *)
(* rest of a page is the range from the poll's position to its end.  What  *)
(* the forwarder does with a deposit it is handed is the module Forwards.  *)
(***************************************************************************)
EXTENDS Integers, Sequences

CONSTANTS
  Instances,     \* serve processes that watch the pool
  NumOps,        \* operations that ever touch the pool
  Ops,           \* each of them: its transaction, id, operation count and kind
  SavedAtFirst,  \* what the cursors row can hold at the start: NoCursor, 0
  PageSize,      \* pageSize
  ForwardQueue,  \* forwardQueue
  MaxFaults      \* bound: failed calls, shutdowns and crashes of a behaviour

Tokens == 1 .. NumOps

\* The empty cursor.
NoCursor == -1

\* payment: a payment into the pool with its transaction embedded; other: what
\* handle passes over.
Operation == [tx : Nat, id : Nat, count : Nat \ {0}, kind : {"payment", "other"}]

ASSUME BoundsAreNaturals ==
  /\ NumOps \in Nat /\ PageSize \in Nat \ {0} /\ ForwardQueue \in Nat \ {0}
  /\ MaxFaults \in Nat
  /\ SavedAtFirst \subseteq {NoCursor, 0}

\* Mutant: payments are keyed by their transaction alone.
KeyByHash(op) == <<op.tx>>

\* The transaction hash, with the position of the operation, which is the low 12
\* bits of its id, when the transaction has more than one.
depositKey(op) == IF op.count = 1 THEN <<op.tx>> ELSE <<op.tx, op.id % 4096>>

\* Two payments are the same operation of the same transaction, or differ in one
\* of the two; only a transaction's count is shared.
ASSUME OpsAreOperations ==
  /\ Ops \in [Tokens -> Operation]
  /\ \A t, u \in Tokens :
       Ops[t].tx = Ops[u].tx =>
         /\ Ops[t].count = Ops[u].count
         /\ Ops[t].id % 4096 = Ops[u].id % 4096 => t = u
         /\ Ops[t].count = 1 => t = u

IsDeposit(t) == Ops[t].kind = "payment"

VARIABLES
  landed,   \* operations Horizon shows
  saved,    \* the cursors row of the pool
  rows,     \* operations that have a row of their own in the forwards table
  offered,  \* operations that were ever put on a queue
  base,     \* where the last poll without a saved cursor started
  poll,     \* what the poll loop of each process is doing
  pos,      \* its cursor variable
  upto,     \* last token of its page
  queue,    \* its jobs channel
  intake,   \* its context is not cancelled
  serving,  \* its workers have not all returned
  faults    \* failed calls, shutdowns and crashes so far

memory == <<poll, pos, upto, queue, intake, serving>>
vars == <<landed, saved, rows, offered, base, poll, pos, upto, queue, intake,
          serving, faults>>

-----------------------------------------------------------------------------
(* State.                                                                  *)

Steps == {"off", "cursor", "latest", "fetch", "handle", "dispatch", "save", "wait",
          "stopped"}

Init ==
  /\ landed \in 0 .. NumOps
  /\ saved \in SavedAtFirst
  /\ rows = {}
  /\ offered = {}
  /\ base = saved
  /\ poll = [i \in Instances |-> "off"]
  /\ pos = [i \in Instances |-> 0]
  /\ upto = [i \in Instances |-> 0]
  /\ queue = [i \in Instances |-> <<>>]
  /\ intake = [i \in Instances |-> FALSE]
  /\ serving = [i \in Instances |-> FALSE]
  /\ faults = 0

Goto(i, step) == poll' = [poll EXCEPT ![i] = step]

Fault == faults < MaxFaults /\ faults' = faults + 1

\* A store call fails when the database does, and always once the context it is
\* made with has been cancelled.
CallFails(i) == IF intake[i] THEN Fault ELSE UNCHANGED faults

CallReturns(i) == intake[i] /\ UNCHANGED faults

-----------------------------------------------------------------------------
(* The poll loop.                                                          *)

\* The process starts its workers and its poll.
Start(i) ==
  /\ poll[i] = "off"
  /\ Goto(i, "cursor")
  /\ intake' = [intake EXCEPT ![i] = TRUE]
  /\ serving' = [serving EXCEPT ![i] = TRUE]
  /\ UNCHANGED <<landed, saved, rows, offered, base, pos, upto, queue, faults>>

GetCursor(i) ==
  /\ poll[i] = "cursor"
  /\ \/ /\ CallFails(i)
        /\ Goto(i, "wait")
        /\ UNCHANGED pos
     \/ /\ CallReturns(i)
        /\ Goto(i, IF saved = NoCursor THEN "latest" ELSE "fetch")
        /\ pos' = [pos EXCEPT ![i] = IF saved = NoCursor THEN @ ELSE saved]
  /\ UNCHANGED <<landed, saved, rows, offered, base, upto, queue, intake, serving>>

\* Without a saved cursor the poll starts at the latest payment, or at "0".
latestCursor(i) ==
  /\ poll[i] = "latest"
  /\ \/ /\ Fault
        /\ Goto(i, "wait")
        /\ UNCHANGED <<pos, base>>
     \/ /\ UNCHANGED faults
        /\ Goto(i, "fetch")
        /\ pos' = [pos EXCEPT ![i] = landed]
        /\ base' = landed
  /\ UNCHANGED <<landed, saved, rows, offered, upto, queue, intake, serving>>

Least(a, b) == IF a <= b THEN a ELSE b

\* The next page.  After one that was not full the poll waits pollGap, and ends
\* there once intake has stopped.
Payments(i) ==
  /\ poll[i] = "fetch"
  /\ \/ /\ Fault
        /\ Goto(i, "wait")
        /\ UNCHANGED upto
     \/ /\ landed > pos[i]
        /\ Goto(i, "handle")
        /\ upto' = [upto EXCEPT ![i] = Least(pos[i] + PageSize, landed)]
        /\ UNCHANGED faults
     \/ /\ ~intake[i]
        /\ Goto(i, "stopped")
        /\ UNCHANGED <<upto, faults>>
  /\ UNCHANGED <<landed, saved, rows, offered, base, pos, queue, intake, serving>>

\* Mutant: a deposit that could not be recorded is logged and passed over.
PassOver == "save"

\* A deposit that could not be recorded stops the poll.
StopPoll == "wait"

\* Mutant: a deposit that is in the table already is dispatched as well.
NextIfKnown == "dispatch"

\* A deposit that is in the table already is left to whoever has it.
SkipIfKnown == "save"

\* The deposit key is the primary key of the table.
Conflict(t) == \E u \in rows : depositKey(Ops[u]) = depositKey(Ops[t])

\* INSERT ... ON CONFLICT DO NOTHING.
InsertForward(t) == IF Conflict(t) THEN rows ELSE rows \cup {t}

\* handle, up to the reply of InsertForward.
handle(i) ==
  LET t == pos[i] + 1 IN
  /\ poll[i] = "handle"
  /\ \/ /\ ~IsDeposit(t)
        /\ Goto(i, "save")
        /\ UNCHANGED <<rows, faults>>
     \/ /\ IsDeposit(t)
        /\ CallFails(i)
        /\ rows' \in {rows, InsertForward(t)}
        /\ Goto(i, StopPoll)
     \/ /\ IsDeposit(t)
        /\ CallReturns(i)
        /\ rows' = InsertForward(t)
        /\ Goto(i, IF Conflict(t) THEN SkipIfKnown ELSE "dispatch")
  /\ UNCHANGED <<landed, saved, offered, base, pos, upto, queue, intake, serving>>

\* Mutant: a full queue does not block.
Unbounded(i) == TRUE

HasRoom(i) == Len(queue[i]) < ForwardQueue

\* Queue the deposit, blocking while the queue is full, until intake stops: then
\* the cursor is not saved.
dispatch(i) ==
  LET t == pos[i] + 1 IN
  /\ poll[i] = "dispatch"
  /\ \/ /\ HasRoom(i)
        /\ queue' = [queue EXCEPT ![i] = Append(@, t)]
        /\ offered' = offered \cup {t}
        /\ Goto(i, "save")
     \/ /\ ~intake[i]
        /\ Goto(i, "stopped")
        /\ UNCHANGED <<queue, offered>>
  /\ UNCHANGED <<landed, saved, rows, base, pos, upto, intake, serving, faults>>

\* The cursor saved is the token of the operation just handled.
PagingToken(i) == pos[i] + 1

\* saveCursor only logs a failure; the poll moves on either way.
saveCursor(i) ==
  LET t == PagingToken(i) IN
  /\ poll[i] = "save"
  /\ \/ CallReturns(i) /\ saved' = t
     \/ CallFails(i) /\ saved' \in {saved, t}
  /\ pos' = [pos EXCEPT ![i] = @ + 1]
  /\ Goto(i, IF ~intake[i] THEN "stopped"
             ELSE IF pos[i] + 1 < upto[i] THEN "handle" ELSE "fetch")
  /\ UNCHANGED <<landed, rows, offered, base, upto, queue, intake, serving>>

\* Run waits five seconds after an error and polls again, unless it is stopped.
Resume(i) ==
  /\ poll[i] = "wait"
  /\ Goto(i, IF intake[i] THEN "cursor" ELSE "stopped")
  /\ pos' = [pos EXCEPT ![i] = 0]
  /\ upto' = [upto EXCEPT ![i] = 0]
  /\ UNCHANGED <<landed, saved, rows, offered, base, queue, intake, serving, faults>>

-----------------------------------------------------------------------------
(* The workers, the shutdown, crashes and the network.                     *)

\* Mutant: a worker stops taking jobs at the signal.
TakesUntilSignal(i) == serving[i] /\ intake[i]

\* A worker takes jobs also while the queue is drained after a signal.
Takes(i) == serving[i]

Take(i) ==
  /\ Takes(i)
  /\ queue[i] # <<>>
  /\ queue' = [queue EXCEPT ![i] = Tail(@)]
  /\ UNCHANGED <<landed, saved, rows, offered, base, poll, pos, upto, intake, serving,
                 faults>>

\* With intake stopped and the queue empty the last worker returns.
Drain(i) ==
  /\ serving[i] /\ ~intake[i]
  /\ queue[i] = <<>>
  /\ serving' = [serving EXCEPT ![i] = FALSE]
  /\ UNCHANGED <<landed, saved, rows, offered, base, poll, pos, upto, queue,
                 intake, faults>>

\* The shutdown signal cancels the poll's context, not the workers'.
Shutdown(i) ==
  /\ poll[i] # "off" /\ intake[i]
  /\ Fault
  /\ intake' = [intake EXCEPT ![i] = FALSE]
  /\ UNCHANGED <<landed, saved, rows, offered, base, poll, pos, upto, queue, serving>>

\* What is in the memory of a process is gone with it.
Vanish(i) ==
  /\ Goto(i, "off")
  /\ queue' = [queue EXCEPT ![i] = <<>>]
  /\ intake' = [intake EXCEPT ![i] = FALSE]
  /\ serving' = [serving EXCEPT ![i] = FALSE]
  /\ pos' = [pos EXCEPT ![i] = 0]
  /\ upto' = [upto EXCEPT ![i] = 0]
  /\ UNCHANGED <<landed, saved, rows, offered, base>>

\* The process ends once its poll and its workers have.
Exit(i) ==
  /\ poll[i] = "stopped" /\ ~serving[i]
  /\ Vanish(i)
  /\ UNCHANGED faults

\* It dies, or the drain deadline passes first.
Crash(i) ==
  /\ poll[i] # "off"
  /\ Vanish(i)
  /\ Fault

\* A ledger closes with one more operation on the pool.
Land ==
  /\ landed < NumOps
  /\ landed' = landed + 1
  /\ UNCHANGED <<saved, rows, offered, base, memory, faults>>

-----------------------------------------------------------------------------
(* Specification.                                                          *)

Poll(i) ==
  \/ Start(i) \/ GetCursor(i) \/ latestCursor(i) \/ Payments(i)
  \/ handle(i) \/ dispatch(i) \/ saveCursor(i) \/ Resume(i) \/ Exit(i)

Work(i) == Take(i) \/ Drain(i)

Next ==
  \/ \E i \in Instances : Poll(i) \/ Work(i) \/ Shutdown(i) \/ Crash(i)
  \/ Land

Spec == Init /\ [][Next]_vars

\* The poll and the workers of a process run; a process that ended is started
\* again.  Nothing is assumed of signals, crashes and failed calls.
FairSpec == Spec /\ \A i \in Instances : WF_vars(Poll(i)) /\ WF_vars(Work(i))

-----------------------------------------------------------------------------
(* Properties.                                                             *)

\* Every variable has its type.
TypeOK ==
  /\ landed \in 0 .. NumOps
  /\ saved \in {NoCursor} \cup 0 .. NumOps
  /\ rows \subseteq Tokens
  /\ offered \subseteq Tokens
  /\ base \in {NoCursor} \cup 0 .. NumOps
  /\ poll \in [Instances -> Steps]
  /\ pos \in [Instances -> 0 .. NumOps]
  /\ upto \in [Instances -> 0 .. NumOps]
  /\ queue \in [Instances -> Seq(Tokens)]
  /\ intake \in [Instances -> BOOLEAN]
  /\ serving \in [Instances -> BOOLEAN]
  /\ faults \in 0 .. MaxFaults

\* Every deposit the saved cursor is past, from where the poll began, is in the
\* table: "a deposit that can't be recorded must not have the cursor saved past
\* it, or it is never seen again".  A process that saves an older cursor than
\* another does, a failed save and a crash anywhere keep it so.
NothingIsSkipped ==
  \A t \in Tokens : IsDeposit(t) /\ base < t /\ t <= saved => t \in rows

\* The in-memory queue "only ever holds deposits that are already in the table",
\* so that one lost with its process is found by the retry worker; and it stays
\* within its bound.
QueueIsRecorded ==
  \A i \in Instances :
    /\ \A n \in DOMAIN queue[i] : queue[i][n] \in rows
    /\ Len(queue[i]) <= ForwardQueue

\* A deposit is handed to the workers at most once in its life, over replays
\* after restarts and over all processes that poll the pool.
OfferedOnce ==
  [][\A i \in Instances :
       Len(queue'[i]) > Len(queue[i]) => queue'[i][Len(queue'[i])] \notin offered]_vars

\* Every deposit of the pool is recorded in the end, whatever failed on the way:
\* again and again there is none that has landed and is not.
EveryDepositIsRecorded ==
  []<>(\A t \in Tokens : IsDeposit(t) /\ base < t /\ t <= landed => t \in rows)

\* A deposit on the queue of a process reaches a worker, or the process ends: the
\* queue is emptied, also by a process that is shutting down.
QueuedIsTaken == \A i \in Instances : queue[i] # <<>> ~> queue[i] = <<>>
=============================================================================
