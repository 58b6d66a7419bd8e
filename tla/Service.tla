------------------------------- MODULE Service -------------------------------
(***************************************************************************)
(* The HTTP service, as both programs run it: the limits every request     *)
(* passes (internal/httpx), the deposit API (internal/handler), the        *)
(* submissions the gasless API starts in the background                    *)
(* (internal/gasless/api, internal/lifecycle) and the order in which a     *)
(* process stops (cmd/serve, cmd/gasless).                                 *)
(*                                                                         *)
(* A request is served in its own goroutine and makes one database call    *)
(* at a time; between two calls anything can happen: other requests, the   *)
(* forwarder settling the deposit that is asked about, the shutdown.  What *)
(* the forwarder does to a deposit is the module Forwards, and what        *)
(* becomes of a submission the module Sponsor; here they only go on and    *)
(* end.                                                                    *)
(***************************************************************************)
EXTENDS Integers, FiniteSets

CONSTANTS
  Conns,        \* connections, each with one request at a time
  MaxInflight,  \* LimitInflight's max
  Loads,        \* what callers do: see IsLoad
  Burst, Unit,  \* a bucket's size and a token, in units
  Refill,       \* units a bucket gets back in a tick
  MaxKeys,      \* buckets before idle ones are dropped
  MaxDraws,     \* memo ids CreateIntent draws
  Unknown,      \* a memo id that was never minted
  Wallets, Pools, \* C-addresses, number of pool accounts
  Submissions,  \* submissions in the background at the same time
  None          \* no row, no value

Routes == {"mint", "bind", "status", "submit", "look", "health"}

\* A mix of requests: its routes, its Authorization headers, whether it comes near the
\* rate limit, the memo ids that are drawn for it, the provider orders it names, the
\* payments that arrive, how often the process is told to stop or crashes, and whether
\* it is cmd/serve with transfers to retry.
IsLoad(l) ==
  /\ DOMAIN l = {"routes", "headers", "limited", "memos", "orders", "deposits", "stops", "retries"}
  /\ l.routes \subseteq Routes /\ l.limited \in BOOLEAN /\ l.stops \in Nat /\ l.retries \in BOOLEAN
  /\ Unknown \notin l.memos

ASSUME ServiceIsRight ==
  /\ Conns # {} /\ MaxInflight \in Nat \ {0}
  /\ Unit \in Nat \ {0} /\ Burst \in Nat /\ Burst % Unit = 0 /\ Refill \in Nat \ {0}
  /\ MaxKeys \in Nat /\ MaxDraws \in Nat \ {0} /\ Pools \in Nat \ {0}
  /\ \A l \in Loads : IsLoad(l)

\* A row of intents, and of forwards.
Intent(l) == [wallet : Wallets, pool : 1 .. Pools, order : l.orders \cup {None},
              status : {"pending", "completed", "failed", "expired"}]
Forward(l) == [memo : l.memos \cup {None}, status : {None, "pending", "done", "failed"}]

ASSUME NoneIsNothing ==
  /\ None \notin Submissions \cup Routes \cup {"pending", "done", "failed"}
  /\ \A l \in Loads : None \notin Intent(l)

VARIABLES
  load,     \* the mix of this behaviour
  phase,    \* how far the shutdown has come
  late,     \* the shutdown deadline has passed
  workers,  \* what the background workers do
  stops,    \* stops and crashes so far
  buckets,  \* RateLimiter.buckets: units left at the last call, ticks since
  owed,     \* what each bucket would hold had it never been dropped
  req,      \* the request of each connection
  run,      \* submissions running on the tracker
  recording, \* those in the last writes, which no context ends
  nextPool, \* the round robin over the pools
  intents,  \* rows of intents by memo
  fwd,      \* rows of forwards
  lost,     \* memos one of whose forwards could not be updated
  told      \* what callers have been told of each memo

process == <<phase, late, workers, stops, recording>>
limiter == <<buckets, owed>>
tables == <<intents, fwd, lost>>
vars == <<load, process, limiter, req, run, nextPool, tables, told>>

Idle == [pc |-> "idle", kind |-> None, memo |-> None, wallet |-> None, order |-> None,
         pool |-> 0, draws |-> 0, status |-> None, forwards |-> {}, sub |-> None]

NoForward == [memo |-> None, status |-> None]
NotTold == [wallet |-> None, pool |-> 0, order |-> None]

Init ==
  /\ load \in Loads
  /\ phase = "up" /\ late = FALSE /\ workers = "idle" /\ stops = 0 /\ recording = {}
  /\ buckets = <<>>
  /\ owed = [h \in load.headers |-> Burst]
  /\ req = [c \in Conns |-> Idle]
  /\ run = {}
  /\ nextPool = 0
  /\ intents = [m \in load.memos |-> None]
  /\ fwd = [d \in load.deposits |-> NoForward]
  /\ lost = {}
  /\ told = [m \in load.memos |-> NotTold]

Set(c, r) == req' = [req EXCEPT ![c] = r]
Goto(c, pc) == Set(c, [req[c] EXCEPT !.pc = pc])
Answer(c) == Set(c, Idle)

\* The database pool is not closing: it hands out connections.  A call that gets none
\* fails, and Respond is what follows.
PoolOpen == phase # "releasing"

-----------------------------------------------------------------------------
(* LimitInflight and RateLimiter.                                          *)

\* /health, which stands for /metrics as well.
exempt(kind) == kind = "health"

Inflight == {c \in Conns : req[c].pc # "idle" /\ ~exempt(req[c].kind)}

Draining == phase # "up"

Level(b) == IF b.tokens + b.age * Refill < Burst THEN b.tokens + b.age * Refill ELSE Burst

\* Mutant: drops every bucket that nobody used this tick.
DropUnused(bs) == [h \in {k \in DOMAIN bs : bs[k].age = 0} |-> bs[h]]

\* Drops the buckets that have refilled.
evictIdle(bs) == [h \in {k \in DOMAIN bs : bs[k].age * Refill <= Burst} |-> bs[h]]

\* The buckets with one for the key.
WithBucket(h) ==
  IF h \in DOMAIN buckets THEN buckets
  ELSE LET bs == [k \in DOMAIN buckets \cup {h} |->
                    IF k = h THEN [tokens |-> Burst, age |-> 0] ELSE buckets[k]]
       IN  IF Cardinality(DOMAIN bs) > MaxKeys THEN evictIdle(bs) ELSE bs

Granted(h) == Level(WithBucket(h)[h]) >= Unit

\* One call: a refused one brings the bucket up to date as well.
Allow(h) ==
  /\ buckets' = [WithBucket(h) EXCEPT
                   ![h] = [tokens |-> Level(@) - IF Granted(h) THEN Unit ELSE 0, age |-> 0]]
  /\ owed' = [owed EXCEPT ![h] = IF Granted(h) THEN @ - Unit ELSE @]

-----------------------------------------------------------------------------
(* A request comes in.                                                     *)

\* The Authorization headers that hold the key.  One key has several spellings.
Accepted == load.headers

\* pickPool.
PickPool == nextPool' = (nextPool + 1) % Pools

\* What a request asks for, with its first step.
Asked(c, kind) ==
  \/ /\ kind = "mint"
     /\ \E w \in Wallets, o \in load.orders \cup {None} :
          Set(c, [Idle EXCEPT !.pc = "insert", !.kind = kind, !.wallet = w, !.order = o,
                              !.pool = nextPool + 1])
     /\ PickPool
  \/ /\ kind = "bind"
     /\ \E o \in load.orders, m \in {n \in load.memos : told[n] # NotTold} \cup {Unknown} :
          Set(c, [Idle EXCEPT !.pc = "update", !.kind = kind, !.memo = m, !.order = o])
     /\ UNCHANGED nextPool
  \/ /\ kind = "status"
     /\ \E m \in {n \in load.memos : told[n] # NotTold} \cup {Unknown} :
          Set(c, [Idle EXCEPT !.pc = "read", !.kind = kind, !.memo = m])
     /\ UNCHANGED nextPool
  \/ /\ kind \in {"submit", "look"}
     /\ Set(c, [Idle EXCEPT !.pc = IF kind = "submit" THEN "prepare" ELSE "get",
                            !.kind = kind])
     /\ UNCHANGED nextPool

\* A request with an accepted key, under the cap and before the drain; others are
\* refused and change nothing.  The listener is open until Shutdown.
Request(c) ==
  /\ req[c].pc = "idle"
  /\ ~Draining
  /\ Cardinality(Inflight) < MaxInflight
  /\ \E kind \in load.routes \ {"health"}, h \in Accepted :
       \/ ~load.limited /\ Asked(c, kind) /\ UNCHANGED limiter
       \/ load.limited /\ Granted(h) /\ Allow(h) /\ Asked(c, kind)
       \/ load.limited /\ ~Granted(h) /\ Allow(h) /\ UNCHANGED <<req, nextPool>>
  /\ UNCHANGED <<load, process, run, tables, told>>

\* A probe passes the limits, the drain and the key.  Its ping gives up after 3 seconds.
Health(c) ==
  /\ req[c].pc = "idle"
  /\ phase \in {"up", "signalled"}
  /\ "health" \in load.routes
  /\ Set(c, [Idle EXCEPT !.pc = "answer", !.kind = "health"])
  /\ UNCHANGED <<load, process, limiter, run, nextPool, tables, told>>

\* An answer that changes nothing, or the failure of a call: 4xx, 5xx, the caller gone.
Respond(c) ==
  /\ req[c].pc # "idle"
  /\ Answer(c)
  /\ UNCHANGED <<load, process, limiter, run, nextPool, tables, told>>

-----------------------------------------------------------------------------
(* The deposit API.                                                        *)

NewIntent(r) == [wallet |-> r.wallet, pool |-> r.pool, order |-> r.order, status |-> "pending"]

\* ON CONFLICT (memo_id) DO NOTHING.
Free(m) == intents[m] = None

\* The answer reaches the caller, or not.
Tell(m, t) == told' \in {told, [told EXCEPT ![m] = t]}

\* CreateIntent: a memo is drawn until one is free.
CreateIntent(c) ==
  /\ req[c].pc = "insert"
  /\ \E m \in load.memos :
       \/ /\ Free(m)
          /\ intents' = [intents EXCEPT ![m] = NewIntent(req[c])]
          /\ Answer(c)
          /\ Tell(m, [wallet |-> req[c].wallet, pool |-> req[c].pool, order |-> req[c].order])
       \/ /\ ~Free(m)
          /\ req[c].draws < MaxDraws - 1 /\ PoolOpen
          /\ Set(c, [req[c] EXCEPT !.draws = @ + 1])
          /\ UNCHANGED <<intents, told>>
       \/ /\ ~Free(m)
          /\ req[c].draws = MaxDraws - 1
          /\ Answer(c)
          /\ UNCHANGED <<intents, told>>
  /\ UNCHANGED <<load, process, limiter, run, nextPool, fwd, lost>>

\* Mutant: WHERE memo_id = $2.
Rebinds(m, order) == m \in load.memos /\ intents[m] # None

\* WHERE memo_id = $2 AND (external_id IS NULL OR external_id = $1).
Binds(m, order) == m \in load.memos /\ intents[m] # None /\ intents[m].order \in {None, order}

\* SetIntentExternalID: the UPDATE.
SetExternalID(c) ==
  LET m == req[c].memo
      o == req[c].order
  IN  /\ req[c].pc = "update"
      /\ \/ /\ Binds(m, o)
            /\ intents' = [intents EXCEPT ![m].order = o]
            /\ Answer(c)
            /\ Tell(m, [told[m] EXCEPT !.order = o])
         \/ /\ ~Binds(m, o) /\ PoolOpen
            /\ Goto(c, "why")
            /\ UNCHANGED <<intents, told>>
      /\ UNCHANGED <<load, process, limiter, run, nextPool, fwd, lost>>

\* The SELECT that tells 404 from 409.
WhyNotSet(c) ==
  /\ req[c].pc = "why"
  /\ IF req[c].memo \in load.memos THEN Goto(c, "conflict") ELSE Answer(c)
  /\ UNCHANGED <<load, process, limiter, run, nextPool, tables, told>>

\* Mutant: the forwards are read first.
ForwardsFirst == <<"forwards", "intent">>

\* The queries of DepositStatus in their order.
Queries == <<"intent", "forwards">>

\* The row a query reads, into the answer.
Read(r, query) ==
  IF query = "intent" THEN [r EXCEPT !.status = intents[r.memo].status]
  ELSE [r EXCEPT !.forwards = {fwd[d].status : d \in {e \in DOMAIN fwd : fwd[e].memo = r.memo}}]

\* DepositStatus: the intent, then its forwards.
DepositStatus(c) ==
  /\ \/ /\ req[c].pc = "read" /\ PoolOpen
        /\ IF req[c].memo \in load.memos THEN Set(c, [Read(req[c], Queries[1]) EXCEPT !.pc = "readmore"])
           ELSE Answer(c)
     \/ /\ req[c].pc = "readmore"
        /\ Set(c, [Read(req[c], Queries[2]) EXCEPT !.pc = "answer"])
  /\ UNCHANGED <<load, process, limiter, run, nextPool, tables, told>>

-----------------------------------------------------------------------------
(* The forwarder and the retry worker on the same tables.                  *)

\* InsertForward by the watcher.
RecordDeposit(d) ==
  /\ fwd[d].status = None
  /\ \E m \in load.memos :
       /\ intents[m] # None
       /\ fwd' = [fwd EXCEPT ![d] = [memo |-> m, status |-> "pending"]]
  /\ UNCHANGED <<intents, lost>>

\* The forward that lets its intent be closed with a status.
Settled(m, status) ==
  m \in lost \/ \E d \in DOMAIN fwd : fwd[d] = [memo |-> m, status |-> status]

\* MarkForwardDone or PermanentlyFail, whose error is ignored.
MarkForward(d) ==
  /\ fwd[d].status = "pending"
  /\ \/ \E s \in {"done", "failed"} : fwd' = [fwd EXCEPT ![d].status = s] /\ UNCHANGED lost
     \/ lost' = lost \cup {fwd[d].memo} /\ UNCHANGED fwd
  /\ UNCHANGED intents

\* CompleteIntent, FailIntent and ExpireStaleIntents.
CloseIntent(m) ==
  /\ intents[m] # None
  /\ \/ /\ Settled(m, "done") /\ intents[m].status \in {"pending", "expired"}
        /\ intents' = [intents EXCEPT ![m].status = "completed"]
     \/ /\ Settled(m, "failed") /\ intents[m].status = "pending"
        /\ intents' = [intents EXCEPT ![m].status = "failed"]
     \/ /\ intents[m].status = "pending"
        /\ intents' = [intents EXCEPT ![m].status = "expired"]
  /\ UNCHANGED <<fwd, lost>>

Forwarder ==
  /\ (\E d \in DOMAIN fwd : RecordDeposit(d) \/ MarkForward(d)) \/ (\E m \in load.memos : CloseIntent(m))
  /\ UNCHANGED <<load, process, limiter, req, run, nextPool, told>>

-----------------------------------------------------------------------------
(* Submissions in the background.                                          *)

\* Prepare has succeeded for a new request: its Run is handed to the tracker.
Submit(c) ==
  /\ req[c].pc = "prepare"
  /\ \E s \in Submissions \ run :
       /\ run' = run \cup {s}
       /\ Set(c, [req[c] EXCEPT !.pc = "wait", !.sub = s])
  /\ UNCHANGED <<load, process, limiter, nextPool, tables, told>>

\* Run comes to its last writes, Release and Finish, which run on
\* context.WithoutCancel: whatever it was waiting for has come or was cancelled.
Record(s) ==
  /\ s \in run \ recording /\ PoolOpen
  /\ recording' = recording \cup {s}
  /\ UNCHANGED <<load, phase, late, workers, stops, limiter, req, run, nextPool, tables, told>>

\* Run returns, its writes done or refused by a closing pool; the handler that still
\* waits for it has its answer.
RunEnds(s) ==
  /\ s \in run /\ (s \in recording \/ ~PoolOpen)
  /\ run' = run \ {s} /\ recording' = recording \ {s}
  /\ req' = [c \in Conns |-> IF req[c].sub = s THEN [req[c] EXCEPT !.pc = "answer", !.sub = None]
                             ELSE req[c]]
  /\ UNCHANGED <<load, phase, late, workers, stops, limiter, nextPool, tables, told>>

\* The retry worker of cmd/serve submits its transfers itself, on the context the
\* signal cancels: one under way is cut short there.  The channel it leased is given
\* back on context.WithoutCancel.
Retry ==
  /\ \/ workers = "idle" /\ load.retries /\ phase = "up" /\ workers' = "transfer"
     \/ workers = "transfer" /\ PoolOpen /\ workers' = "release"
     \/ workers \in {"transfer", "release"} /\ workers' = "idle"
  /\ UNCHANGED <<load, phase, late, stops, recording, limiter, req, run, nextPool, tables, told>>

-----------------------------------------------------------------------------
(* The process stops.                                                      *)

\* A signal, or the listener failing: requests are refused and the context of the
\* background workers is cancelled.
Signal ==
  /\ phase = "up" /\ stops < load.stops
  /\ phase' = "signalled" /\ stops' = stops + 1
  /\ UNCHANGED <<load, late, workers, recording, limiter, req, run, nextPool, tables, told>>

Deadline ==
  /\ phase \notin {"up", "down"} /\ ~late
  /\ late' = TRUE
  /\ UNCHANGED <<load, phase, workers, stops, recording, limiter, req, run, nextPool, tables, told>>

\* The workers see that their context is cancelled.
WorkersStop ==
  /\ phase \notin {"up", "down"} /\ workers = "idle"
  /\ workers' = "gone"
  /\ UNCHANGED <<load, phase, late, stops, recording, limiter, req, run, nextPool, tables, told>>

\* Mutant: closes the listener and does not wait.
NoWait == TRUE

\* Shutdown returns: no connection is active, or the deadline has passed.
ShutdownReturns == late \/ \A c \in Conns : req[c].pc = "idle"

\* Mutant: waits for the work however long it takes.
WaitOnly(p) == p = "draining" /\ run = {}

\* Drain cancels the tracker's context: the work is done, or the deadline has passed.
Cancels(p) == p = "draining" /\ (run = {} \/ late)

\* The main goroutine's next step.
Stop ==
  /\ \/ phase = "signalled" /\ phase' = "closing"
     \/ phase = "closing" /\ ShutdownReturns /\ phase' = "draining"
     \/ Cancels(phase) /\ phase' = "cancelled"
     \/ phase = "cancelled" /\ run = {} /\ phase' = "stopping"
  /\ UNCHANGED <<load, late, workers, stops, recording, limiter, req, run, nextPool, tables, told>>

\* main returns and its deferred pool.Close begins: the workers are gone, or the
\* deadline has passed.
Exit ==
  /\ phase = "stopping" /\ (workers = "gone" \/ late)
  /\ phase' = "releasing"
  /\ UNCHANGED <<load, late, workers, stops, recording, limiter, req, run, nextPool, tables, told>>

\* Someone has a database connection and no timeout on what he does with it: a request
\* in a call (its context ends with the caller, not with Shutdown), a submission or the
\* retry worker in a write that nothing cancels.
Holding ==
  \/ \E c \in Conns : req[c].pc \in {"insert", "update", "why", "read", "readmore", "get", "prepare"}
  \/ recording # {}
  \/ workers = "release"

\* Whatever was going on is gone with the process.
Gone ==
  /\ phase' = "down" /\ late' = FALSE /\ workers' = "gone" /\ recording' = {}
  /\ req' = [c \in Conns |-> Idle]
  /\ run' = {}
  /\ UNCHANGED <<load, limiter, nextPool, tables, told>>

\* pool.Close returns when every connection has been given back.
PoolCloses == phase = "releasing" /\ ~Holding /\ Gone /\ UNCHANGED stops

Crash == phase # "down" /\ stops < load.stops /\ Gone /\ stops' = stops + 1

\* A new process: the buckets and the round robin start again.
Restart ==
  /\ phase = "down"
  /\ phase' = "up" /\ workers' = "idle"
  /\ buckets' = <<>>
  /\ owed' = [h \in load.headers |-> Burst]
  /\ nextPool' = 0
  /\ UNCHANGED <<load, late, stops, recording, req, run, tables, told>>

\* Ticks a bucket remembers: one more than it takes to refill.
MaxAge == Burst \div Refill + 1

Tick ==
  /\ load.limited
  /\ buckets' = [h \in DOMAIN buckets |->
                   [buckets[h] EXCEPT !.age = IF @ < MaxAge THEN @ + 1 ELSE @]]
  /\ owed' = [h \in load.headers |-> Level([tokens |-> owed[h], age |-> 1])]
  /\ UNCHANGED <<load, process, req, run, nextPool, tables, told>>

-----------------------------------------------------------------------------
Serve(c) ==
  \/ Request(c) \/ Health(c) \/ Respond(c)
  \/ CreateIntent(c) \/ SetExternalID(c) \/ WhyNotSet(c) \/ DepositStatus(c) \/ Submit(c)

Next ==
  \/ \E c \in Conns : Serve(c)
  \/ \E s \in Submissions : Record(s) \/ RunEnds(s)
  \/ Forwarder \/ Retry
  \/ Signal \/ Deadline \/ WorkersStop \/ Stop \/ Exit \/ PoolCloses \/ Crash \/ Restart \/ Tick

Spec == Init /\ [][Next]_vars

\* Time passes, the main goroutine goes on, and a cancelled submission comes to its last
\* writes.  Requests, workers, submissions that were not cancelled, and database calls
\* without a timeout, those writes among them, may take for ever.
Fairness ==
  /\ WF_vars(Deadline) /\ WF_vars(Stop) /\ WF_vars(Exit) /\ WF_vars(PoolCloses)
  /\ \A s \in Submissions : WF_vars(phase = "cancelled" /\ Record(s))

FairSpec == Spec /\ Fairness

-----------------------------------------------------------------------------
(* Properties.                                                             *)

\* Every variable has its type.
TypeOK ==
  /\ load \in Loads
  /\ phase \in {"up", "signalled", "closing", "draining", "cancelled", "stopping", "releasing",
               "down"}
  /\ late \in BOOLEAN /\ workers \in {"idle", "transfer", "release", "gone"}
  /\ stops \in 0 .. load.stops /\ recording \subseteq Submissions
  /\ DOMAIN buckets \subseteq load.headers
  /\ \A h \in DOMAIN buckets : buckets[h] \in [tokens : 0 .. Burst, age : 0 .. MaxAge]
  /\ run \subseteq Submissions /\ nextPool \in 0 .. Pools - 1 /\ lost \subseteq load.memos

\* "They carry no state a fresh bucket wouldn't": dropping idle buckets and making
\* them anew never gives a caller more, or fewer, requests than the bucket it would
\* have had if none were ever dropped.
RateIsKept ==
  \A h \in load.headers :
    owed[h] = IF h \in DOMAIN buckets THEN Level(buckets[h]) ELSE Burst

\* An answer of DepositStatus is consistent although its two queries are not one
\* transaction: an intent shown completed or failed comes with a forward that is,
\* unless the write that closes the forward was lost.
AnswerIsCoherent ==
  \A c \in Conns :
    LET r == req[c]
    IN  r.kind = "status" /\ r.pc = "answer" =>
          /\ r.status = "completed" => "done" \in r.forwards \/ r.memo \in lost
          /\ r.status = "failed" => "failed" \in r.forwards \/ r.memo \in lost

\* What a caller was told of an intent stays so: the wallet and the pool its
\* memo pays into, and the order it is bound to; and a caller is told of a
\* conflict only when the intent is bound to another order ("re-binding to a
\* different order is refused rather than overwritten ... setting the same ID
\* twice succeeds").
BindingIsKept ==
  /\ \A m \in load.memos :
       told[m] # NotTold =>
         /\ intents[m].wallet = told[m].wallet /\ intents[m].pool = told[m].pool
         /\ told[m].order # None => intents[m].order = told[m].order
  /\ \A c \in Conns :
       req[c].pc = "conflict" => intents[req[c].memo].order \notin {None, req[c].order}

\* "A transaction already submitted to the network is followed to completion": before
\* the deadline the drain cancels the context of the tracker's work only when no
\* submission runs and no request is left that could start one.  This is said of the
\* tracker alone: a transfer of the retry worker is not on it.
WorkIsSpared ==
  phase \in {"cancelled", "stopping", "releasing"} /\ ~late =>
    run = {} /\ \A c \in Conns : req[c].pc = "idle"

\* A process told to stop does, however long its requests, workers and submissions
\* would take otherwise, unless a database call without a timeout never returns: the
\* deadline does not bound the last writes of a submission, for which Drain waits, nor
\* pool.Close.
ServiceStops == phase = "signalled" ~> (phase = "down" \/ []Holding)
=============================================================================
