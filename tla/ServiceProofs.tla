---------------------------- MODULE ServiceProofs ----------------------------
(***************************************************************************)
(* Theorems about Service, for any number of connections, keys, memos,     *)
(* orders, payments and submissions and any limits: dropping idle buckets  *)
(* changes no caller's allowance, what a caller was told of an intent      *)
(* stays so, an answer put together from two queries is coherent, and the  *)
(* shutdown cancels no work of the tracker before its deadline.            *)
(*                                                                         *)
(* The argument keeps apart what a step does to the rows and what it does  *)
(* to the request that takes it.  Rows only grow: an intent stays, its     *)
(* wallet, its pool and its order stay, a settled forward stays settled.   *)
(* So what another request has learnt from a row between two of its calls  *)
(* still holds at the next one, whoever else ran meanwhile.                *)
(***************************************************************************)
EXTENDS Service, TLAPS

-----------------------------------------------------------------------------
(* The inductive invariant.                                                *)

Phases == {"up", "signalled", "closing", "draining", "cancelled", "stopping", "releasing", "down"}

Working == {"idle", "transfer", "release", "gone"}

Steps == {"idle", "insert", "update", "why", "conflict", "read", "readmore", "answer",
          "get", "prepare", "wait"}

Bucket == [tokens : 0 .. Burst, age : 0 .. MaxAge]

Requests(l) ==
  [pc : Steps, kind : Routes \cup {None}, memo : l.memos \cup {Unknown, None},
   wallet : Wallets \cup {None}, order : l.orders \cup {None}, pool : 0 .. Pools,
   draws : Nat, status : {None, "pending", "completed", "failed", "expired"},
   forwards : SUBSET {None, "pending", "done", "failed"}, sub : Submissions \cup {None}]

Told(l) == [wallet : Wallets \cup {None}, pool : 0 .. Pools, order : l.orders \cup {None}]

ProcessTyped ==
  /\ load \in Loads
  /\ phase \in Phases /\ late \in BOOLEAN /\ workers \in Working
  /\ stops \in 0 .. load.stops /\ recording \subseteq Submissions

LimiterTyped ==
  /\ DOMAIN buckets \subseteq load.headers
  /\ buckets \in [DOMAIN buckets -> Bucket]
  /\ owed \in [load.headers -> 0 .. Burst]

RowsTyped ==
  /\ nextPool \in 0 .. Pools - 1
  /\ intents \in [load.memos -> Intent(load) \cup {None}]
  /\ fwd \in [load.deposits -> Forward(load)]
  /\ \A d \in load.deposits : fwd[d].status = "pending" => fwd[d].memo \in load.memos
  /\ lost \subseteq load.memos
  /\ told \in [load.memos -> Told(load)]

RequestsTyped == req \in [Conns -> Requests(load)] /\ run \subseteq Submissions

Typed == ProcessTyped /\ LimiterTyped /\ RowsTyped /\ RequestsTyped

\* What callers were told is in the row, and a row is closed behind its forward.
RowIsTrue(m) ==
  /\ told[m] # NotTold =>
       /\ intents[m] # None
       /\ intents[m].wallet = told[m].wallet /\ intents[m].pool = told[m].pool
       /\ told[m].order # None => intents[m].order = told[m].order
  /\ intents[m] # None =>
       /\ intents[m].status = "completed" => Settled(m, "done")
       /\ intents[m].status = "failed" => Settled(m, "failed")

RowsAreTrue == \A m \in load.memos : RowIsTrue(m)

\* What a request has learnt from the rows it has read is still true.
Learnt(r) ==
  /\ r.pc \in {"update", "read", "why"} /\ r.memo \in load.memos =>
       intents[r.memo] # None
  /\ r.pc = "update" /\ r.memo \in load.memos => told[r.memo] # NotTold
  /\ r.pc = "why" /\ r.memo \in load.memos => intents[r.memo].order \notin {None, r.order}
  /\ r.pc = "conflict" =>
       /\ r.memo \in load.memos /\ intents[r.memo] # None
       /\ intents[r.memo].order \notin {None, r.order}
  /\ r.pc = "readmore" =>
       /\ r.memo \in load.memos
       /\ r.status = "completed" => Settled(r.memo, "done")
       /\ r.status = "failed" => Settled(r.memo, "failed")
  /\ r.pc = "answer" /\ r.kind = "status" =>
       /\ r.status = "completed" => "done" \in r.forwards \/ r.memo \in lost
       /\ r.status = "failed" => "failed" \in r.forwards \/ r.memo \in lost

\* What belongs to each step of a request.
Shaped(r) ==
  /\ r.pc = "idle" => r.sub = None
  /\ r.kind = "status" => r.sub = None /\ r.pc \in {"read", "readmore", "answer"}
  /\ r.pc = "prepare" => r.kind = "submit"
  /\ r.pc = "insert" => r.wallet \in Wallets /\ r.pool \in 1 .. Pools

RequestsAreRight == \A c \in Conns : Shaped(req[c]) /\ Learnt(req[c])

\* The listener is closed and every request answered before the drain, and the work
\* done before its context is cancelled, unless the deadline has passed.
Drained ==
  /\ phase \in {"draining", "cancelled", "stopping", "releasing"} /\ ~late =>
       \A c \in Conns : req[c].pc = "idle"
  /\ phase \in {"cancelled", "stopping", "releasing"} /\ ~late => run = {}

IInv == Typed /\ RateIsKept /\ RowsAreTrue /\ RequestsAreRight /\ Drained

-----------------------------------------------------------------------------
(* The rate limiter.                                                       *)

\* A bucket's level lies between nothing and the burst, and is the burst once the
\* bucket has been idle for long enough to be dropped.
LEMMA LevelInRange ==
  ASSUME NEW b \in [tokens : 0 .. Burst, age : Nat]
  PROVE  /\ Level(b) \in 0 .. Burst
         /\ b.age * Refill > Burst => Level(b) = Burst
<1>1. Burst \in Nat /\ Refill \in Nat /\ b.tokens \in 0 .. Burst /\ b.age \in Nat
  BY ServiceIsRight
<1>2. b.age * Refill \in Nat
  BY <1>1
<1> QED BY <1>1, <1>2 DEF Level

\* Level says what it does to a bucket used just now.
LEMMA LevelNow ==
  ASSUME NEW t \in 0 .. Burst
  PROVE  Level([tokens |-> t, age |-> 0]) = t
<1>1. Burst \in Nat /\ Refill \in Nat /\ t \in Nat /\ 0 * Refill = 0
  BY ServiceIsRight
<1> QED BY <1>1 DEF Level

LEMMA MaxAgeIsEnough ==
  /\ MaxAge \in Nat
  /\ MaxAge * Refill > Burst
<1>1. Burst \in Nat /\ Refill \in Nat /\ Refill > 0
  BY ServiceIsRight
<1>2. ASSUME NEW n \in Nat, NEW d \in Nat, d > 0
      PROVE  n \div d + 1 \in Nat /\ (n \div d + 1) * d > n
  BY <1>2
<1> QED BY <1>1, <1>2 DEF MaxAge

\* A tick fills a bucket as it fills a caller's allowance.
LEMMA LevelAfterTick ==
  ASSUME NEW b \in Bucket, NEW a, a = IF b.age < MaxAge THEN b.age + 1 ELSE b.age
  PROVE  Level([tokens |-> b.tokens, age |-> a]) = Level([tokens |-> Level(b), age |-> 1])
<1> DEFINE R == b.age * Refill
<1>1. /\ Burst \in Nat /\ Refill \in Nat /\ Refill > 0
      /\ b.tokens \in 0 .. Burst /\ b.age \in 0 .. MaxAge /\ MaxAge \in Nat
  BY ServiceIsRight, MaxAgeIsEnough DEF Bucket
<1>2. R \in Nat /\ (b.age + 1) * Refill = R + Refill /\ 1 * Refill = Refill
  BY <1>1
<1>3. Level(b) = IF b.tokens + R < Burst THEN b.tokens + R ELSE Burst
  BY DEF Level
<1>4. Level([tokens |-> Level(b), age |-> 1])
      = IF Level(b) + Refill < Burst THEN Level(b) + Refill ELSE Burst
  BY <1>2 DEF Level
<1>5. CASE b.age < MaxAge
  <2>1. Level([tokens |-> b.tokens, age |-> a])
        = IF b.tokens + (R + Refill) < Burst THEN b.tokens + (R + Refill) ELSE Burst
    BY <1>2, <1>5 DEF Level
  <2> HIDE DEF R
  <2> QED BY <2>1, <1>1, <1>2, <1>3, <1>4
<1>6. CASE ~(b.age < MaxAge)
  <2>1. b.age = MaxAge
    BY <1>1, <1>6
  <2>3. R > Burst
    BY ONLY <2>1, MaxAgeIsEnough
  <2>2. Level([tokens |-> b.tokens, age |-> a]) = IF b.tokens + R < Burst THEN b.tokens + R ELSE Burst
    BY <1>6 DEF Level
  <2> HIDE DEF R
  <2> QED BY <2>3, <2>2, <1>1, <1>2, <1>3, <1>4
<1> QED BY <1>5, <1>6

\* Making room drops only buckets that are full again, and never the caller's own.
LEMMA RoomIsMade ==
  ASSUME LimiterTyped, NEW h \in load.headers, RateIsKept
  PROVE  /\ h \in DOMAIN WithBucket(h)
         /\ DOMAIN WithBucket(h) \subseteq load.headers
         /\ WithBucket(h) \in [DOMAIN WithBucket(h) -> Bucket]
         /\ \A k \in load.headers :
              owed[k] = IF k \in DOMAIN WithBucket(h) THEN Level(WithBucket(h)[k]) ELSE Burst
<1> DEFINE fresh == [tokens |-> Burst, age |-> 0]
           bs == [k \in DOMAIN buckets \cup {h} |-> IF k = h THEN fresh ELSE buckets[k]]
           kept == {k \in DOMAIN bs : bs[k].age * Refill <= Burst}
           Fits(w) == /\ h \in DOMAIN w /\ DOMAIN w \subseteq load.headers
                      /\ w \in [DOMAIN w -> Bucket]
                      /\ \A k \in load.headers : owed[k] = IF k \in DOMAIN w THEN Level(w[k]) ELSE Burst
<1>1. Burst \in Nat /\ Refill \in Nat /\ MaxAge \in Nat /\ 0 * Refill = 0
  BY ServiceIsRight, MaxAgeIsEnough
<1>2. fresh \in Bucket /\ Level(fresh) = Burst
  BY <1>1, LevelNow DEF Bucket
<1>3. CASE h \in DOMAIN buckets
  BY <1>3 DEF WithBucket, LimiterTyped, RateIsKept
<1>4. CASE h \notin DOMAIN buckets
  <2>1. Fits(bs)
    <3> HIDE DEF fresh
    <3> QED BY <1>2, <1>4 DEF LimiterTyped, RateIsKept
  <2>2. evictIdle(bs) = [k \in kept |-> bs[k]]
    BY DEF evictIdle
  <2>3. h \in kept
    BY <1>1
  <2>4. \A k \in DOMAIN bs \ kept : Level(bs[k]) = Burst
    <3> SUFFICES ASSUME NEW k \in DOMAIN bs \ kept PROVE Level(bs[k]) = Burst
      OBVIOUS
    <3>1. bs[k] \in Bucket /\ ~(bs[k].age * Refill <= Burst)
      BY <2>1
    <3>2. bs[k].age \in Nat /\ bs[k].age * Refill \in Nat /\ bs[k].age * Refill > Burst
      BY <3>1, <1>1 DEF Bucket
    <3>3. bs[k] \in [tokens : 0 .. Burst, age : Nat]
      BY <3>1, <1>1 DEF Bucket
    <3> HIDE DEF bs, kept
    <3> QED BY <3>2, <3>3, LevelInRange
  <2>5. Fits([k \in kept |-> bs[k]])
    <3>1. kept \subseteq DOMAIN bs
      OBVIOUS
    <3> HIDE DEF bs, kept
    <3> QED BY <2>1, <2>3, <2>4, <3>1
  <2>6. WithBucket(h) = bs \/ WithBucket(h) = [k \in kept |-> bs[k]]
    <3> HIDE DEF kept
    <3> QED BY <1>4, <2>2 DEF WithBucket
  <2> HIDE DEF bs, kept
  <2> QED BY <2>1, <2>5, <2>6
<1> QED BY <1>3, <1>4

\* What a step may do to the limiter.
LimiterStep ==
  /\ load' = load
  /\ \/ UNCHANGED limiter
     \/ \E h \in load.headers : Allow(h)
     \/ buckets' = <<>> /\ owed' = [h \in load.headers |-> Burst]
     \/ /\ buckets' = [h \in DOMAIN buckets |->
                         [buckets[h] EXCEPT !.age = IF @ < MaxAge THEN @ + 1 ELSE @]]
        /\ owed' = [h \in load.headers |-> Level([tokens |-> owed[h], age |-> 1])]

LEMMA LimiterKeeps ==
  ASSUME LimiterTyped, RateIsKept, LimiterStep
  PROVE  LimiterTyped' /\ RateIsKept'
<1>1. load' = load
  BY DEF LimiterStep
<1>2. /\ Burst \in Nat /\ Refill \in Nat /\ Refill > 0 /\ MaxAge \in Nat
      /\ Unit \in Nat /\ Unit > 0
  BY ServiceIsRight, MaxAgeIsEnough
<1>3. CASE UNCHANGED limiter
  BY <1>1, <1>3 DEF limiter, LimiterTyped, RateIsKept
<1>4. ASSUME NEW h \in load.headers, Allow(h)
      PROVE  LimiterTyped' /\ RateIsKept'
  <2> DEFINE w == WithBucket(h)
             left == Level(w[h]) - IF Granted(h) THEN Unit ELSE 0
  <2>1. /\ h \in DOMAIN w /\ DOMAIN w \subseteq load.headers
        /\ w \in [DOMAIN w -> Bucket]
        /\ \A k \in load.headers : owed[k] = IF k \in DOMAIN w THEN Level(w[k]) ELSE Burst
    BY RoomIsMade
  <2>2. owed[h] = Level(w[h]) /\ owed[h] \in 0 .. Burst
    BY <2>1 DEF LimiterTyped
  <2>3. Granted(h) <=> Level(w[h]) >= Unit
    BY DEF Granted
  <2>4. left \in 0 .. Burst
    BY <2>2, <2>3, <1>2
  <2>5. Level([tokens |-> left, age |-> 0]) = left
    <3> HIDE DEF left
    <3> QED BY <2>4, LevelNow
  <2>6. [tokens |-> left, age |-> 0] \in Bucket
    BY <2>4, <1>2 DEF Bucket
  <2>7. buckets' = [w EXCEPT ![h] = [tokens |-> left, age |-> 0]]
    BY <1>4 DEF Allow
  <2>8. owed' = [owed EXCEPT ![h] = left]
    <3>1. left = IF Granted(h) THEN owed[h] - Unit ELSE owed[h]
      BY <2>2, <1>2
    <3>2. owed' = [owed EXCEPT ![h] = IF Granted(h) THEN owed[h] - Unit ELSE owed[h]]
      BY <1>4 DEF Allow
    <3> HIDE DEF left
    <3> QED BY <3>1, <3>2
  <2> HIDE DEF w, left
  <2>9. LimiterTyped'
    BY <1>1, <2>1, <2>4, <2>6, <2>7, <2>8 DEF LimiterTyped
  <2>10. \A k \in load.headers :
           owed'[k] = IF k \in DOMAIN buckets' THEN Level(buckets'[k]) ELSE Burst
    BY <2>1, <2>5, <2>7, <2>8 DEF LimiterTyped
  <2> QED BY <2>9, <2>10, <1>1 DEF RateIsKept, Level
<1>5. CASE buckets' = <<>> /\ owed' = [h \in load.headers |-> Burst]
  BY <1>1, <1>2, <1>5 DEF LimiterTyped, RateIsKept
<1>6. CASE /\ buckets' = [h \in DOMAIN buckets |->
                            [buckets[h] EXCEPT !.age = IF @ < MaxAge THEN @ + 1 ELSE @]]
           /\ owed' = [h \in load.headers |-> Level([tokens |-> owed[h], age |-> 1])]
  <2>1. ASSUME NEW t \in 0 .. Burst PROVE Level([tokens |-> t, age |-> 1]) \in 0 .. Burst
    BY <1>2, LevelInRange
  <2>2. owed' \in [load.headers -> 0 .. Burst]
    BY <1>6, <2>1 DEF LimiterTyped
  <2>3. ASSUME NEW h \in DOMAIN buckets
        PROVE  /\ buckets'[h] \in Bucket
               /\ Level(buckets'[h]) = owed'[h]
    <3> DEFINE a == IF buckets[h].age < MaxAge THEN buckets[h].age + 1 ELSE buckets[h].age
    <3>1. buckets[h] \in Bucket /\ h \in load.headers
      BY DEF LimiterTyped
    <3>2. buckets'[h] = [tokens |-> buckets[h].tokens, age |-> a]
      BY <1>6, <3>1 DEF Bucket
    <3>3. a \in 0 .. MaxAge
      BY <1>2, <3>1 DEF Bucket
    <3>4. owed'[h] = Level([tokens |-> Level(buckets[h]), age |-> 1])
      BY <1>6, <3>1 DEF RateIsKept
    <3>5. Level([tokens |-> buckets[h].tokens, age |-> a]) = Level([tokens |-> Level(buckets[h]), age |-> 1])
      BY <3>1, LevelAfterTick
    <3> HIDE DEF a
    <3> QED BY <3>1, <3>2, <3>3, <3>4, <3>5 DEF Bucket
  <2>4. ASSUME NEW h \in load.headers \ DOMAIN buckets PROVE owed'[h] = Burst
    <3>1. owed'[h] = Level([tokens |-> Burst, age |-> 1])
      BY <1>6 DEF RateIsKept
    <3>2. 1 * Refill = Refill
      BY <1>2
    <3> QED BY <3>1, <3>2, <1>2 DEF Level
  <2>5. DOMAIN buckets' = DOMAIN buckets
    BY <1>6
  <2>6. buckets' \in [DOMAIN buckets' -> Bucket]
    BY <1>6, <2>3, <2>5
  <2>7. \A h \in load.headers :
          owed'[h] = IF h \in DOMAIN buckets' THEN Level(buckets'[h]) ELSE Burst
    BY <2>3, <2>4, <2>5
  <2> QED BY <1>1, <2>2, <2>5, <2>6, <2>7 DEF LimiterTyped, RateIsKept
<1> QED BY <1>3, <1>4, <1>5, <1>6 DEF LimiterStep

-----------------------------------------------------------------------------
(* Rows grow.                                                              *)

\* The row of a memo is kept: its intent, what it says of the wallet, the pool and
\* the order, what callers were told, and a forward that is settled.
RowGrows(m) ==
  /\ intents[m] # None =>
       /\ intents'[m] # None
       /\ intents'[m].wallet = intents[m].wallet /\ intents'[m].pool = intents[m].pool
       /\ intents[m].order # None => intents'[m].order = intents[m].order
  /\ told[m] # NotTold => told'[m] # NotTold
  /\ \A s \in {"done", "failed"} : Settled(m, s) => Settled(m, s)'

RowsGrow ==
  /\ load' = load /\ lost \subseteq lost'
  /\ \A m \in load.memos : RowGrows(m)

LEMMA StillLearnt ==
  ASSUME RowsGrow, NEW r, Learnt(r)
  PROVE  Learnt(r)'
<1>1. load' = load /\ lost \subseteq lost' /\ \A m \in load.memos : RowGrows(m)
  BY DEF RowsGrow
<1>2. /\ r.pc \in {"update", "read", "why"} /\ r.memo \in load.memos => intents'[r.memo] # None
      /\ r.pc = "update" /\ r.memo \in load.memos => told'[r.memo] # NotTold
  BY <1>1 DEF RowGrows, Learnt
<1>3. /\ r.pc = "why" /\ r.memo \in load.memos => intents'[r.memo].order \notin {None, r.order}
      /\ r.pc = "conflict" =>
           /\ r.memo \in load.memos /\ intents'[r.memo] # None
           /\ intents'[r.memo].order \notin {None, r.order}
  BY <1>1 DEF RowGrows, Learnt
<1>4. r.pc = "readmore" =>
        /\ r.memo \in load.memos
        /\ r.status = "completed" => Settled(r.memo, "done")'
        /\ r.status = "failed" => Settled(r.memo, "failed")'
  BY <1>1 DEF RowGrows, Learnt
<1>5. r.pc = "answer" /\ r.kind = "status" =>
        /\ r.status = "completed" => "done" \in r.forwards \/ r.memo \in lost'
        /\ r.status = "failed" => "failed" \in r.forwards \/ r.memo \in lost'
  BY <1>1 DEF Learnt
<1> QED BY <1>1, <1>2, <1>3, <1>4, <1>5 DEF Learnt

\* Nothing happens to the rows.
LEMMA RowsUnchanged ==
  ASSUME load' = load, UNCHANGED <<tables, told>>
  PROVE  RowsGrow /\ (RowsAreTrue => RowsAreTrue')
BY DEF RowsGrow, RowGrows, RowsAreTrue, RowIsTrue, Settled, tables

-----------------------------------------------------------------------------
(* A step of one request.                                                  *)

LEMMA IdleIsRight ==
  ASSUME load \in Loads
  PROVE  Idle \in Requests(load) /\ Shaped(Idle) /\ Learnt(Idle)'
<1>1. None # "status"
  BY NoneIsNothing DEF Routes
<1>2. Idle \in Requests(load)
  BY ServiceIsRight DEF Idle, Requests, Steps, Routes
<1> QED BY <1>1, <1>2 DEF Idle, Shaped, Learnt

LEMMA ServedStep ==
  ASSUME IInv, NEW c \in Conns, NEW r \in Requests(load),
         UNCHANGED <<load, process>>, Set(c, r), Shaped(r), Learnt(r)', RowsGrow,
         req[c].pc # "idle" \/ phase \in {"up", "signalled"}, run' \subseteq Submissions
  PROVE  ProcessTyped' /\ RequestsTyped' /\ RequestsAreRight' /\ Drained'
<1>1. req \in [Conns -> Requests(load)] /\ req' = [req EXCEPT ![c] = r]
  BY DEF IInv, Typed, RequestsTyped, Set
<1>2. Requests(load)' = Requests(load)
  BY DEF Requests
<1>3. RequestsTyped'
  BY <1>1, <1>2 DEF RequestsTyped
<1>4. \A b \in Conns : Shaped(req'[b]) /\ Learnt(req[b])'
  <2>1. \A b \in Conns : Shaped(req[b]) /\ Learnt(req[b])
    BY DEF IInv, RequestsAreRight
  <2> SUFFICES ASSUME NEW b \in Conns PROVE Shaped(req'[b]) /\ Learnt(req[b])'
    OBVIOUS
  <2>2. CASE b = c
    <3>1. req'[b] = r
      BY <1>1, <2>2
    <3> QED BY <3>1 DEF Learnt
  <2>3. CASE b # c
    <3>1. req'[b] = req[b]
      BY <1>1, <2>3
    <3>2. PICK x : x = req[b]
      OBVIOUS
    <3>3. Learnt(x)'
      BY <3>2, <2>1, StillLearnt
    <3> QED BY <3>1, <3>2, <3>3, <2>1 DEF Learnt
  <2> QED BY <2>2, <2>3
<1>5. RequestsAreRight'
  BY <1>4 DEF RequestsAreRight, Shaped
<1>6. Drained'
  BY DEF IInv, Drained, process
<1>7. ProcessTyped'
  BY DEF IInv, Typed, ProcessTyped, process
<1> QED BY <1>3, <1>5, <1>6, <1>7

\* A step of one request that leaves the rows and the limiter alone.
LEMMA ReadOnlyStep ==
  ASSUME IInv, NEW c \in Conns, NEW r \in Requests(load),
         UNCHANGED <<load, process, limiter, nextPool, tables, told>>, Set(c, r), Shaped(r),
         Learnt(r) \/ Learnt(r)',
         req[c].pc # "idle" \/ phase \in {"up", "signalled"}, run' \subseteq Submissions
  PROVE  IInv'
<1>1. RowsGrow /\ RowsAreTrue'
  BY RowsUnchanged DEF IInv
<1>2. Learnt(r)'
  BY <1>1, StillLearnt
<1>3. ProcessTyped' /\ RequestsTyped' /\ RequestsAreRight' /\ Drained'
  BY <1>1, <1>2, ServedStep
<1>4. RowsTyped'
  BY DEF IInv, Typed, RowsTyped, tables, Intent, Forward, Told
<1>5. LimiterTyped' /\ RateIsKept'
  BY LimiterKeeps DEF IInv, Typed, LimiterStep
<1> QED BY <1>1, <1>3, <1>4, <1>5 DEF IInv, Typed

\* A request starts at the first step of its route, with nothing learnt but that a
\* memo a caller names was minted.
LEMMA AskedIsRight ==
  ASSUME IInv, NEW c \in Conns, NEW kind \in load.routes, Asked(c, kind)
  PROVE  /\ nextPool' \in 0 .. Pools - 1
         /\ \E r \in Requests(load) : Set(c, r) /\ Shaped(r) /\ Learnt(r)
<1>1. /\ load \in Loads /\ IsLoad(load) /\ Pools \in Nat \ {0} /\ nextPool \in 0 .. Pools - 1
      /\ kind \in Routes /\ Unknown \notin load.memos
  BY ServiceIsRight DEF IInv, Typed, ProcessTyped, RowsTyped, IsLoad
<1>2. None # "status"
  BY NoneIsNothing DEF Routes
<1>3. nextPool' \in 0 .. Pools - 1
  <2>1. nextPool' = nextPool \/ nextPool' = (nextPool + 1) % Pools
    BY DEF Asked, PickPool
  <2>2. \A n \in Nat : n % Pools \in 0 .. Pools - 1
    BY <1>1
  <2>3. nextPool + 1 \in Nat
    BY <1>1
  <2> QED BY <1>1, <2>1, <2>2, <2>3
<1>4. \A m \in load.memos : told[m] # NotTold => intents[m] # None
  BY DEF IInv, RowsAreTrue, RowIsTrue
<1>5. ASSUME kind = "mint", NEW w \in Wallets, NEW o \in load.orders \cup {None},
             NEW r, r = [Idle EXCEPT !.pc = "insert", !.kind = kind, !.wallet = w, !.order = o,
                                     !.pool = nextPool + 1]
      PROVE  r \in Requests(load) /\ Shaped(r) /\ Learnt(r)
  <2>1. nextPool + 1 \in 1 .. Pools
    BY <1>1
  <2>2. r = [pc |-> "insert", kind |-> "mint", memo |-> None, wallet |-> w, order |-> o,
             pool |-> nextPool + 1, draws |-> 0, status |-> None, forwards |-> {}, sub |-> None]
    BY <1>5 DEF Idle
  <2>3. r \in Requests(load)
    BY <2>1, <2>2, <1>1 DEF Requests, Steps, Routes
  <2>4. Shaped(r)
    BY <2>1, <2>2 DEF Shaped
  <2> QED BY <2>2, <2>3, <2>4 DEF Learnt
<1>6. ASSUME kind = "bind", NEW o \in load.orders,
             NEW m \in {n \in load.memos : told[n] # NotTold} \cup {Unknown},
             NEW r, r = [Idle EXCEPT !.pc = "update", !.kind = kind, !.memo = m, !.order = o]
      PROVE  r \in Requests(load) /\ Shaped(r) /\ Learnt(r)
  <2>1. r = [pc |-> "update", kind |-> "bind", memo |-> m, wallet |-> None, order |-> o,
             pool |-> 0, draws |-> 0, status |-> None, forwards |-> {}, sub |-> None]
    BY <1>6 DEF Idle
  <2>2. r \in Requests(load)
    BY <2>1, <1>1 DEF Requests, Steps, Routes
  <2>3. Shaped(r)
    BY <2>1 DEF Shaped
  <2> QED BY <2>1, <2>2, <2>3, <1>1, <1>4 DEF Learnt
<1>7. ASSUME kind = "status", NEW m \in {n \in load.memos : told[n] # NotTold} \cup {Unknown},
             NEW r, r = [Idle EXCEPT !.pc = "read", !.kind = kind, !.memo = m]
      PROVE  r \in Requests(load) /\ Shaped(r) /\ Learnt(r)
  <2>1. r = [pc |-> "read", kind |-> "status", memo |-> m, wallet |-> None, order |-> None,
             pool |-> 0, draws |-> 0, status |-> None, forwards |-> {}, sub |-> None]
    BY <1>7 DEF Idle
  <2>2. r \in Requests(load)
    BY <2>1, <1>1 DEF Requests, Steps, Routes
  <2>3. Shaped(r)
    BY <2>1 DEF Shaped
  <2> QED BY <2>1, <2>2, <2>3, <1>1, <1>4 DEF Learnt
<1>8. ASSUME kind \in {"submit", "look"},
             NEW r, r = [Idle EXCEPT !.pc = IF kind = "submit" THEN "prepare" ELSE "get",
                                     !.kind = kind]
      PROVE  r \in Requests(load) /\ Shaped(r) /\ Learnt(r)
  <2>1. r = [pc |-> IF kind = "submit" THEN "prepare" ELSE "get", kind |-> kind,
             memo |-> None, wallet |-> None, order |-> None,
             pool |-> 0, draws |-> 0, status |-> None, forwards |-> {}, sub |-> None]
    BY <1>8 DEF Idle
  <2>2. r \in Requests(load)
    BY <2>1, <1>1 DEF Requests, Steps, Routes
  <2>3. Shaped(r)
    BY <2>1, <1>8 DEF Shaped
  <2> QED BY <2>1, <2>2, <2>3, <1>8 DEF Learnt
<1> QED BY <1>3, <1>5, <1>6, <1>7, <1>8 DEF Asked

LEMMA RequestStep ==
  ASSUME IInv, NEW c \in Conns, Request(c)
  PROVE  IInv'
<1>1. PICK kind \in load.routes, h \in load.headers :
        \/ ~load.limited /\ Asked(c, kind) /\ UNCHANGED limiter
        \/ load.limited /\ Granted(h) /\ Allow(h) /\ Asked(c, kind)
        \/ load.limited /\ ~Granted(h) /\ Allow(h) /\ UNCHANGED <<req, nextPool>>
  BY DEF Request, Accepted
<1>2. phase = "up" /\ UNCHANGED <<load, process, run, tables, told>>
  BY DEF Request, Draining
<1>3. LimiterTyped' /\ RateIsKept'
  BY <1>1, <1>2, LimiterKeeps DEF IInv, Typed, LimiterStep
<1>4. RowsGrow /\ RowsAreTrue'
  BY <1>2, RowsUnchanged DEF IInv
<1>5. ASSUME nextPool' \in 0 .. Pools - 1 PROVE RowsTyped'
  BY <1>2, <1>5 DEF IInv, Typed, RowsTyped, tables, Intent, Forward, Told
<1>6. CASE Asked(c, kind)
  <2>1. PICK r \in Requests(load) : Set(c, r) /\ Shaped(r) /\ Learnt(r)
    BY <1>6, AskedIsRight
  <2>2. Learnt(r)'
    BY <2>1, <1>4, StillLearnt
  <2>3. run' \subseteq Submissions
    BY <1>2 DEF IInv, Typed, RequestsTyped
  <2>4. ProcessTyped' /\ RequestsTyped' /\ RequestsAreRight' /\ Drained'
    BY <1>2, <1>4, <2>1, <2>2, <2>3, ServedStep
  <2>5. nextPool' \in 0 .. Pools - 1
    BY <1>6, AskedIsRight
  <2> QED BY <1>3, <1>4, <1>5, <2>4, <2>5 DEF IInv, Typed
<1>7. CASE UNCHANGED <<req, nextPool>>
  <2>1. RowsTyped'
    BY <1>5, <1>7 DEF IInv, Typed, RowsTyped
  <2>2. ProcessTyped' /\ RequestsTyped' /\ Drained'
    BY <1>2, <1>7 DEF IInv, Typed, ProcessTyped, RequestsTyped, Requests, Drained, process
  <2>3. RequestsAreRight'
    BY <1>2, <1>7 DEF IInv, RequestsAreRight, Shaped, Learnt, Settled, tables
  <2> QED BY <1>3, <1>4, <2>1, <2>2, <2>3 DEF IInv, Typed
<1> QED BY <1>1, <1>6, <1>7

LEMMA ProbeStep ==
  ASSUME IInv, NEW c \in Conns, Health(c) \/ Respond(c)
  PROVE  IInv'
<1>1. load \in Loads /\ run' \subseteq Submissions
  BY DEF IInv, Typed, ProcessTyped, RequestsTyped, Health, Respond
<1>2. CASE Health(c)
  <2>0. PICK r : r = [Idle EXCEPT !.pc = "answer", !.kind = "health"]
    OBVIOUS
  <2>1. r = [pc |-> "answer", kind |-> "health", memo |-> None, wallet |-> None,
             order |-> None, pool |-> 0, draws |-> 0, status |-> None,
             forwards |-> {}, sub |-> None]
    BY <2>0 DEF Idle
  <2>2. Set(c, r)
    BY <1>2, <2>0 DEF Health
  <2>3. r \in Requests(load)
    BY <2>1, ServiceIsRight DEF Requests, Steps, Routes
  <2>4. Shaped(r) /\ Learnt(r)
    BY <2>1 DEF Shaped, Learnt
  <2> QED BY <1>1, <1>2, <2>2, <2>3, <2>4, ReadOnlyStep DEF Health
<1>3. CASE Respond(c)
  BY <1>1, <1>3, IdleIsRight, ReadOnlyStep DEF Respond, Answer
<1> QED BY <1>2, <1>3

\* The steps of the status and the order routes that only read, and the start of a
\* submission.
LEMMA ReadStep ==
  ASSUME IInv, NEW c \in Conns, WhyNotSet(c) \/ DepositStatus(c) \/ Submit(c)
  PROVE  IInv'
<1>1. /\ load \in Loads /\ run \subseteq Submissions
      /\ req[c] \in Requests(load) /\ Shaped(req[c]) /\ Learnt(req[c])
  BY DEF IInv, Typed, ProcessTyped, RequestsTyped, RequestsAreRight
<1>2. /\ UNCHANGED <<load, process, limiter, nextPool, tables, told>>
      /\ req[c].pc # "idle" /\ run' \subseteq Submissions
  BY <1>1 DEF WhyNotSet, DepositStatus, Submit
<1>3. /\ intents \in [load.memos -> Intent(load) \cup {None}]
      /\ fwd \in [load.deposits -> Forward(load)]
  BY DEF IInv, Typed, RowsTyped
<1>4. ASSUME NEW r \in Requests(load), Set(c, r), Shaped(r), Learnt(r) PROVE IInv'
  BY <1>2, <1>4, ReadOnlyStep
<1>5. ASSUME Answer(c) PROVE IInv'
  BY <1>1, <1>2, <1>5, IdleIsRight, ReadOnlyStep DEF Answer
<1>6. CASE WhyNotSet(c)
  <2>1. CASE req[c].memo \in load.memos
    <3>1. PICK r : r = [req[c] EXCEPT !.pc = "conflict"]
      OBVIOUS
    <3>2. r \in Requests(load)
      BY <1>1, <3>1 DEF Requests, Steps
    <3>3. /\ r.pc = "conflict" /\ r.memo = req[c].memo /\ r.order = req[c].order
          /\ r.kind = req[c].kind /\ req[c].pc = "why"
      BY <1>1, <3>1, <1>6 DEF Requests, WhyNotSet
    <3>4. Shaped(r) /\ Learnt(r)
      BY <3>3, <2>1, <1>1 DEF Shaped, Learnt
    <3> QED BY <3>1, <3>2, <3>4, <1>4, <1>6, <2>1 DEF WhyNotSet, Goto
  <2>2. CASE req[c].memo \notin load.memos
    BY <1>5, <1>6, <2>2 DEF WhyNotSet
  <2> QED BY <2>1, <2>2
<1>7. CASE DepositStatus(c) /\ req[c].pc = "read"
  <2>1. CASE req[c].memo \in load.memos
    <3> DEFINE m == req[c].memo
    <3>1. PICK r : r = [req[c] EXCEPT !.status = intents[m].status, !.pc = "readmore"]
      OBVIOUS
    <3>2. intents[m] \in Intent(load)
      BY <1>1, <1>3, <1>7, <2>1 DEF Learnt
    <3>3. r \in Requests(load)
      BY <1>1, <3>1, <3>2 DEF Requests, Steps, Intent
    <3>4. /\ r.pc = "readmore" /\ r.memo = m /\ r.status = intents[m].status
          /\ r.kind = req[c].kind /\ r.sub = req[c].sub
      BY <1>1, <3>1 DEF Requests
    <3>5. /\ intents[m].status = "completed" => Settled(m, "done")
          /\ intents[m].status = "failed" => Settled(m, "failed")
      BY <1>1, <1>7, <2>1 DEF IInv, RowsAreTrue, RowIsTrue, Learnt
    <3>6. Shaped(r) /\ Learnt(r)
      BY <3>4, <3>5, <2>1, <1>1 DEF Shaped, Learnt
    <3>7. r = [Read(req[c], Queries[1]) EXCEPT !.pc = "readmore"]
      BY <3>1, <1>1 DEF Read, Queries, Requests
    <3> QED BY <3>3, <3>6, <3>7, <1>4, <1>7, <2>1 DEF DepositStatus
  <2>2. CASE req[c].memo \notin load.memos
    BY <1>5, <1>7, <2>2 DEF DepositStatus
  <2> QED BY <2>1, <2>2
<1>8. CASE DepositStatus(c) /\ req[c].pc = "readmore"
  <2> DEFINE m == req[c].memo
             found == {fwd[d].status : d \in {e \in DOMAIN fwd : fwd[e].memo = m}}
  <2>1. PICK r : r = [req[c] EXCEPT !.forwards = found, !.pc = "answer"]
    OBVIOUS
  <2>2. found \subseteq {None, "pending", "done", "failed"}
    BY <1>3 DEF Forward
  <2>3. ASSUME NEW s \in {"done", "failed"}, Settled(m, s)
        PROVE  s \in found \/ m \in lost
    <3>1. CASE m \in lost
      BY <3>1
    <3>2. ASSUME NEW d \in DOMAIN fwd, fwd[d] = [memo |-> m, status |-> s] PROVE s \in found
      <4>1. fwd[d].memo = m /\ fwd[d].status = s
        BY <3>2
      <4> QED BY <4>1
    <3> QED BY <3>1, <3>2, <2>3 DEF Settled
  <2>4. r = [Read(req[c], Queries[2]) EXCEPT !.pc = "answer"]
    <3>1. Read(req[c], Queries[2]) = [req[c] EXCEPT !.forwards = found]
      BY DEF Read, Queries
    <3> HIDE DEF found
    <3> QED BY <3>1, <2>1, <1>1 DEF Requests
  <2> HIDE DEF found
  <2>5. r \in Requests(load)
    BY <1>1, <2>1, <2>2 DEF Requests, Steps
  <2>6. /\ r.pc = "answer" /\ r.memo = m /\ r.status = req[c].status /\ r.forwards = found
        /\ r.kind = req[c].kind /\ r.sub = req[c].sub
    BY <1>1, <2>1 DEF Requests
  <2>7. Shaped(r) /\ Learnt(r)
    BY <2>3, <2>6, <1>1, <1>8 DEF Shaped, Learnt
  <2> QED BY <2>4, <2>5, <2>7, <1>4, <1>8 DEF DepositStatus
<1>9. CASE Submit(c)
  <2>1. PICK s \in Submissions : Set(c, [req[c] EXCEPT !.pc = "wait", !.sub = s])
    BY <1>9 DEF Submit
  <2>2. PICK r : r = [req[c] EXCEPT !.pc = "wait", !.sub = s]
    OBVIOUS
  <2>3. r \in Requests(load)
    BY <1>1, <2>2 DEF Requests, Steps
  <2>4. r.pc = "wait" /\ r.kind = req[c].kind /\ req[c].kind = "submit"
    BY <1>1, <1>9, <2>2 DEF Requests, Submit, Shaped
  <2>5. Shaped(r) /\ Learnt(r)
    BY <2>4 DEF Shaped, Learnt
  <2> QED BY <2>1, <2>2, <2>3, <2>5, <1>4
<1> QED BY <1>6, <1>7, <1>8, <1>9 DEF DepositStatus

-----------------------------------------------------------------------------
(* The steps that write rows.                                              *)

\* What a step does to the rows: to one intent and what was told of it, and to
\* nothing else.
LEMMA OneRow ==
  ASSUME IInv, NEW m \in load.memos, NEW i \in Intent(load), NEW t \in Told(load),
         UNCHANGED <<load, nextPool, fwd, lost>>,
         intents' = [intents EXCEPT ![m] = i], told' \in {told, [told EXCEPT ![m] = t]},
         intents[m] # None =>
           /\ i.wallet = intents[m].wallet /\ i.pool = intents[m].pool
           /\ intents[m].order # None => i.order = intents[m].order,
         t # NotTold /\ t.wallet = i.wallet /\ t.pool = i.pool,
         t.order # None => i.order = t.order,
         i.status = "completed" => Settled(m, "done"),
         i.status = "failed" => Settled(m, "failed")
  PROVE  RowsTyped' /\ RowsGrow /\ RowsAreTrue'
<1>1. /\ load \in Loads
      /\ intents \in [load.memos -> Intent(load) \cup {None}]
      /\ told \in [load.memos -> Told(load)]
  BY DEF IInv, Typed, ProcessTyped, RowsTyped
<1>2. i # None
  BY <1>1, NoneIsNothing
<1>3. /\ intents' \in [load.memos -> Intent(load) \cup {None}]
      /\ told' \in [load.memos -> Told(load)]
  BY <1>1
<1>4. RowsTyped'
  BY <1>3 DEF IInv, Typed, RowsTyped, Intent, Forward, Told
<1>5. \A n \in load.memos, s \in {"done", "failed"} : Settled(n, s)' <=> Settled(n, s)
  BY DEF Settled
<1>6. ASSUME NEW n \in load.memos, n # m PROVE intents'[n] = intents[n] /\ told'[n] = told[n]
  BY <1>1, <1>6
<1>7. intents'[m] = i /\ (told'[m] = told[m] \/ told'[m] = t)
  BY <1>1
<1>8. RowGrows(m)
  BY <1>2, <1>5, <1>7 DEF RowGrows
<1>9. ASSUME NEW n \in load.memos, n # m PROVE RowGrows(n)
  BY <1>5, <1>6, <1>9 DEF RowGrows
<1>10. RowIsTrue(m)'
  <2>1. RowIsTrue(m)
    BY DEF IInv, RowsAreTrue
  <2>2. told'[m] # NotTold =>
          /\ i.wallet = told'[m].wallet /\ i.pool = told'[m].pool
          /\ told'[m].order # None => i.order = told'[m].order
    BY <2>1, <1>7 DEF RowIsTrue
  <2> QED BY <2>2, <1>2, <1>5, <1>7 DEF RowIsTrue
<1>11. ASSUME NEW n \in load.memos, n # m PROVE RowIsTrue(n)'
  <2>1. RowIsTrue(n)
    BY DEF IInv, RowsAreTrue
  <2> QED BY <2>1, <1>5, <1>6, <1>11 DEF RowIsTrue
<1>12. RowsGrow
  BY <1>8, <1>9 DEF RowsGrow
<1>13. RowsAreTrue'
  BY <1>10, <1>11 DEF RowsAreTrue
<1> QED BY <1>4, <1>12, <1>13

\* A step of one request that writes a row and leaves the limiter alone.
LEMMA WriteStep ==
  ASSUME IInv, NEW c \in Conns, NEW r \in Requests(load),
         UNCHANGED <<load, process, limiter, run>>, Set(c, r), Shaped(r), Learnt(r)',
         req[c].pc # "idle", RowsTyped', RowsGrow, RowsAreTrue'
  PROVE  IInv'
<1>1. run' \subseteq Submissions
  BY DEF IInv, Typed, RequestsTyped
<1>2. ProcessTyped' /\ RequestsTyped' /\ RequestsAreRight' /\ Drained'
  BY <1>1, ServedStep
<1>3. LimiterTyped' /\ RateIsKept'
  BY LimiterKeeps DEF IInv, Typed, LimiterStep
<1> QED BY <1>2, <1>3 DEF IInv, Typed

LEMMA CreateIntentStep ==
  ASSUME IInv, NEW c \in Conns, CreateIntent(c)
  PROVE  IInv'
<1>1. /\ load \in Loads /\ run \subseteq Submissions /\ MaxDraws \in Nat
      /\ req[c] \in Requests(load) /\ Shaped(req[c]) /\ Learnt(req[c]) /\ req[c].pc = "insert"
  BY ServiceIsRight DEF IInv, Typed, ProcessTyped, RequestsTyped, RequestsAreRight, CreateIntent
<1>2. UNCHANGED <<load, process, limiter, run, nextPool, fwd, lost>>
  BY DEF CreateIntent
<1>3. Idle \in Requests(load) /\ Shaped(Idle) /\ Learnt(Idle)'
  BY <1>1, IdleIsRight
<1>4. ASSUME NEW m \in load.memos, Free(m), Answer(c),
             intents' = [intents EXCEPT ![m] = NewIntent(req[c])],
             Tell(m, [wallet |-> req[c].wallet, pool |-> req[c].pool, order |-> req[c].order])
      PROVE  IInv'
  <2> DEFINE i == NewIntent(req[c])
             t == [wallet |-> req[c].wallet, pool |-> req[c].pool, order |-> req[c].order]
  <2>1. /\ req[c].wallet \in Wallets /\ req[c].pool \in 1 .. Pools
        /\ req[c].order \in load.orders \cup {None}
    BY <1>1 DEF Shaped, Requests
  <2>2. i \in Intent(load)
    BY <2>1 DEF NewIntent, Intent
  <2>3. t \in Told(load) /\ t # NotTold
    <3>1. t \in Told(load)
      BY <2>1, ServiceIsRight DEF Told
    <3>2. t.pool # NotTold.pool
      BY <2>1, ServiceIsRight DEF NotTold
    <3> QED BY <3>1, <3>2
  <2>4. /\ i.wallet = t.wallet /\ i.pool = t.pool /\ i.order = t.order /\ i.status = "pending"
        /\ intents[m] = None /\ told' \in {told, [told EXCEPT ![m] = t]}
    BY <1>4 DEF NewIntent, Free, Tell
  <2>5. RowsTyped' /\ RowsGrow /\ RowsAreTrue'
    <3> HIDE DEF i, t
    <3>1. intents' = [intents EXCEPT ![m] = i]
      BY <1>4 DEF i
    <3> QED BY <1>2, <2>2, <2>3, <2>4, <3>1, OneRow
  <2> QED BY <1>1, <1>2, <1>3, <1>4, <2>5, WriteStep DEF Answer
<1>5. ASSUME UNCHANGED <<intents, told>>, req[c].draws < MaxDraws - 1,
             Set(c, [req[c] EXCEPT !.draws = @ + 1])
      PROVE  IInv'
  <2>1. PICK r : r = [req[c] EXCEPT !.draws = @ + 1]
    OBVIOUS
  <2>2. r \in Requests(load)
    BY <1>1, <2>1 DEF Requests
  <2>3. /\ r.pc = "insert" /\ r.wallet = req[c].wallet /\ r.pool = req[c].pool
        /\ r.kind = req[c].kind
    BY <1>1, <2>1 DEF Requests
  <2>4. Shaped(r) /\ Learnt(r)
    BY <1>1, <2>3 DEF Shaped, Learnt
  <2>5. run' \subseteq Submissions /\ UNCHANGED tables
    BY <1>1, <1>2, <1>5 DEF tables
  <2> QED BY <1>1, <1>2, <1>5, <2>1, <2>2, <2>4, <2>5, ReadOnlyStep
<1>6. ASSUME UNCHANGED <<intents, told>>, Answer(c) PROVE IInv'
  <2>1. run' \subseteq Submissions /\ UNCHANGED tables
    BY <1>1, <1>2, <1>6 DEF tables
  <2> QED BY <1>1, <1>2, <1>3, <1>6, <2>1, ReadOnlyStep DEF Answer
<1> QED BY <1>4, <1>5, <1>6 DEF CreateIntent

LEMMA SetExternalIDStep ==
  ASSUME IInv, NEW c \in Conns, SetExternalID(c)
  PROVE  IInv'
<1> DEFINE m == req[c].memo
           o == req[c].order
<1>1. /\ load \in Loads /\ run \subseteq Submissions
      /\ req[c] \in Requests(load) /\ Shaped(req[c]) /\ Learnt(req[c]) /\ req[c].pc = "update"
      /\ intents \in [load.memos -> Intent(load) \cup {None}] /\ told \in [load.memos -> Told(load)]
  BY DEF IInv, Typed, ProcessTyped, RowsTyped, RequestsTyped, RequestsAreRight, SetExternalID
<1>2. UNCHANGED <<load, process, limiter, run, nextPool, fwd, lost>>
  BY DEF SetExternalID
<1>3. Idle \in Requests(load) /\ Shaped(Idle) /\ Learnt(Idle)'
  BY <1>1, IdleIsRight
<1>4. ASSUME Binds(m, o), intents' = [intents EXCEPT ![m].order = o], Answer(c),
             Tell(m, [told[m] EXCEPT !.order = o])
      PROVE  IInv'
  <2>1. /\ m \in load.memos /\ intents[m] \in Intent(load) /\ intents[m] # None
        /\ intents[m].order \in {None, o}
        /\ told[m] \in Told(load) /\ told[m] # NotTold /\ o \in load.orders \cup {None}
    BY <1>1, <1>4 DEF Binds, Learnt, Requests
  <2>2. PICK i, t : i = [intents[m] EXCEPT !.order = o] /\ t = [told[m] EXCEPT !.order = o]
    OBVIOUS
  <2>3. /\ i \in Intent(load) /\ i.wallet = intents[m].wallet /\ i.pool = intents[m].pool
        /\ i.order = o /\ i.status = intents[m].status
    BY <2>1, <2>2 DEF Intent
  <2>4. t \in Told(load) /\ t.wallet = told[m].wallet /\ t.pool = told[m].pool /\ t.order = o
    BY <2>1, <2>2 DEF Told
  <2>5. /\ told[m].wallet = i.wallet /\ told[m].pool = i.pool
        /\ i.status = "completed" => Settled(m, "done")
        /\ i.status = "failed" => Settled(m, "failed")
    BY <2>1, <2>3 DEF IInv, RowsAreTrue, RowIsTrue
  <2>6. t # NotTold
    <3>1. i.pool # 0
      BY <2>3, ServiceIsRight DEF Intent
    <3> QED BY <2>4, <2>5, <3>1 DEF NotTold
  <2>7. /\ intents' = [intents EXCEPT ![m] = i]
        /\ told' \in {told, [told EXCEPT ![m] = t]}
    BY <1>4, <2>2 DEF Tell
  <2> HIDE DEF m, o
  <2>8. RowsTyped' /\ RowsGrow /\ RowsAreTrue'
    BY <1>2, <2>1, <2>3, <2>4, <2>5, <2>6, <2>7, OneRow
  <2> QED BY <1>1, <1>2, <1>3, <1>4, <2>8, WriteStep DEF Answer
<1>5. ASSUME ~Binds(m, o), Goto(c, "why"), UNCHANGED <<intents, told>>
      PROVE  IInv'
  <2>1. PICK r : r = [req[c] EXCEPT !.pc = "why"]
    OBVIOUS
  <2>2. r \in Requests(load)
    BY <1>1, <2>1 DEF Requests, Steps
  <2>3. r.pc = "why" /\ r.memo = m /\ r.order = o /\ r.kind = req[c].kind
    BY <1>1, <2>1 DEF Requests
  <2>4. Shaped(r) /\ Learnt(r)
    BY <1>1, <1>5, <2>3 DEF Shaped, Learnt, Binds
  <2>5. run' \subseteq Submissions /\ UNCHANGED tables
    BY <1>1, <1>2, <1>5 DEF tables
  <2>6. Set(c, r)
    BY <1>5, <2>1 DEF Goto
  <2> QED BY <1>1, <1>2, <1>5, <2>2, <2>4, <2>5, <2>6, ReadOnlyStep
<1> QED BY <1>4, <1>5 DEF SetExternalID

\* Rows grow while the requests wait.
LEMMA WaitingStep ==
  ASSUME IInv, RowsGrow, \A c \in Conns : req'[c] = req[c]
  PROVE  RequestsAreRight'
<1> SUFFICES ASSUME NEW c \in Conns PROVE Shaped(req[c])' /\ Learnt(req[c])'
  BY DEF RequestsAreRight
<1>1. PICK x : x = req[c]
  OBVIOUS
<1>2. Shaped(x) /\ Learnt(x) /\ req'[c] = x
  BY <1>1 DEF IInv, RequestsAreRight
<1>3. Learnt(x)'
  BY <1>2, StillLearnt
<1> QED BY <1>2, <1>3 DEF Shaped, Learnt

LEMMA ForwarderStep ==
  ASSUME IInv, Forwarder
  PROVE  IInv'
<1>1. UNCHANGED <<load, process, limiter, req, run, nextPool, told>>
  BY DEF Forwarder
<1>2. /\ load \in Loads
      /\ intents \in [load.memos -> Intent(load) \cup {None}]
      /\ fwd \in [load.deposits -> Forward(load)] /\ lost \subseteq load.memos
      /\ \A d \in load.deposits : fwd[d].status = "pending" => fwd[d].memo \in load.memos
  BY DEF IInv, Typed, ProcessTyped, RowsTyped
<1>3. ASSUME RowsTyped', RowsGrow, RowsAreTrue' PROVE IInv'
  <2>1. LimiterTyped' /\ RateIsKept'
    BY <1>1, LimiterKeeps DEF IInv, Typed, LimiterStep
  <2>2. ProcessTyped' /\ RequestsTyped' /\ Drained'
    BY <1>1 DEF IInv, Typed, ProcessTyped, RequestsTyped, Requests, Drained, process
  <2>3. RequestsAreRight'
    BY <1>1, <1>3, WaitingStep
  <2> QED BY <1>3, <2>1, <2>2, <2>3 DEF IInv, Typed
<1>4. ASSUME UNCHANGED intents,
             fwd' \in [load.deposits -> Forward(load)], lost' \subseteq load.memos, lost \subseteq lost',
             \A d \in load.deposits : fwd'[d].status = "pending" => fwd'[d].memo \in load.memos,
             \A d \in load.deposits : fwd[d].status \in {"done", "failed"} => fwd'[d] = fwd[d]
      PROVE  IInv'
  <2>1. RowsTyped'
    BY <1>1, <1>2, <1>4 DEF IInv, Typed, RowsTyped, Intent, Forward, Told
  <2>2. ASSUME NEW m \in load.memos, NEW s \in {"done", "failed"}, Settled(m, s)
        PROVE  Settled(m, s)'
    <3>1. CASE m \in lost
      BY <3>1, <1>4 DEF Settled
    <3>2. ASSUME NEW d \in load.deposits, fwd[d] = [memo |-> m, status |-> s]
          PROVE  Settled(m, s)'
      <4>1. fwd[d].status = s
        BY <3>2
      <4>2. fwd'[d] = [memo |-> m, status |-> s] /\ d \in DOMAIN fwd'
        BY <4>1, <3>2, <1>4
      <4> QED BY <4>2 DEF Settled
    <3> QED BY <3>1, <3>2, <2>2, <1>2 DEF Settled
  <2>3. RowsGrow
    BY <1>1, <1>4, <2>2 DEF RowsGrow, RowGrows
  <2>4. RowsAreTrue'
    BY <1>1, <1>4, <2>2 DEF IInv, RowsAreTrue, RowIsTrue
  <2> QED BY <2>1, <2>3, <2>4, <1>3
<1>5. ASSUME NEW d \in load.deposits, RecordDeposit(d) PROVE IInv'
  <2>1. PICK m \in load.memos : fwd' = [fwd EXCEPT ![d] = [memo |-> m, status |-> "pending"]]
    BY <1>5 DEF RecordDeposit
  <2>2. [memo |-> m, status |-> "pending"] \in Forward(load)
    BY DEF Forward
  <2>3. fwd' \in [load.deposits -> Forward(load)]
    BY <1>2, <2>1, <2>2
  <2>4. fwd[d].status \notin {"done", "failed"} /\ UNCHANGED <<intents, lost>>
    BY <1>5, NoneIsNothing DEF RecordDeposit
  <2>5. \A e \in load.deposits : fwd[e].status \in {"done", "failed"} => fwd'[e] = fwd[e]
    BY <1>2, <2>1, <2>4
  <2>6. \A e \in load.deposits : fwd'[e].status = "pending" => fwd'[e].memo \in load.memos
    BY <1>2, <2>1
  <2> QED BY <1>2, <1>4, <2>3, <2>4, <2>5, <2>6
<1>6. ASSUME NEW d \in load.deposits, MarkForward(d) PROVE IInv'
  <2>1. fwd[d].status = "pending" /\ fwd[d] \in Forward(load) /\ fwd[d].memo \in load.memos
    BY <1>2, <1>6 DEF MarkForward
  <2>2. ASSUME NEW s \in {"done", "failed"}, fwd' = [fwd EXCEPT ![d].status = s],
               UNCHANGED <<intents, lost>>
        PROVE  IInv'
    <3>1. PICK x : x = [fwd[d] EXCEPT !.status = s]
      OBVIOUS
    <3>2. x \in Forward(load) /\ x.status = s
      BY <2>1, <3>1 DEF Forward
    <3>3. fwd' = [fwd EXCEPT ![d] = x]
      BY <2>2, <3>1
    <3>4. /\ fwd' \in [load.deposits -> Forward(load)]
          /\ \A e \in load.deposits : fwd[e].status \in {"done", "failed"} => fwd'[e] = fwd[e]
          /\ \A e \in load.deposits : fwd'[e].status = "pending" => fwd'[e].memo \in load.memos
      BY <1>2, <2>1, <3>2, <3>3
    <3> QED BY <1>2, <1>4, <2>2, <3>4
  <2>3. ASSUME lost' = lost \cup {fwd[d].memo}, UNCHANGED <<intents, fwd>> PROVE IInv'
    BY <1>2, <1>4, <2>1, <2>3
  <2> QED BY <1>6, <2>2, <2>3 DEF MarkForward
<1>7. ASSUME NEW m \in load.memos, CloseIntent(m) PROVE IInv'
  <2>1. intents[m] # None /\ intents[m] \in Intent(load) /\ UNCHANGED <<fwd, lost>>
    BY <1>2, <1>7 DEF CloseIntent
  <2>2. PICK s \in {"completed", "failed", "expired"} :
          /\ s = "completed" => Settled(m, "done")
          /\ s = "failed" => Settled(m, "failed")
          /\ intents' = [intents EXCEPT ![m].status = s]
    BY <1>7 DEF CloseIntent
  <2>3. PICK i : i = [intents[m] EXCEPT !.status = s]
    OBVIOUS
  <2>4. /\ i \in Intent(load) /\ i.wallet = intents[m].wallet /\ i.pool = intents[m].pool
        /\ i.order = intents[m].order /\ i.status = s
    BY <2>1, <2>3 DEF Intent
  <2>5. intents' = [intents EXCEPT ![m] = i]
    BY <2>2, <2>3
  <2>6. PICK t : t = [wallet |-> i.wallet, pool |-> i.pool, order |-> i.order]
    OBVIOUS
  <2>7. t \in Told(load) /\ t # NotTold /\ t.wallet = i.wallet /\ t.pool = i.pool /\ t.order = i.order
    <3>1. i.wallet \in Wallets /\ i.pool \in 1 .. Pools /\ i.order \in load.orders \cup {None}
      BY <2>4 DEF Intent
    <3>2. t.pool # NotTold.pool
      BY <2>6, <3>1, ServiceIsRight DEF NotTold
    <3>3. t \in Told(load)
      BY <2>6, <3>1, ServiceIsRight DEF Told
    <3> QED BY <2>6, <3>2, <3>3
  <2>8. RowsTyped' /\ RowsGrow /\ RowsAreTrue'
    BY <1>1, <2>1, <2>2, <2>4, <2>5, <2>7, OneRow
  <2> QED BY <2>8, <1>3
<1> QED BY <1>2, <1>5, <1>6, <1>7 DEF Forwarder

-----------------------------------------------------------------------------
(* The other steps.                                                        *)

LEMMA RunEndsStep ==
  ASSUME IInv, NEW s \in Submissions, RunEnds(s)
  PROVE  IInv'
<1>1. /\ UNCHANGED <<load, phase, late, workers, stops, limiter, nextPool, tables, told>>
      /\ run' = run \ {s} /\ recording' = recording \ {s}
      /\ req \in [Conns -> Requests(load)] /\ run \subseteq Submissions /\ s # None
      /\ req' = [c \in Conns |-> IF req[c].sub = s THEN [req[c] EXCEPT !.pc = "answer", !.sub = None]
                                 ELSE req[c]]
  BY NoneIsNothing DEF RunEnds, IInv, Typed, RequestsTyped
<1>2. RowsGrow /\ RowsAreTrue'
  BY <1>1, RowsUnchanged DEF IInv
<1>3. ProcessTyped' /\ RowsTyped'
  BY <1>1 DEF IInv, Typed, ProcessTyped, RowsTyped, Intent, Forward, Told, tables
<1>4. LimiterTyped' /\ RateIsKept'
  BY <1>1, LimiterKeeps DEF IInv, Typed, LimiterStep
<1>5. ASSUME NEW c \in Conns
      PROVE  /\ req'[c] \in Requests(load) /\ Shaped(req[c])' /\ Learnt(req[c])'
             /\ req[c].pc = "idle" => req'[c].pc = "idle"
  <2>1. PICK x : x = req[c]
    OBVIOUS
  <2>2. x \in Requests(load) /\ Shaped(x) /\ Learnt(x)
    BY <1>1, <2>1 DEF IInv, RequestsAreRight
  <2>3. CASE x.sub = s
    <3>1. PICK y : y = [x EXCEPT !.pc = "answer", !.sub = None]
      OBVIOUS
    <3>2. req'[c] = y
      BY <1>1, <2>1, <2>3, <3>1
    <3>3. y \in Requests(load)
      BY <2>2, <3>1 DEF Requests, Steps
    <3>4. y.pc = "answer" /\ y.sub = None /\ y.kind = x.kind
      BY <2>2, <3>1 DEF Requests
    <3>5. x.kind # "status" /\ x.pc # "idle"
      BY <2>2, <2>3, <1>1 DEF Shaped
    <3> QED BY <2>1, <3>2, <3>3, <3>4, <3>5 DEF Shaped, Learnt
  <2>4. CASE x.sub # s
    <3>1. req'[c] = x
      BY <1>1, <2>1, <2>4
    <3>2. Learnt(x)'
      BY <2>2, <1>2, StillLearnt
    <3> QED BY <2>1, <2>2, <3>1, <3>2 DEF Shaped, Learnt
  <2> QED BY <2>3, <2>4
<1>6. RequestsTyped'
  <2>1. Requests(load)' = Requests(load)
    BY <1>1 DEF Requests
  <2>2. req' \in [Conns -> Requests(load)]
    BY <1>1, <1>5
  <2> QED BY <1>1, <2>1, <2>2 DEF RequestsTyped
<1>7. RequestsAreRight'
  BY <1>5 DEF RequestsAreRight
<1>8. Drained'
  BY <1>1, <1>5 DEF IInv, Drained
<1> QED BY <1>2, <1>3, <1>4, <1>6, <1>7, <1>8 DEF IInv, Typed

\* The shutdown, the workers, the clock and a new process.
StopOrWork ==
  \/ Signal \/ Deadline \/ WorkersStop \/ Stop \/ Exit \/ Restart \/ Tick
  \/ Retry \/ \E s \in Submissions : Record(s)

LEMMA StopStep ==
  ASSUME IInv, StopOrWork
  PROVE  IInv'
<1>1. UNCHANGED <<load, req, run, tables, told>>
  BY DEF StopOrWork, Signal, Deadline, WorkersStop, Stop, Exit,
           Retry, Record, Restart, Tick
<1>2. RowsGrow /\ RowsAreTrue'
  BY <1>1, RowsUnchanged DEF IInv
<1>3. LimiterTyped' /\ RateIsKept'
  <2>1. LimiterStep
    BY <1>1 DEF LimiterStep, StopOrWork, Signal, Deadline, WorkersStop, Stop, Exit,
           Retry, Record, Restart, Tick
  <2> QED BY <2>1, LimiterKeeps DEF IInv, Typed
<1>4. ProcessTyped'
  <2>1. load.stops \in Nat
    BY ServiceIsRight DEF IInv, Typed, ProcessTyped, IsLoad
  <2>2. phase' \in Phases
    BY DEF IInv, Typed, ProcessTyped, Phases, process,
           StopOrWork, Signal, Deadline, WorkersStop, Stop, Exit,
           Retry, Record, Restart, Tick
  <2>3. late' \in BOOLEAN /\ workers' \in Working
    BY DEF IInv, Typed, ProcessTyped, Working, process, StopOrWork, Signal, Deadline, WorkersStop, Stop, Exit,
           Retry, Record, Restart, Tick
  <2>4. stops' \in 0 .. load.stops
    BY <2>1 DEF IInv, Typed, ProcessTyped, process,
           StopOrWork, Signal, Deadline, WorkersStop, Stop, Exit,
           Retry, Record, Restart, Tick
  <2>5. recording' \subseteq Submissions
    BY DEF IInv, Typed, ProcessTyped, process, StopOrWork, Signal, Deadline, WorkersStop, Stop, Exit,
           Retry, Record, Restart, Tick
  <2> QED BY <1>1, <2>2, <2>3, <2>4, <2>5 DEF IInv, Typed, ProcessTyped
<1>5. RowsTyped'
  <2>1. nextPool' \in 0 .. Pools - 1
    BY ServiceIsRight DEF IInv, Typed, RowsTyped, StopOrWork, Signal, Deadline, WorkersStop, Stop, Exit,
           Retry, Record, Restart, Tick
  <2> QED BY <1>1, <2>1 DEF IInv, Typed, RowsTyped, Intent, Forward, Told, tables
<1>6. RequestsTyped'
  BY <1>1 DEF IInv, Typed, RequestsTyped, Requests
<1>7. RequestsAreRight'
  BY <1>1, <1>2, WaitingStep
<1>8. Drained'
  BY <1>1 DEF IInv, Typed, ProcessTyped, Drained, process,
            StopOrWork, Signal, Deadline, WorkersStop, Stop, Exit, Retry, Record,
            ShutdownReturns, Cancels, Restart, Tick
<1> QED BY <1>2, <1>3, <1>4, <1>5, <1>6, <1>7, <1>8 DEF IInv, Typed

LEMMA GoneStep ==
  ASSUME IInv, PoolCloses \/ Crash
  PROVE  IInv'
<1>1. /\ UNCHANGED <<load, limiter, nextPool, tables, told>> /\ load \in Loads
      /\ phase' = "down" /\ late' = FALSE /\ workers' = "gone" /\ run' = {} /\ recording' = {}
      /\ req' = [c \in Conns |-> Idle]
  BY DEF PoolCloses, Crash, Gone, IInv, Typed, ProcessTyped
<1>2. RowsGrow /\ RowsAreTrue'
  BY <1>1, RowsUnchanged DEF IInv
<1>3. LimiterTyped' /\ RateIsKept'
  BY <1>1, LimiterKeeps DEF IInv, Typed, LimiterStep
<1>4. ProcessTyped'
  <2>1. load.stops \in Nat
    BY <1>1, ServiceIsRight DEF IsLoad
  <2>2. stops' \in 0 .. load.stops
    BY <2>1 DEF IInv, Typed, ProcessTyped, PoolCloses, Crash
  <2> QED BY <1>1, <2>2 DEF ProcessTyped, Phases, Working
<1>5. RowsTyped'
  BY <1>1 DEF IInv, Typed, RowsTyped, Intent, Forward, Told, tables
<1>6. Idle \in Requests(load) /\ Shaped(Idle) /\ Learnt(Idle)'
  BY <1>1, IdleIsRight
<1>7. RequestsTyped'
  <2>1. Requests(load)' = Requests(load)
    BY <1>1 DEF Requests
  <2> QED BY <1>1, <1>6, <2>1 DEF RequestsTyped
<1>8. RequestsAreRight'
  <2> SUFFICES ASSUME NEW c \in Conns PROVE Shaped(req[c])' /\ Learnt(req[c])'
    BY DEF RequestsAreRight
  <2>1. req'[c] = Idle
    BY <1>1
  <2> QED BY <2>1, <1>6 DEF Shaped, Learnt, Idle
<1>9. Drained'
  BY <1>1 DEF Drained
<1> QED BY <1>2, <1>3, <1>4, <1>5, <1>7, <1>8, <1>9 DEF IInv, Typed

LEMMA StutterStep ==
  ASSUME IInv, UNCHANGED vars
  PROVE  IInv'
<1>1. UNCHANGED <<load, process, limiter, req, run, nextPool, tables, told>>
  BY DEF vars
<1>2. RowsGrow /\ RowsAreTrue'
  BY <1>1, RowsUnchanged DEF IInv
<1>3. LimiterTyped' /\ RateIsKept'
  BY <1>1, LimiterKeeps DEF IInv, Typed, LimiterStep
<1>4. ProcessTyped' /\ RowsTyped' /\ RequestsTyped' /\ Drained'
  BY <1>1 DEF IInv, Typed, ProcessTyped, RowsTyped, RequestsTyped, Requests, Intent, Forward, Told,
            tables, process, Drained
<1>5. RequestsAreRight'
  BY <1>1, <1>2, WaitingStep
<1> QED BY <1>2, <1>3, <1>4, <1>5 DEF IInv, Typed

LEMMA StepIInv == IInv /\ [Next]_vars => IInv'
<1> SUFFICES ASSUME IInv, [Next]_vars PROVE IInv'
  OBVIOUS
<1>1. ASSUME NEW c \in Conns, Serve(c) PROVE IInv'
  BY <1>1, RequestStep, ProbeStep, ReadStep, CreateIntentStep, SetExternalIDStep DEF Serve
<1> QED BY <1>1, RunEndsStep, ForwarderStep, StopStep, GoneStep, StutterStep DEF Next, StopOrWork

LEMMA InitIInv == Init => IInv
<1> SUFFICES ASSUME Init PROVE IInv
  OBVIOUS
<1>1. load \in Loads /\ IsLoad(load) /\ load.stops \in Nat /\ Burst \in Nat /\ Pools \in Nat \ {0}
  BY ServiceIsRight DEF Init, IsLoad
<1>2. ProcessTyped /\ LimiterTyped
  <2>0. late \in BOOLEAN /\ workers \in Working
    BY Zenon DEF Init, Working
  <2>1. ProcessTyped
    BY <1>1, <2>0 DEF Init, ProcessTyped, Phases
  <2>2. DOMAIN buckets = {} /\ buckets \in [{} -> Bucket]
    BY DEF Init
  <2>3. owed \in [load.headers -> 0 .. Burst]
    BY <1>1 DEF Init
  <2> QED BY <2>1, <2>2, <2>3 DEF LimiterTyped
<1>3. RowsTyped
  <2>1. NoForward \in Forward(load) /\ NoForward.status # "pending"
    BY NoneIsNothing DEF NoForward, Forward
  <2>2. NotTold \in Told(load)
    BY <1>1 DEF NotTold, Told
  <2> QED BY <1>1, <2>1, <2>2 DEF Init, RowsTyped
<1>4. RequestsTyped
  <2>1. Idle \in Requests(load)
    BY <1>1, IdleIsRight
  <2> QED BY <2>1 DEF Init, RequestsTyped
<1>5. RateIsKept
  BY DEF Init, RateIsKept
<1>6. RowsAreTrue
  BY DEF Init, RowsAreTrue, RowIsTrue
<1>7. RequestsAreRight
  <2>1. None # "status"
    BY NoneIsNothing DEF Routes
  <2> QED BY <2>1 DEF Init, RequestsAreRight, Idle, Shaped, Learnt
<1>8. Drained
  BY DEF Init, Drained
<1> QED BY <1>2, <1>3, <1>4, <1>5, <1>6, <1>7, <1>8 DEF IInv, Typed

LEMMA Inductive == Spec => []IInv
BY InitIInv, StepIInv, PTL DEF Spec

-----------------------------------------------------------------------------
(* Theorems.                                                               *)

\* The variables of the service keep their types.
THEOREM Typing == Spec => []TypeOK
<1>1. IInv => TypeOK
  BY DEF IInv, Typed, ProcessTyped, LimiterTyped, RowsTyped, RequestsTyped, TypeOK,
         Phases, Working, Bucket
<1> QED BY <1>1, Inductive, PTL

\* evictIdle and the refill of allow together give every Authorization header exactly
\* the requests a bucket that was never dropped would have given it, for any burst,
\* refill and number of keys.
THEOREM AllowanceIsExact == Spec => []RateIsKept
<1>1. IInv => RateIsKept
  BY DEF IInv
<1> QED BY <1>1, Inductive, PTL

\* DepositStatus answers coherently although CompleteIntent, FailIntent and the
\* writes to forwards run between its two queries.
THEOREM StatusIsCoherent == Spec => []AnswerIsCoherent
<1>1. IInv => AnswerIsCoherent
  BY DEF IInv, RequestsAreRight, Learnt, AnswerIsCoherent
<1> QED BY <1>1, Inductive, PTL

\* What CreateIntent and SetIntentExternalID have told a caller stays true, and a
\* conflict is reported only for an intent bound to another order, for any number of
\* concurrent binds.
THEOREM BindingsAreKept == Spec => []BindingIsKept
<1>1. IInv => BindingIsKept
  <2> SUFFICES ASSUME IInv PROVE BindingIsKept
    OBVIOUS
  <2>1. \A m \in load.memos : RowIsTrue(m)
    BY DEF IInv, RowsAreTrue
  <2>2. \A c \in Conns : req[c].pc = "conflict" => intents[req[c].memo].order \notin {None, req[c].order}
    BY DEF IInv, RequestsAreRight, Learnt
  <2> QED BY <2>1, <2>2 DEF BindingIsKept, RowIsTrue
<1> QED BY <1>1, Inductive, PTL

\* Shutdown and Drain cancel the tracker's context under no submission, and under no
\* request that could start one, before the shutdown deadline.
THEOREM DrainSparesWork == Spec => []WorkIsSpared
<1>1. IInv => WorkIsSpared
  BY DEF IInv, Drained, WorkIsSpared
<1> QED BY <1>1, Inductive, PTL
=============================================================================
