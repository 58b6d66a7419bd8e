---------------------------- MODULE PricingProofs ----------------------------
(***************************************************************************)
(* Theorems about Pricing, for any number of callers and requests, any     *)
(* feed, any fees and any delays.                                          *)
(***************************************************************************)
EXTENDS Pricing, TLAPS

-----------------------------------------------------------------------------
(* Fee arithmetic.                                                         *)

\* What is known of the constants, one by one.
LEMMA FeeConstants ==
  /\ MinBaseFee \in Nat /\ MaxInclusionFee \in Nat /\ MinBaseFee <= MaxInclusionFee
  /\ MaxResourceFeeStroops \in Nat /\ MarginBps \in Nat /\ PriceScale \in Nat /\ PriceScale > 0
  /\ MaxUint32 \in Nat /\ MaxInt64 \in Nat
  /\ MaxResourceFeeStroops + 2 * MaxInclusionFee <= MaxInt64
  /\ MaxUint32 + MaxInclusionFee <= MaxInt64
  /\ Whole \in Nat /\ Whole > 0
BY FeesAreRight DEF Whole

\* Rounding up: the quotient is the least that covers the dividend.
Ceil(n, d) == IF n % d > 0 THEN n \div d + 1 ELSE n \div d

LEMMA CeilCovers ==
  ASSUME NEW n \in Nat, NEW d \in Nat, d > 0
  PROVE  /\ Ceil(n, d) \in Nat
         /\ n <= Ceil(n, d) * d
         /\ \A k \in Nat : n <= k * d => Ceil(n, d) <= k
<1> DEFINE q == n \div d
           m == n % d
<1>1. q \in Nat /\ m \in Nat /\ m < d /\ n = q * d + m
  BY SMT
<1> HIDE DEF q, m
<1>2. CASE m = 0
  <2>1. Ceil(n, d) = q
    BY <1>1, <1>2 DEF Ceil, q, m
  <2>2. n = q * d
    BY <1>1, <1>2
  <2>3. ASSUME NEW k \in Nat, n <= k * d PROVE q <= k
    <3>1. SUFFICES ASSUME k < q PROVE FALSE
      BY <1>1
    <3>2. q = k + (q - k) /\ q - k \in Nat /\ q - k >= 1
      BY <3>1, <1>1
    <3>3. q * d = k * d + (q - k) * d /\ (q - k) * d >= d
      BY <3>2, <1>1, SMT
    <3>4. QED
      BY <3>3, <2>2, <2>3, <1>1
  <2>4. QED
    BY <2>1, <2>2, <2>3, <1>1
<1>3. CASE m > 0
  <2>1. Ceil(n, d) = q + 1
    BY <1>1, <1>3 DEF Ceil, q, m
  <2>2. (q + 1) * d = q * d + d /\ q * d \in Nat
    BY <1>1, SMT
  <2>3. ASSUME NEW k \in Nat, n <= k * d PROVE q + 1 <= k
    <3>1. SUFFICES ASSUME k <= q PROVE FALSE
      BY <1>1
    <3>2. k * d <= q * d
      BY <3>1, <1>1, SMT
    <3>3. QED
      BY <3>2, <2>3, <1>1, <1>3, <2>2
  <2>4. QED
    BY <2>1, <2>2, <2>3, <1>1
<1>4. QED
  BY <1>1, <1>2, <1>3

\* The fee is the conversion rounded up, at least one, unless it does not fit.
LEMMA FeeIsCeil ==
  ASSUME NEW price \in Nat, NEW stroops \in Nat
  PROVE  LET num == stroops * (Whole + MarginBps) * price
             den == Whole * PriceScale
         IN  /\ num \in Nat /\ den \in Nat /\ den > 0
             /\ Ceil(num, den) \in Nat
             /\ FeeInToken(price, stroops) =
                  IF Ceil(num, den) > MaxInt64 THEN Overflow ELSE Most(Ceil(num, den), 1)
<1> DEFINE num == stroops * (Whole + MarginBps) * price
           den == Whole * PriceScale
<1>1. num \in Nat /\ den \in Nat /\ den > 0
  BY FeeConstants, SMT
<1>2. Ceil(num, den) \in Nat
  <2> HIDE DEF num, den
  <2> QED BY <1>1, CeilCovers
<1>3. FeeInToken(price, stroops) =
        IF Ceil(num, den) > MaxInt64 THEN Overflow ELSE Most(Ceil(num, den), 1)
  BY DEF FeeInToken, Ceil
<1>4. QED
  BY <1>1, <1>2, <1>3

\* A fee is a positive amount, or the mark of an overflow.
LEMMA FeeType ==
  ASSUME NEW price \in Nat, NEW stroops \in Nat
  PROVE  /\ FeeInToken(price, stroops) \in Int
         /\ FeeInToken(price, stroops) # Overflow =>
              FeeInToken(price, stroops) \in Nat /\ FeeInToken(price, stroops) >= 1
<1> DEFINE num == stroops * (Whole + MarginBps) * price
           den == Whole * PriceScale
<1>1. /\ Ceil(num, den) \in Nat
      /\ FeeInToken(price, stroops) =
           IF Ceil(num, den) > MaxInt64 THEN Overflow ELSE Most(Ceil(num, den), 1)
  BY FeeIsCeil
<1> HIDE DEF num, den
<1>2. QED
  BY <1>1, FeeConstants DEF Overflow, Most

\* Rounding never makes the fee less than the converted cost with its margin.
LEMMA FeeCovers ==
  ASSUME NEW price \in Nat, NEW stroops \in Nat, FeeInToken(price, stroops) # Overflow
  PROVE  stroops * (Whole + MarginBps) * price <= FeeInToken(price, stroops) * (Whole * PriceScale)
<1> DEFINE num == stroops * (Whole + MarginBps) * price
           den == Whole * PriceScale
           q == Ceil(num, den)
           fee == FeeInToken(price, stroops)
<1>1. /\ num \in Nat /\ den \in Nat /\ den > 0 /\ q \in Nat
      /\ fee = IF q > MaxInt64 THEN Overflow ELSE Most(q, 1)
  BY FeeIsCeil
<1>2. fee # Overflow
  OBVIOUS
<1>3. num <= q * den
  <2> HIDE DEF num, den
  <2> QED BY <1>1, CeilCovers DEF q
<1> HIDE DEF num, den, q, fee
<1>4. fee \in Nat /\ q <= fee
  BY <1>1, <1>2 DEF Most
<1>5. q * den <= fee * den
  BY <1>1, <1>4, SMT
<1>6. q * den \in Int /\ fee * den \in Int
  BY <1>1, <1>4
<1>7. num <= fee * den
  BY <1>1, <1>3, <1>5, <1>6
<1>8. QED
  BY <1>7 DEF num, den, fee

\* Products of naturals grow with their factors.
LEMMA ProductGrows ==
  ASSUME NEW a \in Nat, NEW b \in Nat, NEW x \in Nat, NEW y \in Nat, a <= b, x <= y
  PROVE  a * x <= b * y
<1>1. a * x <= b * x
  BY SMT
<1>2. b * x <= b * y
  BY SMT
<1>3. QED
  BY <1>1, <1>2

\* A fee grows with the price and with the cost.
LEMMA FeeGrows ==
  ASSUME NEW p1 \in Nat, NEW p2 \in Nat, p1 <= p2,
         NEW s1 \in Nat, NEW s2 \in Nat, s1 <= s2,
         FeeInToken(p2, s2) # Overflow
  PROVE  FeeInToken(p1, s1) # Overflow /\ FeeInToken(p1, s1) <= FeeInToken(p2, s2)
<1> DEFINE w == Whole + MarginBps
           n1 == s1 * w * p1
           n2 == s2 * w * p2
           den == Whole * PriceScale
           q1 == Ceil(n1, den)
           q2 == Ceil(n2, den)
<1>1. /\ n1 \in Nat /\ n2 \in Nat /\ den \in Nat /\ den > 0 /\ q1 \in Nat /\ q2 \in Nat
      /\ FeeInToken(p1, s1) = IF q1 > MaxInt64 THEN Overflow ELSE Most(q1, 1)
      /\ FeeInToken(p2, s2) = IF q2 > MaxInt64 THEN Overflow ELSE Most(q2, 1)
  BY FeeIsCeil
<1>2. n1 <= n2
  <2>1. w \in Nat
    BY FeeConstants
  <2>2. s1 * w \in Nat /\ s2 * w \in Nat
    <3> HIDE DEF w
    <3> QED BY <2>1, SMT
  <2>3. s1 * w <= s2 * w
    <3> HIDE DEF w
    <3> QED BY <2>1, ProductGrows
  <2> DEFINE a == s1 * w
             b == s2 * w
  <2>4. a \in Nat /\ b \in Nat /\ a <= b
    BY <2>2, <2>3
  <2>5. a * p1 <= b * p2
    <3> HIDE DEF a, b
    <3> QED BY <2>4, ProductGrows
  <2>6. QED
    BY <2>5
<1> HIDE DEF n1, n2, den
<1>3. n2 <= q2 * den /\ q2 * den \in Int
  BY <1>1, CeilCovers
<1>4. n1 <= q2 * den
  BY <1>1, <1>2, <1>3
<1>5. q1 <= q2
  BY <1>1, <1>4, CeilCovers
<1> HIDE DEF q1, q2
<1>6. QED
  BY <1>1, <1>5, FeeConstants DEF Overflow, Most

\* The reservation covers the bid of whatever fits an envelope.
LEMMA MaxBidCovers ==
  ASSUME NEW incl \in Nat, NEW rf \in Nat, incl <= MaxInclusionFee, Fits(incl, rf)
  PROVE  Bid(incl, rf) <= maxBid(rf)
<1>1. Bid(incl, rf) = 2 * incl + rf
  <2>1. (incl + rf - rf + 1 - 1) \div 1 = incl
    BY SMT
  <2>2. QED
    BY <2>1 DEF Bid, AtInnerRate, Envelope
<1>2. QED
  BY <1>1, FeeConstants DEF Fits, Envelope, maxBid

LEMMA MaxBidType ==
  ASSUME NEW rf \in Nat
  PROVE  maxBid(rf) \in Nat
BY FeeConstants DEF maxBid

LEMMA InclusionIsBounded ==
  ASSUME NEW p \in Nat
  PROVE  inclusionFee(p) \in Nat /\ inclusionFee(p) <= MaxInclusionFee
BY FeeConstants DEF inclusionFee, Least, Most

-----------------------------------------------------------------------------
(* The inductive invariant.                                                *)

\* The price a request holds, and how long it has held it: between the fetch and
\* the use of a price no more time passes than the model's deadlines allow, so a
\* price in hand is at most that much older than the cached price it was.
HeldOK(r) ==
  /\ r.pc = "fetch" => r.wait <= FetchTimeout
  /\ r.pc = "apply" => r.wait <= MaxDelay
  /\ r.pc \notin {"fetch", "apply"} => r.wait = 0
  /\ r.held > 0 => r.pc = "apply" /\ r.birth <= TTL - 1 + FetchTimeout + r.wait

\* The inclusion fee stays below its cap, whatever the leases and retries, and the
\* reservation is the most the built transaction can bid.
BidOK(r) ==
  /\ r.incl <= MaxInclusionFee
  /\ r.pc \in {"lease", "send"} => r.reserved = maxBid(r.rf)

\* From the quote to the last pricing, the maximum signed is the quote for the
\* price and the resource fee remembered from it, unless there was no quote.
QuoteOK(r) ==
  /\ r.stage = "quote" => r.qfee <= MaxResourceFeeStroops
  /\ r.pc = "submit" \/ r.stage \in {"estimate", "fee"} =>
       \/ r.qprice = 0
       \/ r.max = FeeInToken(r.qprice, maxBid(r.qfee)) /\ r.qfee <= MaxResourceFeeStroops

\* What was validated stays what is priced, simulated and sent; past pricing the
\* call, the executor's entry and the record carry one fee.
Priceable(r) == r.stage \in {"estimate", "fee"} \/ r.pc \in {"simulate", "lease", "send"}
SignedOK(r) ==
  /\ Priceable(r) => Validate(r.req) /\ (r.req.mode = "forward" => parseForward(r.req))
  /\ r.pc \in {"simulate", "lease", "send"} /\ r.req.mode = "forward" =>
       /\ r.fee >= 1 /\ r.fee <= r.max
       /\ r.signed = r.fee /\ r.amount = r.fee
       /\ r.fee = FeeInToken(r.price, r.cost)

\* Only a request that waits for a price, or has one, is at a stage of pricing.
StageOK(r) == r.stage # "none" => r.pc \in {"read", "fetch", "apply"}

GoodCalls == {r \in Call : HeldOK(r) /\ BidOK(r) /\ QuoteOK(r) /\ SignedOK(r) /\ StageOK(r)}

\* A cached price is older than its stamp by one fetch at most, the last good one
\* by what the cache and one request add to that; and that one is plausible.
CacheOK == cache \in {p \in Priced : p.birth <= p.age + FetchTimeout}
GoodOK ==
  good \in {p \in Priced : /\ p.birth <= p.age + (TTL - 1 + FetchTimeout + MaxDelay)
                           /\ p.price > 0 => MinXLMUSD <= p.price /\ p.price <= MaxXLMUSD}

IInv ==
  /\ CacheOK /\ GoodOK
  /\ mutex \in Callers \cup {Nobody}
  /\ snap \in BOOLEAN
  /\ call \in [Callers -> GoodCalls]

-----------------------------------------------------------------------------
(* The invariant is inductive.                                             *)

LEMMA TimeConstants ==
  /\ TTL \in Nat /\ TTL > 0 /\ PriceMaxStale \in Nat /\ FetchTimeout \in Nat /\ MaxDelay \in Nat
  /\ Old \in Nat /\ Old = TTL + PriceMaxStale + FetchTimeout + MaxDelay
  /\ MinXLMUSD \in Nat /\ MaxXLMUSD \in Nat
BY PricesAreRight DEF Old

\* A request that has just come, or was answered.
LEMMA NoCallIsGood == NoCall \in GoodCalls
<1>1. NoCall \in Call
  BY TimeConstants DEF NoCall, Call
<1>2. HeldOK(NoCall) /\ BidOK(NoCall) /\ QuoteOK(NoCall) /\ SignedOK(NoCall) /\ StageOK(NoCall)
  BY FeeConstants DEF NoCall, HeldOK, BidOK, QuoteOK, SignedOK, Priceable, StageOK
<1>3. QED
  BY <1>1, <1>2 DEF GoodCalls

\* A step of one caller that leaves a good record keeps every record good.
LEMMA SetKeeps ==
  ASSUME call \in [Callers -> GoodCalls], NEW c \in Callers, NEW r \in GoodCalls, Set(c, r)
  PROVE  call' \in [Callers -> GoodCalls]
BY DEF Set

LEMMA AnswerKeeps ==
  ASSUME call \in [Callers -> GoodCalls], NEW c \in Callers, Answer(c)
  PROVE  call' \in [Callers -> GoodCalls]
BY SetKeeps, NoCallIsGood DEF Answer

\* A request that is about to ask for a price.
LEMMA AskIsGood ==
  ASSUME NEW r \in Call, NEW stage \in {"quote", "estimate", "fee"},
         r.wait = 0, r.held = 0, r.incl <= MaxInclusionFee,
         stage = "quote" => r.qfee <= MaxResourceFeeStroops,
         stage # "quote" => /\ QuoteOK([r EXCEPT !.stage = stage])
                            /\ Validate(r.req) /\ (r.req.mode = "forward" => parseForward(r.req))
  PROVE  AskPrice(r, stage) \in GoodCalls
<1> DEFINE a == AskPrice(r, stage)
<1>1. PICK p \in {"apply", "read"} : a = [r EXCEPT !.pc = p, !.stage = stage]
  BY DEF AskPrice
<1> HIDE DEF a
<1>2. a \in Call
  BY <1>1 DEF Call
<1>3. /\ a.pc = p /\ a.stage = stage /\ a.req = r.req /\ a.wait = 0 /\ a.held = 0
      /\ a.incl = r.incl /\ a.qfee = r.qfee /\ a.qprice = r.qprice /\ a.max = r.max
  BY <1>1 DEF Call
<1>4. HeldOK(a) /\ BidOK(a) /\ StageOK(a)
  BY <1>3, TimeConstants DEF HeldOK, BidOK, StageOK
<1>5. QuoteOK(a)
  <2>1. CASE stage = "quote"
    BY <1>3, <2>1 DEF QuoteOK
  <2>2. CASE stage # "quote"
    <3> DEFINE b == [r EXCEPT !.stage = stage]
    <3>1. /\ b.stage = stage /\ b.qfee = r.qfee /\ b.qprice = r.qprice /\ b.max = r.max
          /\ QuoteOK(b)
      BY <2>2 DEF Call
    <3> HIDE DEF b
    <3>2. QED
      BY <1>3, <2>2, <3>1 DEF QuoteOK
  <2>3. QED
    BY <2>1, <2>2
<1>6. SignedOK(a)
  BY <1>3 DEF SignedOK, Priceable
<1>7. QED
  BY <1>2, <1>4, <1>5, <1>6 DEF GoodCalls, a

\* What is known of a good record.
LEMMA GoodIsCall ==
  ASSUME NEW r \in GoodCalls
  PROVE  r \in Call /\ HeldOK(r) /\ BidOK(r) /\ QuoteOK(r) /\ SignedOK(r) /\ StageOK(r)
BY DEF GoodCalls

LEMMA InitHolds == Init => IInv
<1> SUFFICES ASSUME Init PROVE IInv
  OBVIOUS
<1>1. CacheOK /\ GoodOK
  BY TimeConstants DEF Init, CacheOK, GoodOK, NoPrice, Priced
<1>2. call \in [Callers -> GoodCalls]
  BY NoCallIsGood DEF Init
<1>3. QED
  BY <1>1, <1>2 DEF IInv, Init

\* The last good price stays plausible and no older than the bounds add up to.
LEMMA UsePriceKeeps ==
  ASSUME IInv, NEW c \in Callers, UsePrice(c)
  PROVE  CacheOK' /\ GoodOK' /\ (mutex \in Callers \cup {Nobody})' /\ (snap \in BOOLEAN)'
<1> DEFINE r == call[c]
<1>1. r \in Call /\ HeldOK(r) /\ r.pc = "apply" /\ GoodOK
  BY GoodIsCall DEF IInv, UsePrice
<1>2. good' = good \/ good' = NewGood(c)
  BY DEF UsePrice
<1>3. r.held \in Nat /\ r.birth \in 0 .. Old /\ r.wait \in Nat
  BY <1>1 DEF Call
<1>4. GoodOK'
  <2>1. CASE good' = good
    BY <1>1, <2>1 DEF GoodOK
  <2>2. CASE Plausible(r.held) /\ good' = NewGood(c)
    <3>1. good' = [price |-> r.held, age |-> 0, birth |-> r.birth]
      BY <2>2 DEF NewGood
    <3>2. r.birth <= 0 + (TTL - 1 + FetchTimeout + MaxDelay)
      BY <1>1, <1>3, <2>2, TimeConstants DEF HeldOK, Plausible
    <3> HIDE DEF r
    <3>3. QED
      BY <1>3, <2>2, <3>1, <3>2, TimeConstants DEF GoodOK, Priced, Plausible
  <2>3. CASE ~Plausible(r.held) /\ good' = NewGood(c)
    BY <1>1, <2>3 DEF GoodOK, NewGood
  <2>4. QED
    BY <1>2, <2>1, <2>2, <2>3
<1>5. QED
  BY <1>4 DEF IInv, UsePrice, CacheOK

\* A price asked for with its request is answered, or the request is refused.
LEMMA RefuseKeeps ==
  ASSUME IInv, NEW c \in Callers, Refuse(c)
  PROVE  IInv'
BY UsePriceKeeps, AnswerKeeps DEF IInv, Refuse

LEMMA ReadCachedKeeps ==
  ASSUME IInv, NEW c \in Callers, ReadCached(c)
  PROVE  IInv'
<1> DEFINE r == call[c]
           a == [r EXCEPT !.pc = "apply", !.held = cache.price, !.birth = cache.birth]
<1>1. /\ r \in Call /\ HeldOK(r) /\ BidOK(r) /\ QuoteOK(r) /\ SignedOK(r) /\ StageOK(r)
      /\ r.pc = "read"
  BY GoodIsCall DEF IInv, ReadCached
<1>2. cache.price \in Nat /\ cache.age \in Nat /\ cache.birth \in 0 .. Old
      /\ cache.birth <= cache.age + FetchTimeout /\ cache.age < TTL
  BY TimeConstants DEF IInv, CacheOK, Priced, ReadCached, Fresh
<1> HIDE DEF r
<1>3. a \in Call
  BY <1>1, <1>2 DEF Call
<1>4. /\ a.pc = "apply" /\ a.stage = r.stage /\ a.req = r.req /\ a.wait = r.wait
      /\ a.held = cache.price /\ a.birth = cache.birth
      /\ a.incl = r.incl /\ a.qfee = r.qfee /\ a.qprice = r.qprice /\ a.max = r.max
  BY <1>1 DEF Call
<1> HIDE DEF a
<1>5. HeldOK(a)
  BY <1>1, <1>2, <1>4, TimeConstants DEF HeldOK
<1>6. BidOK(a) /\ QuoteOK(a) /\ SignedOK(a) /\ StageOK(a)
  BY <1>1, <1>4 DEF BidOK, QuoteOK, SignedOK, Priceable, StageOK
<1>7. a \in GoodCalls
  BY <1>3, <1>5, <1>6 DEF GoodCalls
<1>8. Set(c, a)
  BY DEF ReadCached, a, r
<1>9. QED
  BY <1>7, <1>8, SetKeeps DEF IInv, ReadCached, CacheOK, GoodOK

LEMMA FetchStartKeeps ==
  ASSUME IInv, NEW c \in Callers, FetchStart(c)
  PROVE  IInv'
<1> DEFINE r == call[c]
           a == [r EXCEPT !.pc = "fetch"]
<1>1. /\ r \in Call /\ HeldOK(r) /\ BidOK(r) /\ QuoteOK(r) /\ SignedOK(r) /\ StageOK(r)
      /\ r.pc = "read"
  BY GoodIsCall DEF IInv, FetchStart
<1> HIDE DEF r
<1>2. a \in Call
  BY <1>1 DEF Call
<1>3. /\ a.pc = "fetch" /\ a.stage = r.stage /\ a.req = r.req /\ a.wait = r.wait
      /\ a.held = r.held /\ a.birth = r.birth
      /\ a.incl = r.incl /\ a.qfee = r.qfee /\ a.qprice = r.qprice /\ a.max = r.max
  BY <1>1 DEF Call
<1> HIDE DEF a
<1>4. HeldOK(a)
  BY <1>1, <1>3, TimeConstants DEF HeldOK
<1>5. BidOK(a) /\ QuoteOK(a) /\ SignedOK(a) /\ StageOK(a)
  BY <1>1, <1>3 DEF BidOK, QuoteOK, SignedOK, Priceable, StageOK
<1>6. a \in GoodCalls
  BY <1>2, <1>4, <1>5 DEF GoodCalls
<1>7. Set(c, a)
  BY DEF FetchStart, a, r
<1>8. QED
  BY <1>6, <1>7, SetKeeps DEF IInv, FetchStart, CacheOK, GoodOK

\* The cached price is as old as its fetch.
LEMMA FetchEndKeeps ==
  ASSUME IInv, NEW c \in Callers, FetchEnd(c)
  PROVE  IInv'
<1> DEFINE r == call[c]
<1>1. /\ r \in Call /\ HeldOK(r) /\ BidOK(r) /\ QuoteOK(r) /\ SignedOK(r) /\ StageOK(r)
      /\ r.pc = "fetch"
  BY GoodIsCall DEF IInv, FetchEnd
<1>2. PICK p \in Nat, b \in 0 .. Old :
        /\ Set(c, [r EXCEPT !.pc = "apply", !.held = p, !.birth = b, !.wait = 0])
        /\ b <= FetchTimeout \/ p = 0
        /\ \/ cache' = cache
           \/ cache' = [price |-> p, age |-> 0, birth |-> b] /\ b <= FetchTimeout
  <2>1. r.wait \in 0 .. Old /\ r.wait <= FetchTimeout
    BY <1>1, TimeConstants DEF HeldOK, Call
  <2>2. CASE \E p \in FeedPrices :
          /\ cache' = [price |-> p, age |-> 0, birth |-> r.wait]
          /\ Set(c, [r EXCEPT !.pc = "apply", !.held = p, !.birth = r.wait, !.wait = 0])
    BY <2>1, <2>2, PricesAreRight
  <2>3. CASE Set(c, [r EXCEPT !.pc = "apply", !.held = 0, !.wait = 0]) /\ cache' = cache
    <3>1. [r EXCEPT !.pc = "apply", !.held = 0, !.wait = 0]
            = [r EXCEPT !.pc = "apply", !.held = 0, !.birth = r.birth, !.wait = 0]
      BY <1>1 DEF Call
    <3>2. r.birth \in 0 .. Old
      BY <1>1 DEF Call
    <3>3. QED
      BY <2>3, <3>1, <3>2
  <2>4. QED
    BY <2>2, <2>3 DEF FetchEnd
<1> DEFINE a == [r EXCEPT !.pc = "apply", !.held = p, !.birth = b, !.wait = 0]
<1>3. Set(c, a)
  BY <1>2
<1> HIDE DEF r
<1>4. a \in Call
  BY <1>1 DEF Call
<1>5. /\ a.pc = "apply" /\ a.stage = r.stage /\ a.req = r.req /\ a.wait = 0
      /\ a.held = p /\ a.birth = b
      /\ a.incl = r.incl /\ a.qfee = r.qfee /\ a.qprice = r.qprice /\ a.max = r.max
  BY <1>1 DEF Call
<1> HIDE DEF a
<1>6. HeldOK(a)
  BY <1>2, <1>5, TimeConstants DEF HeldOK
<1>7. BidOK(a) /\ QuoteOK(a) /\ SignedOK(a) /\ StageOK(a)
  BY <1>1, <1>5 DEF BidOK, QuoteOK, SignedOK, Priceable, StageOK
<1>8. a \in GoodCalls
  BY <1>4, <1>6, <1>7 DEF GoodCalls
<1>9. CacheOK'
  BY <1>2, TimeConstants DEF IInv, CacheOK, Priced
<1>10. QED
  BY <1>3, <1>8, <1>9, SetKeeps DEF IInv, FetchEnd, GoodOK

\* A quote is asked for with a resource fee that can be priced; what needs no quote
\* has no quoted price.
LEMMA AskKeeps ==
  ASSUME IInv, NEW c \in Callers, Ask(c)
  PROVE  IInv'
<1>1. NoCall \in Call
  BY NoCallIsGood, GoodIsCall
<1>2. PICK q \in Requests[c] :
        \/ \E f \in ResourceFees :
             /\ f <= MaxResourceFeeStroops
             /\ Set(c, AskPrice([NoCall EXCEPT !.req = q, !.qfee = f], "quote"))
        \/ Set(c, [NoCall EXCEPT !.req = q, !.pc = "submit"])
        \/ Set(c, [NoCall EXCEPT !.req = q, !.pc = "submit", !.max = 1])
  BY DEF Ask
<1>3. q \in (UNION {Requests[d] : d \in Callers}) \cup {NoRequest}
  OBVIOUS
<1>4. call' \in [Callers -> GoodCalls]
  <2>1. CASE \E f \in ResourceFees :
               /\ f <= MaxResourceFeeStroops
               /\ Set(c, AskPrice([NoCall EXCEPT !.req = q, !.qfee = f], "quote"))
    <3>1. PICK f \in ResourceFees :
               /\ f <= MaxResourceFeeStroops
               /\ Set(c, AskPrice([NoCall EXCEPT !.req = q, !.qfee = f], "quote"))
      BY <2>1
    <3> DEFINE r == [NoCall EXCEPT !.req = q, !.qfee = f]
    <3>2. r \in Call
      BY <1>1, <1>3, PricesAreRight DEF Call
    <3>3. r.wait = 0 /\ r.held = 0 /\ r.incl <= MaxInclusionFee /\ r.qfee <= MaxResourceFeeStroops
      BY <3>1, FeeConstants DEF NoCall
    <3> HIDE DEF r
    <3>4. AskPrice(r, "quote") \in GoodCalls
      BY <3>2, <3>3, AskIsGood, Zenon
    <3>5. QED
      BY <3>1, <3>4, SetKeeps DEF IInv, r
  <2>2. ASSUME NEW m \in Nat, Set(c, [NoCall EXCEPT !.req = q, !.pc = "submit", !.max = m])
        PROVE  call' \in [Callers -> GoodCalls]
    <3> DEFINE a == [NoCall EXCEPT !.req = q, !.pc = "submit", !.max = m]
    <3>1. a \in Call
      BY <1>1, <1>3 DEF Call
    <3>2. a.pc = "submit" /\ a.stage = "none" /\ a.wait = 0 /\ a.held = 0 /\ a.incl = 0
          /\ a.qprice = 0
      BY DEF NoCall
    <3>3. Set(c, a)
      BY <2>2
    <3> HIDE DEF a
    <3>4. a \in GoodCalls
      BY <3>1, <3>2, FeeConstants
      DEF GoodCalls, HeldOK, BidOK, QuoteOK, SignedOK, Priceable, StageOK
    <3>5. QED
      BY <3>3, <3>4, SetKeeps DEF IInv
  <2>3. CASE Set(c, [NoCall EXCEPT !.req = q, !.pc = "submit"])
    <3>1. [NoCall EXCEPT !.req = q, !.pc = "submit"]
            = [NoCall EXCEPT !.req = q, !.pc = "submit", !.max = 0]
      <4>1. NoCall.max = 0
        BY DEF NoCall
      <4>2. QED
        BY <1>1, <4>1 DEF Call
    <3>2. QED
      BY <2>2, <2>3, <3>1
  <2>4. QED
    BY <1>2, <2>1, <2>2, <2>3
<1>5. QED
  BY <1>4 DEF IInv, Ask, CacheOK, GoodOK

\* A price read for a request is a number.
LEMMA PriceType ==
  ASSUME IInv, NEW c \in Callers
  PROVE  Price(c) \in Nat
<1>1. call[c].held \in Nat /\ good.price \in Nat
  BY GoodIsCall DEF IInv, GoodOK, Priced, Call
<1>2. xlmUSD(c).price \in Nat
  <2>1. CASE Plausible(call[c].held)
    BY <1>1, <2>1 DEF xlmUSD, NoPrice
  <2>2. CASE ~Plausible(call[c].held)
    BY <1>1, <2>2 DEF xlmUSD, NoPrice
  <2>3. QED
    BY <2>1, <2>2
<1>3. QED
  BY <1>2, FeeConstants DEF Price

\* A request that is done with its price.
LEMMA UsedIsCall ==
  ASSUME IInv, NEW c \in Callers
  PROVE  /\ Used(c) \in Call
         /\ Used(c).held = 0 /\ Used(c).wait = 0
         /\ Used(c).req = call[c].req /\ Used(c).max = call[c].max
         /\ Used(c).qfee = call[c].qfee /\ Used(c).qprice = call[c].qprice
         /\ Used(c).incl = call[c].incl /\ Used(c).rf = call[c].rf
<1> DEFINE r == call[c]
           u == [r EXCEPT !.held = 0, !.birth = 0, !.wait = 0]
<1>1. r \in Call /\ Used(c) = u
  BY GoodIsCall DEF IInv, Used
<1> HIDE DEF r
<1>2. 0 \in 0 .. Old
  BY TimeConstants
<1>3. u \in Call
  BY <1>1, <1>2 DEF Call
<1>4. /\ u.held = 0 /\ u.wait = 0
      /\ u.req = r.req /\ u.max = r.max /\ u.qfee = r.qfee /\ u.qprice = r.qprice
      /\ u.incl = r.incl /\ u.rf = r.rf
  BY <1>1 DEF Call
<1> HIDE DEF u
<1>5. QED
  BY <1>1, <1>3, <1>4 DEF r

\* The maximum the user signs is the quote for this price and this resource fee.
LEMMA QuoteKeeps ==
  ASSUME IInv, NEW c \in Callers, Quote(c)
  PROVE  IInv'
<1>1. CASE Refuse(c)
  BY <1>1, RefuseKeeps
<1>2. CASE UsePrice(c) /\ Answer(c)
  BY <1>2, UsePriceKeeps, AnswerKeeps DEF IInv
<1>3. CASE /\ MaxFeeAmount(c) # Overflow /\ UsePrice(c)
           /\ Set(c, [Used(c) EXCEPT !.pc = "submit", !.stage = "none",
                        !.max = MaxFeeAmount(c), !.qprice = Price(c)])
  <2> DEFINE u == Used(c)
             m == MaxFeeAmount(c)
             p == Price(c)
             a == [u EXCEPT !.pc = "submit", !.stage = "none", !.max = m, !.qprice = p]
  <2>1. /\ u \in Call /\ u.held = 0 /\ u.wait = 0
        /\ u.incl = call[c].incl /\ u.qfee = call[c].qfee
    BY UsedIsCall
  <2>2. p \in Nat
    BY PriceType
  <2>3. /\ call[c].qfee \in Nat /\ call[c].qfee <= MaxResourceFeeStroops
        /\ call[c].incl <= MaxInclusionFee
    BY GoodIsCall DEF IInv, Quote, Call, BidOK, QuoteOK
  <2>4. m \in Nat /\ m = FeeInToken(p, maxBid(call[c].qfee))
    BY <1>3, <2>2, <2>3, FeeType, MaxBidType DEF MaxFeeAmount
  <2>5. Set(c, a)
    BY <1>3
  <2> HIDE DEF u, m, p
  <2>6. a \in Call
    BY <2>1, <2>2, <2>4 DEF Call
  <2>7. /\ a.pc = "submit" /\ a.stage = "none" /\ a.held = 0 /\ a.wait = 0
        /\ a.max = m /\ a.qprice = p /\ a.qfee = call[c].qfee /\ a.incl = call[c].incl
    BY <2>1 DEF Call
  <2> HIDE DEF a
  <2>8. a \in GoodCalls
    BY <2>3, <2>4, <2>6, <2>7
    DEF GoodCalls, HeldOK, BidOK, QuoteOK, SignedOK, Priceable, StageOK
  <2>9. QED
    BY <1>3, <2>5, <2>8, SetKeeps, UsePriceKeeps DEF IInv
<1>4. QED
  BY <1>1, <1>2, <1>3 DEF Quote

\* Only what is valid is simulated, and a forward only what parses as one.
LEMMA PrepareKeeps ==
  ASSUME IInv, NEW c \in Callers, Prepare(c)
  PROVE  IInv'
<1> DEFINE r == call[c]
<1>1. /\ r \in Call /\ HeldOK(r) /\ BidOK(r) /\ QuoteOK(r) /\ SignedOK(r) /\ StageOK(r)
      /\ r.pc = "submit"
  BY GoodIsCall DEF IInv, Prepare
<1>2. r.wait = 0 /\ r.held = 0 /\ r.stage = "none"
  BY <1>1 DEF HeldOK, StageOK, Call
<1>3. ASSUME NEW p \in P90s \cup {0}, Validate(r.req),
             r.req.mode = "forward" => parseForward(r.req)
      PROVE  /\ r.req.mode = "sponsored" =>
                  [[r EXCEPT !.incl = inclusionFee(p)] EXCEPT !.pc = "simulate"] \in GoodCalls
             /\ \A f \in ResourceFees :
                  AskPrice([[r EXCEPT !.incl = inclusionFee(p)] EXCEPT !.rf = f], "estimate")
                    \in GoodCalls
  <2> DEFINE i == inclusionFee(p)
             b == [r EXCEPT !.incl = i]
  <2>1. i \in Nat /\ i <= MaxInclusionFee
    BY PricesAreRight, InclusionIsBounded
  <2> HIDE DEF i, r
  <2>2. /\ b \in Call /\ b.wait = 0 /\ b.held = 0 /\ b.stage = "none" /\ b.incl = i
        /\ b.req = r.req /\ b.max = r.max /\ b.qprice = r.qprice /\ b.qfee = r.qfee
        /\ b.pc = "submit"
    BY <1>1, <1>2, <2>1 DEF Call
  <2> HIDE DEF b
  <2>3. ASSUME r.req.mode = "sponsored" PROVE [b EXCEPT !.pc = "simulate"] \in GoodCalls
    <3> DEFINE a == [b EXCEPT !.pc = "simulate"]
    <3>1. /\ a \in Call /\ a.wait = 0 /\ a.held = 0 /\ a.stage = "none" /\ a.incl = i
          /\ a.req = r.req /\ a.pc = "simulate"
      BY <2>2 DEF Call
    <3> HIDE DEF a
    <3>2. a \in GoodCalls
      BY <1>3, <2>1, <2>3, <3>1
      DEF GoodCalls, HeldOK, BidOK, QuoteOK, SignedOK, Priceable, StageOK
    <3>3. QED
      BY <3>2 DEF a
  <2>4. ASSUME NEW f \in ResourceFees
        PROVE  AskPrice([b EXCEPT !.rf = f], "estimate") \in GoodCalls
    <3> DEFINE a == [b EXCEPT !.rf = f]
               d == [a EXCEPT !.stage = "estimate"]
    <3>1. /\ a \in Call /\ a.wait = 0 /\ a.held = 0 /\ a.incl = i /\ a.req = r.req
      BY <2>2, PricesAreRight DEF Call
    <3>2. d.stage = "estimate" /\ d.max = r.max /\ d.qprice = r.qprice /\ d.qfee = r.qfee
      BY <2>2 DEF Call
    <3> HIDE DEF d
    <3>3. QuoteOK(d)
      BY <1>1, <3>2 DEF QuoteOK
    <3>4. QuoteOK([a EXCEPT !.stage = "estimate"])
      BY <3>3 DEF d
    <3> HIDE DEF a
    <3>5. AskPrice(a, "estimate") \in GoodCalls
      BY <1>3, <2>1, <3>1, <3>4, AskIsGood
    <3>6. QED
      BY <3>5 DEF a
  <2>5. QED
    BY <2>3, <2>4 DEF b, i
<1>4. call' \in [Callers -> GoodCalls]
  <2>1. CASE Answer(c)
    BY <2>1, AnswerKeeps DEF IInv
  <2>2. ASSUME Validate(r.req), r.req.mode = "forward" => parseForward(r.req),
               NEW p \in P90s \cup {0}, r.req.mode = "sponsored",
               Set(c, [[r EXCEPT !.incl = inclusionFee(p)] EXCEPT !.pc = "simulate"])
        PROVE  call' \in [Callers -> GoodCalls]
    <3>1. [[r EXCEPT !.incl = inclusionFee(p)] EXCEPT !.pc = "simulate"] \in GoodCalls
      BY <1>3, <2>2
    <3>2. QED
      BY <2>2, <3>1, SetKeeps DEF IInv
  <2>3. ASSUME Validate(r.req), r.req.mode = "forward" => parseForward(r.req),
               NEW p \in P90s \cup {0}, NEW f \in ResourceFees,
               Set(c, AskPrice([[r EXCEPT !.incl = inclusionFee(p)] EXCEPT !.rf = f], "estimate"))
        PROVE  call' \in [Callers -> GoodCalls]
    <3>1. AskPrice([[r EXCEPT !.incl = inclusionFee(p)] EXCEPT !.rf = f], "estimate")
            \in GoodCalls
      BY <1>3, <2>3
    <3>2. QED
      BY <2>3, <3>1, SetKeeps DEF IInv
  <2>4. QED
    BY <2>1, <2>2, <2>3 DEF Prepare
<1>5. QED
  BY <1>4 DEF IInv, Prepare, CacheOK, GoodOK

\* What a forward is priced at when its fee is within the maximum.
LEMMA FineFee ==
  ASSUME IInv, NEW c \in Callers, FeeIsFine(c)
  PROVE  /\ Cost(c) \in Nat /\ Price(c) \in Nat
         /\ feeFor(c) \in Nat /\ feeFor(c) >= 1 /\ feeFor(c) <= call[c].max
         /\ feeFor(c) = FeeInToken(Price(c), Cost(c))
<1>1. call[c].incl \in Nat /\ call[c].rf \in Nat
  BY GoodIsCall DEF IInv, Call
<1>2. Cost(c) \in Nat /\ Price(c) \in Nat
  BY <1>1, PriceType DEF Cost
<1>3. feeFor(c) = FeeInToken(Price(c), Cost(c)) /\ feeFor(c) # Overflow /\ feeFor(c) <= call[c].max
  BY DEF feeFor, FeeIsFine
<1>4. QED
  BY <1>2, <1>3, FeeType

\* The call and the executor's entry signed for a fee.
LEMMA ExecutorSigns ==
  ASSUME NEW r \in Call, NEW fee \in Nat
  PROVE  LET w == withExecutor(r, fee)
         IN  /\ w \in Call /\ w.amount = fee /\ w.signed = fee
             /\ w.held = r.held /\ w.wait = r.wait /\ w.req = r.req /\ w.max = r.max
             /\ w.qfee = r.qfee /\ w.qprice = r.qprice /\ w.incl = r.incl
<1> DEFINE w == [[r EXCEPT !.amount = fee] EXCEPT !.signed = fee]
<1>1. withExecutor(r, fee) = w
  BY DEF withExecutor, withFee, signExecutorEntry
<1>2. /\ w \in Call /\ w.amount = fee /\ w.signed = fee
      /\ w.held = r.held /\ w.wait = r.wait /\ w.req = r.req /\ w.max = r.max
      /\ w.qfee = r.qfee /\ w.qprice = r.qprice /\ w.incl = r.incl
  BY DEF Call
<1>3. QED
  BY <1>1, <1>2

\* The first round keeps the quote and what was validated.
LEMMA EstimateKeeps ==
  ASSUME IInv, NEW c \in Callers, Estimate(c)
  PROVE  IInv'
<1>1. CASE Refuse(c)
  BY <1>1, RefuseKeeps
<1>2. CASE /\ FeeIsFine(c) /\ UsePrice(c)
           /\ \E f \in ResourceFees :
                Set(c, AskPrice([withExecutor(Used(c), feeFor(c)) EXCEPT !.rf = f], "fee"))
  <2>1. PICK f \in ResourceFees :
          Set(c, AskPrice([withExecutor(Used(c), feeFor(c)) EXCEPT !.rf = f], "fee"))
    BY <1>2
  <2> DEFINE r == call[c]
             w == withExecutor(Used(c), feeFor(c))
             a == [w EXCEPT !.rf = f]
             d == [a EXCEPT !.stage = "fee"]
  <2>2. BidOK(r) /\ QuoteOK(r) /\ SignedOK(r) /\ r.stage = "estimate"
    BY GoodIsCall DEF IInv, Estimate
  <2>3. feeFor(c) \in Nat
    BY <1>2, FineFee
  <2>4. /\ w \in Call /\ w.held = 0 /\ w.wait = 0 /\ w.req = r.req /\ w.max = r.max
        /\ w.qfee = r.qfee /\ w.qprice = r.qprice /\ w.incl = r.incl
    BY <2>3, UsedIsCall, ExecutorSigns
  <2> HIDE DEF w, r
  <2>5. /\ a \in Call /\ a.held = 0 /\ a.wait = 0 /\ a.req = r.req /\ a.incl = r.incl
    BY <2>4, PricesAreRight DEF Call
  <2>6. d.stage = "fee" /\ d.max = r.max /\ d.qprice = r.qprice /\ d.qfee = r.qfee
    BY <2>4 DEF Call
  <2> HIDE DEF d
  <2>7. QuoteOK(d)
    BY <2>2, <2>6 DEF QuoteOK
  <2>8. QuoteOK([a EXCEPT !.stage = "fee"])
    BY <2>7 DEF d
  <2> HIDE DEF a
  <2>9. /\ a.incl <= MaxInclusionFee
        /\ Validate(a.req) /\ (a.req.mode = "forward" => parseForward(a.req))
    BY <2>2, <2>5 DEF BidOK, SignedOK, Priceable
  <2>10. AskPrice(a, "fee") \in GoodCalls
    BY <2>5, <2>8, <2>9, AskIsGood, Zenon
  <2>11. QED
    BY <1>2, <2>1, <2>10, SetKeeps, UsePriceKeeps DEF IInv, a, w
<1>3. QED
  BY <1>1, <1>2 DEF Estimate

\* The second round signs the call again for the fee on record.
LEMMA PriceForwardKeeps ==
  ASSUME IInv, NEW c \in Callers, PriceForward(c)
  PROVE  IInv'
<1>1. CASE Refuse(c)
  BY <1>1, RefuseKeeps
<1>2. CASE /\ FeeIsFine(c) /\ UsePrice(c)
           /\ Set(c, [Resigned(c) EXCEPT !.pc = "simulate", !.stage = "none",
                        !.cost = Cost(c), !.price = Price(c), !.qfee = 0, !.qprice = 0])
  <2> DEFINE r == call[c]
             fee == feeFor(c)
             k == Cost(c)
             p == Price(c)
             w == withExecutor(Used(c), fee)
             s == [w EXCEPT !.fee = fee]
             a == [s EXCEPT !.pc = "simulate", !.stage = "none",
                     !.cost = k, !.price = p, !.qfee = 0, !.qprice = 0]
  <2>1. BidOK(r) /\ SignedOK(r) /\ r.stage = "fee"
    BY GoodIsCall DEF IInv, PriceForward
  <2>2. /\ k \in Nat /\ p \in Nat /\ fee \in Nat /\ fee >= 1 /\ fee <= r.max
        /\ fee = FeeInToken(p, k)
    BY <1>2, FineFee
  <2>3. /\ w \in Call /\ w.amount = fee /\ w.signed = fee
        /\ w.held = 0 /\ w.wait = 0 /\ w.req = r.req /\ w.max = r.max /\ w.incl = r.incl
    BY <2>2, UsedIsCall, ExecutorSigns
  <2>4. Set(c, a)
    BY <1>2 DEF Resigned
  <2> HIDE DEF w, r, fee, k, p
  <2>5. /\ s \in Call /\ s.amount = fee /\ s.signed = fee /\ s.fee = fee
        /\ s.held = 0 /\ s.wait = 0 /\ s.req = r.req /\ s.max = r.max /\ s.incl = r.incl
    BY <2>2, <2>3 DEF Call
  <2> HIDE DEF s
  <2>6. /\ a \in Call /\ a.pc = "simulate" /\ a.stage = "none"
        /\ a.amount = fee /\ a.signed = fee /\ a.fee = fee /\ a.cost = k /\ a.price = p
        /\ a.held = 0 /\ a.wait = 0 /\ a.req = r.req /\ a.max = r.max /\ a.incl = r.incl
    BY <2>2, <2>5 DEF Call
  <2> HIDE DEF a
  <2>7. HeldOK(a) /\ BidOK(a) /\ QuoteOK(a) /\ StageOK(a)
    BY <2>1, <2>6 DEF HeldOK, BidOK, QuoteOK, StageOK
  <2>8. SignedOK(a)
    BY <2>1, <2>2, <2>6 DEF SignedOK, Priceable
  <2>9. a \in GoodCalls
    BY <2>6, <2>7, <2>8 DEF GoodCalls
  <2>10. QED
    BY <1>2, <2>4, <2>9, SetKeeps, UsePriceKeeps DEF IInv
<1>3. QED
  BY <1>1, <1>2 DEF PriceForward

\* The reservation is for the resource fee the transaction is built with.
LEMMA ReserveKeeps ==
  ASSUME IInv, NEW c \in Callers, Reserve(c)
  PROVE  IInv'
<1>1. call' \in [Callers -> GoodCalls]
  <2>1. CASE Answer(c)
    BY <2>1, AnswerKeeps DEF IInv
  <2>2. CASE \E f \in ResourceFees :
               Set(c, [call[c] EXCEPT !.pc = "lease", !.rf = f, !.reserved = maxBid(f)])
    <3>1. PICK f \in ResourceFees :
            Set(c, [call[c] EXCEPT !.pc = "lease", !.rf = f, !.reserved = maxBid(f)])
      BY <2>2
    <3> DEFINE r == call[c]
               m == maxBid(f)
               a == [r EXCEPT !.pc = "lease", !.rf = f, !.reserved = m]
    <3>2. /\ r \in Call /\ HeldOK(r) /\ BidOK(r) /\ SignedOK(r) /\ StageOK(r)
          /\ r.pc = "simulate"
      BY GoodIsCall DEF IInv, Reserve
    <3>3. f \in Nat /\ m \in Nat
      BY PricesAreRight, MaxBidType
    <3>4. Set(c, a) /\ m = maxBid(f)
      BY <3>1
    <3> HIDE DEF r, m
    <3>5. /\ a \in Call /\ a.pc = "lease" /\ a.stage = r.stage /\ a.rf = f /\ a.reserved = m
          /\ a.amount = r.amount /\ a.signed = r.signed /\ a.fee = r.fee /\ a.cost = r.cost
          /\ a.price = r.price /\ a.held = r.held /\ a.wait = r.wait /\ a.req = r.req
          /\ a.max = r.max /\ a.incl = r.incl
      BY <3>2, <3>3 DEF Call
    <3> HIDE DEF a
    <3>6. HeldOK(a) /\ BidOK(a) /\ QuoteOK(a) /\ StageOK(a)
      BY <3>2, <3>4, <3>5 DEF HeldOK, BidOK, QuoteOK, StageOK
    <3>7. SignedOK(a)
      BY <3>2, <3>5 DEF SignedOK, Priceable
    <3>8. a \in GoodCalls
      BY <3>5, <3>6, <3>7 DEF GoodCalls
    <3>9. QED
      BY <3>4, <3>8, SetKeeps DEF IInv
  <2>3. QED
    BY <2>1, <2>2 DEF Reserve
<1>2. QED
  BY <1>1 DEF IInv, Reserve, CacheOK, GoodOK

\* A lease, a retry on another lease and a retry with a doubled inclusion fee.
LEMMA RunKeeps ==
  ASSUME IInv, NEW c \in Callers, AcquireWait(c) \/ Send(c)
  PROVE  IInv'
<1> DEFINE r == call[c]
<1>1. /\ r \in Call /\ HeldOK(r) /\ BidOK(r) /\ QuoteOK(r) /\ SignedOK(r) /\ StageOK(r)
      /\ r.pc \in {"lease", "send"}
  BY GoodIsCall DEF IInv, AcquireWait, Send
<1>2. /\ r.leases \in Nat /\ r.tries \in Nat /\ r.incl \in Nat
      /\ r.leases + 1 \in Nat /\ r.tries + 1 \in Nat /\ r.incl * 2 \in Nat
  BY <1>1 DEF Call
<1>3. ASSUME NEW a \in Call, a.pc \in {"lease", "send"}, a.incl <= MaxInclusionFee,
             /\ a.stage = r.stage /\ a.rf = r.rf /\ a.reserved = r.reserved
             /\ a.amount = r.amount /\ a.signed = r.signed /\ a.fee = r.fee /\ a.cost = r.cost
             /\ a.price = r.price /\ a.held = r.held /\ a.wait = r.wait /\ a.req = r.req
             /\ a.max = r.max,
             Set(c, a)
      PROVE  call' \in [Callers -> GoodCalls]
  <2> HIDE DEF r
  <2>1. HeldOK(a) /\ BidOK(a) /\ QuoteOK(a) /\ StageOK(a)
    BY <1>1, <1>3 DEF HeldOK, BidOK, QuoteOK, StageOK
  <2>2. SignedOK(a)
    BY <1>1, <1>3 DEF SignedOK, Priceable
  <2>3. a \in GoodCalls
    BY <1>3, <2>1, <2>2 DEF GoodCalls
  <2>4. QED
    BY <1>3, <2>3, SetKeeps DEF IInv
<1>4. call' \in [Callers -> GoodCalls]
  <2>1. CASE Answer(c)
    BY <2>1, AnswerKeeps DEF IInv
  <2>2. CASE Set(c, [r EXCEPT !.pc = "send", !.leases = @ + 1, !.tries = 0])
    <3> DEFINE a == [r EXCEPT !.pc = "send", !.leases = @ + 1, !.tries = 0]
    <3>1. Set(c, a) /\ r.incl <= MaxInclusionFee
      BY <1>1, <2>2 DEF BidOK
    <3>2. /\ a \in Call /\ a.pc = "send" /\ a.incl = r.incl
          /\ a.stage = r.stage /\ a.rf = r.rf /\ a.reserved = r.reserved
          /\ a.amount = r.amount /\ a.signed = r.signed /\ a.fee = r.fee /\ a.cost = r.cost
          /\ a.price = r.price /\ a.held = r.held /\ a.wait = r.wait /\ a.req = r.req
          /\ a.max = r.max
      <4> HIDE DEF r
      <4> QED BY <1>1, <1>2 DEF Call
    <3> HIDE DEF a, r
    <3>3. QED
      BY <1>3, <3>1, <3>2
  <2>3. CASE Set(c, [r EXCEPT !.pc = "lease"])
    <3> DEFINE a == [r EXCEPT !.pc = "lease"]
    <3>1. Set(c, a) /\ r.incl <= MaxInclusionFee
      BY <1>1, <2>3 DEF BidOK
    <3>2. /\ a \in Call /\ a.pc = "lease" /\ a.incl = r.incl
          /\ a.stage = r.stage /\ a.rf = r.rf /\ a.reserved = r.reserved
          /\ a.amount = r.amount /\ a.signed = r.signed /\ a.fee = r.fee /\ a.cost = r.cost
          /\ a.price = r.price /\ a.held = r.held /\ a.wait = r.wait /\ a.req = r.req
          /\ a.max = r.max
      <4> HIDE DEF r
      <4> QED BY <1>1 DEF Call
    <3> HIDE DEF a, r
    <3>3. QED
      BY <1>3, <3>1, <3>2
  <2>4. CASE /\ r.pc = "send" /\ MayDouble(r.incl)
             /\ Set(c, [r EXCEPT !.incl = @ * 2, !.tries = @ + 1])
    <3> DEFINE a == [r EXCEPT !.incl = @ * 2, !.tries = @ + 1]
    <3>1. Set(c, a) /\ r.incl * 2 <= MaxInclusionFee
      BY <2>4 DEF MayDouble
    <3>2. /\ a \in Call /\ a.pc = "send" /\ a.incl = r.incl * 2
          /\ a.stage = r.stage /\ a.rf = r.rf /\ a.reserved = r.reserved
          /\ a.amount = r.amount /\ a.signed = r.signed /\ a.fee = r.fee /\ a.cost = r.cost
          /\ a.price = r.price /\ a.held = r.held /\ a.wait = r.wait /\ a.req = r.req
          /\ a.max = r.max
      <4> HIDE DEF r
      <4> QED BY <1>1, <1>2, <2>4 DEF Call
    <3> HIDE DEF a, r
    <3>3. QED
      BY <1>3, <3>1, <3>2
  <2>5. QED
    BY <2>1, <2>2, <2>3, <2>4 DEF AcquireWait, Send
<1>5. QED
  BY <1>4 DEF IInv, AcquireWait, Send, CacheOK, GoodOK

\* Ages saturate at Old, past which nothing depends on them.
LEMMA OlderIsOlder ==
  ASSUME NEW n \in 0 .. Old
  PROVE  Older(n) \in 0 .. Old /\ Older(n) <= n + 1 /\ n <= Older(n)
         /\ (Older(n) = n + 1 \/ Older(n) = Old)
BY TimeConstants DEF Older

\* Time: everything in hand ages together, and no one holds a price for longer than
\* a request takes.
LEMMA TickKeeps ==
  ASSUME IInv, Tick
  PROVE  IInv'
<1>1. CacheOK'
  <2>1. /\ cache \in Priced /\ cache.birth <= cache.age + FetchTimeout
        /\ cache' = [cache EXCEPT !.age = Older(cache.age), !.birth = Older(cache.birth)]
    BY DEF IInv, CacheOK, Tick, Aged
  <2>2. cache.age \in 0 .. Old /\ cache.birth \in 0 .. Old
    BY <2>1 DEF Priced
  <2>3. /\ Older(cache.age) \in 0 .. Old /\ Older(cache.birth) \in 0 .. Old
        /\ Older(cache.birth) <= Older(cache.age) + FetchTimeout
    BY <2>1, <2>2, OlderIsOlder, TimeConstants
  <2>4. QED
    BY <2>1, <2>3 DEF CacheOK, Priced
<1>2. GoodOK'
  <2> DEFINE k == TTL - 1 + FetchTimeout + MaxDelay
  <2>1. /\ good \in Priced /\ good.birth <= good.age + k
        /\ good.price > 0 => MinXLMUSD <= good.price /\ good.price <= MaxXLMUSD
        /\ good' = [good EXCEPT !.age = Older(good.age), !.birth = Older(good.birth)]
    BY DEF IInv, GoodOK, Tick, Aged
  <2>2. good.age \in 0 .. Old /\ good.birth \in 0 .. Old /\ k \in Nat
    BY <2>1, TimeConstants DEF Priced
  <2> HIDE DEF k
  <2>3. /\ Older(good.age) \in 0 .. Old /\ Older(good.birth) \in 0 .. Old
        /\ Older(good.birth) <= Older(good.age) + k
    BY <2>1, <2>2, OlderIsOlder, TimeConstants
  <2>4. good'.price = good.price /\ good' \in Priced
        /\ good'.birth = Older(good.birth) /\ good'.age = Older(good.age)
    BY <2>1, <2>3 DEF Priced
  <2>5. QED
    BY <2>1, <2>3, <2>4 DEF GoodOK, k
<1>3. call' \in [Callers -> GoodCalls]
  <2> DEFINE n(c) == CASE call[c].pc = "fetch" -> [call[c] EXCEPT !.wait = @ + 1]
                       [] call[c].pc = "apply" -> [call[c] EXCEPT !.wait = @ + 1, !.birth = Older(@)]
                       [] OTHER -> call[c]
  <2>1. ASSUME NEW c \in Callers PROVE n(c) \in GoodCalls
    <3> DEFINE r == call[c]
    <3>1. /\ r \in Call /\ HeldOK(r) /\ BidOK(r) /\ QuoteOK(r) /\ SignedOK(r) /\ StageOK(r)
          /\ Prompt(c)
      BY GoodIsCall DEF IInv, Tick
    <3>2. r.wait \in Nat /\ r.wait + 1 \in Nat /\ r.birth \in 0 .. Old /\ r.held \in Nat
      BY <3>1 DEF Call
    <3>3. CASE r.pc = "fetch"
      <4> DEFINE a == [r EXCEPT !.wait = @ + 1]
      <4>1. n(c) = a /\ r.wait < FetchTimeout
        BY <3>1, <3>3 DEF Prompt
      <4> HIDE DEF r
      <4>2. /\ a \in Call /\ a.pc = r.pc /\ a.stage = r.stage /\ a.rf = r.rf
            /\ a.reserved = r.reserved /\ a.held = r.held /\ a.wait = r.wait + 1
            /\ a.birth = r.birth /\ a.req = r.req /\ a.max = r.max /\ a.incl = r.incl
            /\ a.qfee = r.qfee /\ a.qprice = r.qprice
        BY <3>1, <3>2 DEF Call
      <4> HIDE DEF a
      <4>3. HeldOK(a) /\ BidOK(a) /\ QuoteOK(a) /\ SignedOK(a) /\ StageOK(a)
        BY <3>1, <3>2, <3>3, <4>1, <4>2, TimeConstants
        DEF HeldOK, BidOK, QuoteOK, SignedOK, Priceable, StageOK
      <4>4. QED
        BY <4>1, <4>2, <4>3 DEF GoodCalls
    <3>4. CASE r.pc = "apply"
      <4> DEFINE b == Older(r.birth)
                 a == [r EXCEPT !.wait = @ + 1, !.birth = b]
      <4>1. n(c) = a /\ r.wait < MaxDelay
        BY <3>1, <3>4 DEF Prompt
      <4>2. b \in 0 .. Old /\ b <= r.birth + 1
        BY <3>2, OlderIsOlder
      <4> HIDE DEF r, b
      <4>3. /\ a \in Call /\ a.pc = r.pc /\ a.stage = r.stage /\ a.rf = r.rf
            /\ a.reserved = r.reserved /\ a.held = r.held /\ a.wait = r.wait + 1
            /\ a.birth = b /\ a.req = r.req /\ a.max = r.max /\ a.incl = r.incl
            /\ a.qfee = r.qfee /\ a.qprice = r.qprice
        BY <3>1, <3>2, <4>2 DEF Call
      <4> HIDE DEF a
      <4>4. HeldOK(a)
        BY <3>1, <3>2, <3>4, <4>1, <4>2, <4>3, TimeConstants DEF HeldOK
      <4>5. BidOK(a) /\ QuoteOK(a) /\ SignedOK(a) /\ StageOK(a)
        BY <3>1, <3>4, <4>3 DEF BidOK, QuoteOK, SignedOK, Priceable, StageOK
      <4>6. QED
        BY <4>1, <4>3, <4>4, <4>5 DEF GoodCalls
    <3>5. CASE r.pc \notin {"fetch", "apply"}
      BY <3>5 DEF IInv
    <3>6. QED
      BY <3>3, <3>4, <3>5
  <2>2. call' = [c \in Callers |-> n(c)]
    BY DEF Tick
  <2> HIDE DEF n
  <2>3. QED
    BY <2>1, <2>2
<1>4. QED
  BY <1>1, <1>2, <1>3 DEF IInv, Tick

LEMMA CheckKeeps ==
  ASSUME IInv, Check
  PROVE  IInv'
BY DEF IInv, Check, CacheOK, GoodOK

\* Every step, whoever takes it, keeps the invariant.
LEMMA NextKeeps == IInv /\ [Next]_vars => IInv'
<1> SUFFICES ASSUME IInv, [Next]_vars PROVE IInv'
  OBVIOUS
<1>1. ASSUME NEW c \in Callers, Step(c) PROVE IInv'
  BY <1>1, AskKeeps, ReadCachedKeeps, FetchStartKeeps, FetchEndKeeps, QuoteKeeps, PrepareKeeps,
     EstimateKeeps, PriceForwardKeeps, ReserveKeeps, RunKeeps
  DEF Step
<1>2. CASE UNCHANGED vars
  BY <1>2 DEF vars, IInv, CacheOK, GoodOK
<1>3. QED
  BY <1>1, <1>2, CheckKeeps, TickKeeps DEF Next

\* The invariant holds of every state the service reaches.
THEOREM InvariantHolds == Spec => []IInv
BY InitHolds, NextKeeps, PTL DEF Spec

-----------------------------------------------------------------------------
(* What follows from the invariant.                                        *)

\* Every variable has its type, whatever the requests ask for and the feed answers.
THEOREM TypeCorrect == Spec => []TypeOK
<1>1. IInv => TypeOK
  BY DEF IInv, TypeOK, CacheOK, GoodOK, GoodCalls
<1>2. QED
  BY <1>1, InvariantHolds, PTL

\* xlmUSD never returns a price outside MinXLMUSD .. MaxXLMUSD, nor one the feed had
\* longer ago than the TTL, PriceMaxStale and the two delays together, for any
\* number of requests that read, fetch and update the two prices in any order.
THEOREM PricesAreRecent == Spec => []PriceIsRecent
<1>1. ASSUME IInv, NEW c \in Callers, call[c].pc = "apply", xlmUSD(c).price > 0
      PROVE  /\ MinXLMUSD <= xlmUSD(c).price /\ xlmUSD(c).price <= MaxXLMUSD
             /\ xlmUSD(c).birth < TTL + PriceMaxStale + FetchTimeout + MaxDelay
  <2> DEFINE r == call[c]
  <2>1. r \in Call /\ HeldOK(r) /\ r.pc = "apply"
    BY <1>1, GoodIsCall DEF IInv
  <2>2. r.held \in Nat /\ r.birth \in Nat /\ r.wait \in Nat
    BY <2>1, TimeConstants DEF Call
  <2>3. CASE Plausible(r.held)
    <3>1. xlmUSD(c).price = r.held /\ xlmUSD(c).birth = r.birth
      BY <2>3 DEF xlmUSD, NoPrice
    <3> HIDE DEF r
    <3>2. QED
      BY <2>1, <2>2, <2>3, <3>1, TimeConstants DEF HeldOK, Plausible
  <2>4. CASE ~Plausible(r.held) /\ StandsIn
    <3>1. xlmUSD(c) = good
      BY <2>4 DEF xlmUSD
    <3>2. /\ good.age \in Nat /\ good.birth \in Nat
          /\ good.birth <= good.age + (TTL - 1 + FetchTimeout + MaxDelay)
          /\ good.price > 0 => MinXLMUSD <= good.price /\ good.price <= MaxXLMUSD
      BY <1>1, TimeConstants DEF IInv, GoodOK, Priced
    <3>3. QED
      BY <2>4, <3>1, <3>2, TimeConstants DEF StandsIn
  <2>5. CASE ~Plausible(r.held) /\ ~StandsIn
    BY <1>1, <2>5 DEF xlmUSD, NoPrice
  <2>6. QED
    BY <2>3, <2>4, <2>5
<1>2. IInv => PriceIsRecent
  BY <1>1 DEF PriceIsRecent
<1>3. QED
  BY <1>2, InvariantHolds, PTL

\* maxBid at reservation time covers the bid of every attempt: through all leases
\* and doublings the inclusion fee stays below its cap and the resource fee is the
\* one that was reserved for.
THEOREM ReservationsCoverBids == Spec => []ReservationCoversBids
<1>1. IInv => ReservationCoversBids
  <2> SUFFICES ASSUME IInv, NEW c \in Callers, call[c].pc = "send", Fits(call[c].incl, call[c].rf)
               PROVE  Bid(call[c].incl, call[c].rf) <= call[c].reserved
    BY DEF ReservationCoversBids
  <2>1. /\ call[c].incl \in Nat /\ call[c].rf \in Nat /\ call[c].incl <= MaxInclusionFee
        /\ call[c].reserved = maxBid(call[c].rf)
    BY GoodIsCall DEF IInv, Call, BidOK
  <2>2. QED
    BY <2>1, MaxBidCovers
<1>2. QED
  BY <1>1, InvariantHolds, PTL

\* The quoted maximum stands: converted for the largest inclusion fee there can be,
\* it is not passed in either round unless the price or the resource fee rose.
THEOREM QuotesCoverASurge == Spec => []QuoteCoversASurge
<1>1. IInv => QuoteCoversASurge
  <2> SUFFICES ASSUME IInv, NEW c \in Callers,
                      call[c].pc = "apply", call[c].stage \in {"estimate", "fee"},
                      0 < Price(c), Price(c) <= call[c].qprice, call[c].rf <= call[c].qfee
               PROVE  feeFor(c) <= call[c].max
    BY DEF QuoteCoversASurge
  <2> DEFINE r == call[c]
             p == Price(c)
             k == Cost(c)
             m == maxBid(r.qfee)
  <2>1. /\ r.incl \in Nat /\ r.rf \in Nat /\ r.qfee \in Nat /\ r.qprice \in Nat /\ r.max \in Nat
        /\ r.incl <= MaxInclusionFee /\ QuoteOK(r)
    BY GoodIsCall DEF IInv, Call, BidOK
  <2>2. p \in Nat
    BY PriceType
  <2>3. r.max = FeeInToken(r.qprice, m) /\ r.qfee <= MaxResourceFeeStroops
    BY <2>1, <2>2 DEF QuoteOK
  <2>4. m = 2 * MaxInclusionFee + r.qfee
    BY <2>1, <2>3, FeeConstants DEF maxBid
  <2>5. k \in Nat /\ m \in Nat /\ k <= m
    BY <2>1, <2>4, FeeConstants DEF Cost
  <2>6. feeFor(c) = FeeInToken(p, k)
    BY DEF feeFor
  <2>7. p <= r.qprice
    OBVIOUS
  <2>8. FeeInToken(r.qprice, m) # Overflow
    BY <2>1, <2>3 DEF Overflow
  <2> HIDE DEF r, p, k, m
  <2>9. FeeInToken(p, k) <= FeeInToken(r.qprice, m)
    BY <2>1, <2>2, <2>5, <2>7, <2>8, FeeGrows
  <2>10. QED
    BY <2>3, <2>6, <2>9 DEF r
<1>2. QED
  BY <1>1, InvariantHolds, PTL

\* What is sent was validated, and in forward mode carries the executor's signature
\* for exactly the fee on record, within what the user signed.
THEOREM SendsAreAuthorized == Spec => []SentAsAuthorized
<1>1. IInv => SentAsAuthorized
  <2> SUFFICES ASSUME IInv, NEW c \in Callers, call[c].pc \in {"lease", "send"}
               PROVE  /\ call[c].req.entries \cap (RelayerAccounts \cup {Source}) = {}
                      /\ call[c].req.mode = "forward" =>
                           /\ call[c].req.user = call[c].req.wallet
                           /\ call[c].req.target # ForwarderID
                           /\ call[c].signed = call[c].fee /\ call[c].amount = call[c].fee
                           /\ call[c].fee \in 1 .. call[c].max
                      /\ call[c].req.mode = "sponsored" => Allows(call[c].req)
    BY DEF SentAsAuthorized
  <2>1. call[c] \in Call /\ SignedOK(call[c])
    BY GoodIsCall DEF IInv
  <2>2. Validate(call[c].req) /\ (call[c].req.mode = "forward" => parseForward(call[c].req))
    BY <2>1 DEF SignedOK, Priceable
  <2>3. call[c].req.entries \cap (RelayerAccounts \cup {Source}) = {}
    BY <2>2 DEF Validate, authAddress
  <2>4. call[c].req.mode = "sponsored" => Allows(call[c].req)
    BY <2>2 DEF Validate
  <2>5. ASSUME call[c].req.mode = "forward"
        PROVE  /\ call[c].req.user = call[c].req.wallet /\ call[c].req.target # ForwarderID
               /\ call[c].signed = call[c].fee /\ call[c].amount = call[c].fee
               /\ call[c].fee \in 1 .. call[c].max
    <3>1. call[c].req.user = call[c].req.wallet /\ call[c].req.target # ForwarderID
      BY <2>2, <2>5 DEF parseForward
    <3>2. /\ call[c].signed = call[c].fee /\ call[c].amount = call[c].fee
          /\ call[c].fee >= 1 /\ call[c].fee <= call[c].max
          /\ call[c].fee \in Nat /\ call[c].max \in Nat
      BY <2>1, <2>5 DEF SignedOK, Call
    <3>3. QED
      BY <3>1, <3>2
  <2>6. QED
    BY <2>3, <2>4, <2>5
<1>2. QED
  BY <1>1, InvariantHolds, PTL

\* Rounding up makes the user's fee worth the bid, as long as the bid is within the
\* margin of the cost that was priced.
THEOREM UserFeesCoverBids == Spec => []UserFeeCoversBid
<1>1. ASSUME NEW fee \in Nat, NEW price \in Nat, NEW cost \in Nat, NEW bid \in Nat,
             fee = FeeInToken(price, cost),
             Whole * bid <= (Whole + MarginBps) * cost
      PROVE  fee * PriceScale >= bid * price
  <2> DEFINE x == fee * PriceScale
             y == bid * price
             w == Whole + MarginBps
  <2>1. x \in Nat /\ y \in Nat /\ w \in Nat
    BY FeeConstants, SMT
  <2>2. cost * w * price <= fee * (Whole * PriceScale)
    BY <1>1, FeeCovers DEF Overflow
  <2>3. fee * (Whole * PriceScale) = Whole * x
    BY FeeConstants, SMT
  <2>4. Whole * bid * price <= w * cost * price
    <3> DEFINE a == Whole * bid
               b == w * cost
    <3>1. a \in Nat /\ b \in Nat /\ a <= b
      BY <1>1, <2>1, FeeConstants, SMT
    <3> HIDE DEF a, b
    <3>2. a * price <= b * price
      BY <3>1, ProductGrows
    <3>3. QED
      BY <3>2 DEF a, b
  <2>5. w * cost * price = cost * w * price
    <3> HIDE DEF w
    <3> QED BY <2>1, SMT
  <2>6. Whole * bid * price = Whole * y
    BY FeeConstants, SMT
  <2>7. Whole * y <= Whole * x
    <3> DEFINE a == cost * w * price
               b == Whole * y
               d == Whole * x
    <3>1. b <= a /\ a <= d
      BY <2>2, <2>3, <2>4, <2>5, <2>6
    <3>2. a \in Int /\ b \in Int /\ d \in Int
      <4> HIDE DEF w, x, y
      <4> QED BY <2>1, FeeConstants, SMT
    <3> HIDE DEF a, b, d
    <3>3. b <= d
      BY <3>1, <3>2
    <3>4. QED
      BY <3>3 DEF b, d
  <2> HIDE DEF x, y
  <2>8. y <= x
    BY <2>1, <2>7, FeeConstants DEF Whole
  <2>9. QED
    BY <2>8, <2>1 DEF x, y
<1>2. IInv => UserFeeCoversBid
  <2> SUFFICES ASSUME IInv, NEW c \in Callers,
                      call[c].pc = "send", call[c].req.mode = "forward",
                      Whole * Bid(call[c].incl, call[c].rf) <= (Whole + MarginBps) * call[c].cost
               PROVE  call[c].fee * PriceScale >= Bid(call[c].incl, call[c].rf) * call[c].price
    BY DEF UserFeeCoversBid
  <2>1. /\ call[c] \in Call /\ SignedOK(call[c])
    BY GoodIsCall DEF IInv
  <2>2. /\ call[c].incl \in Nat /\ call[c].rf \in Nat /\ call[c].fee \in Nat
        /\ call[c].price \in Nat /\ call[c].cost \in Nat
    BY <2>1 DEF Call
  <2>3. call[c].fee = FeeInToken(call[c].price, call[c].cost)
    BY <2>1 DEF SignedOK
  <2>4. Bid(call[c].incl, call[c].rf) \in Nat
    <3> DEFINE i == call[c].incl
               f == call[c].rf
    <3>1. i \in Nat /\ f \in Nat
      BY <2>2
    <3> HIDE DEF i, f
    <3>2. (i + f - f + 1 - 1) \div 1 = i
      BY <3>1, SMT
    <3>3. Bid(i, f) \in Nat
      BY <3>1, <3>2 DEF Bid, AtInnerRate, Envelope
    <3>4. QED
      BY <3>3 DEF i, f
  <2>5. QED
    BY <1>1, <2>2, <2>3, <2>4
<1>3. QED
  BY <1>2, InvariantHolds, PTL
=============================================================================
