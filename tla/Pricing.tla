------------------------------- MODULE Pricing -------------------------------
(***************************************************************************)
(* What a submission pays and what its user pays: quotes, the XLM price    *)
(* with its cache and its stand-in, forward mode's two rounds of pricing   *)
(* and signing, the reservation, and the bids of the attempts that follow  *)
(* (internal/gasless/sponsor: price.go, forward.go, request.go and the     *)
(* pricing parts of submitter.go).                                         *)
(*                                                                         *)
(* The price source and the last good price are shared by every request in *)
(* the process, each under a mutex of its own; a request reads the one,    *)
(* lets go, and then updates or falls back on the other.  Times are ages   *)
(* in ticks.  Whether a submission is paid once, and the caps the          *)
(* reservation counts against, are the module Sponsor.                     *)
(***************************************************************************)
EXTENDS Fees

CONSTANTS
  Callers,       \* requests served at the same time
  Requests,      \* what each caller may ask for: bodies of POST /gasless/submit
  Submitters,    \* the callers that submit after the quote
  Tokens,        \* accepted fee tokens
  Native,        \* the token that needs no price
  ForwarderID,   \* the FeeForwarder contract
  Policy,        \* sponsored calls: contract and function
  RelayerAccounts, Executor,
  FeedPrices,    \* prices the feed may answer with
  MinXLMUSD, MaxXLMUSD,
  TTL,           \* StellarExpertPrice.TTL
  PriceMaxStale, \* Forward.PriceMaxStale
  FetchTimeout,  \* longest a fetch takes
  MaxDelay,      \* longest a request takes from reading a price to using it
  ResourceFees,  \* resource fees a simulation may report
  P90s,          \* inclusion fees the network may report
  MaxLeaseRetries, MaxFeeRetries

ASSUME PricesAreRight ==
  /\ FeedPrices \subseteq Nat \ {0} /\ MinXLMUSD \in Nat \ {0} /\ MaxXLMUSD \in Nat \ {0}
  /\ TTL \in Nat \ {0} /\ PriceMaxStale \in Nat /\ FetchTimeout \in Nat /\ MaxDelay \in Nat
  /\ ResourceFees \subseteq Nat /\ P90s \subseteq Nat
  /\ MaxLeaseRetries \in Nat \ {0} /\ MaxFeeRetries \in Nat
  /\ Submitters \subseteq Callers /\ Native \in Tokens /\ Executor \in RelayerAccounts

\* Credentials that authorize as the source of the transaction, a channel.
Source == "source account"

\* A contract in the policy that stands for the request's wallet.
WalletContract == "wallet"

forwardFn == "forward"

NoRequest == [mode |-> "none"]

Nobody == "nobody"
ASSUME NobodyIsNoCaller == Nobody \notin Callers

\* Older than any age a decision or a property depends on.
Old == TTL + PriceMaxStale + FetchTimeout + MaxDelay

NoPrice == [price |-> 0, age |-> Old, birth |-> Old]

VARIABLES
  cache,    \* StellarExpertPrice: price, age since fetched, age since the feed had it
  mutex,    \* who holds StellarExpertPrice.mu over a fetch
  good,     \* Forward.lastGood, lastGoodAt as an age, and the age since the feed had it
  snap,     \* the balance monitor's snapshot: seen, and the funder above its floor
  call      \* what each caller's request has come to

vars == <<cache, mutex, good, snap, call>>

\* held, birth, wait: the price read and not used yet.  amount, signed, fee:
\* fee_amount in the call, in the executor's entry, in the record.
NoCall ==
  [pc |-> "start", req |-> NoRequest, stage |-> "none", max |-> 0, qfee |-> 0, qprice |-> 0,
   incl |-> 0, rf |-> 0, held |-> 0, birth |-> 0, wait |-> 0,
   amount |-> 0, signed |-> 0, fee |-> 0, cost |-> 0, price |-> 0,
   reserved |-> 0, leases |-> 0, tries |-> 0]

Init ==
  /\ cache = NoPrice
  /\ mutex = Nobody
  /\ good = NoPrice
  /\ snap = FALSE
  /\ call = [c \in Callers |-> NoCall]

Set(c, r) == call' = [call EXCEPT ![c] = r]

\* Answered; the caller may come again.
Answer(c) == Set(c, NoCall)

\* The next price is asked for, unless the token needs none.
AskPrice(r, stage) ==
  [r EXCEPT !.pc = IF r.req.token = Native THEN "apply" ELSE "read", !.stage = stage]

-----------------------------------------------------------------------------
(* The price of XLM.                                                       *)

Fresh == cache.price > 0 /\ cache.age < TTL

\* XLMUSD within the TTL.
ReadCached(c) ==
  /\ call[c].pc = "read"
  /\ mutex = Nobody
  /\ Fresh
  /\ Set(c, [call[c] EXCEPT !.pc = "apply", !.held = cache.price, !.birth = cache.birth])
  /\ UNCHANGED <<cache, mutex, good, snap>>

\* XLMUSD past the TTL: the mutex is held over the request to the feed.
FetchStart(c) ==
  /\ call[c].pc = "read"
  /\ mutex = Nobody
  /\ ~Fresh
  /\ mutex' = c
  /\ Set(c, [call[c] EXCEPT !.pc = "fetch"])
  /\ UNCHANGED <<cache, good, snap>>

\* The feed answers, with a price as old as the fetch at worst.  Any positive price
\* is cached, a plausible one or not; an error leaves the cache as it is.
FetchEnd(c) ==
  /\ call[c].pc = "fetch"
  /\ mutex' = Nobody
  /\ \/ \E p \in FeedPrices :
          /\ cache' = [price |-> p, age |-> 0, birth |-> call[c].wait]
          /\ Set(c, [call[c] EXCEPT !.pc = "apply", !.held = p, !.birth = call[c].wait,
                                    !.wait = 0])
     \/ /\ Set(c, [call[c] EXCEPT !.pc = "apply", !.held = 0, !.wait = 0])
        /\ UNCHANGED cache
  /\ UNCHANGED <<good, snap>>

Plausible(p) == p > 0 /\ MinXLMUSD <= p /\ p <= MaxXLMUSD

StandsIn == good.price > 0 /\ good.age <= PriceMaxStale

\* Mutant: standing in makes the price good again.
RenewedGood(c) ==
  IF Plausible(call[c].held) THEN [price |-> call[c].held, age |-> 0, birth |-> call[c].birth]
  ELSE IF StandsIn THEN [good EXCEPT !.age = 0] ELSE good

\* lastGood and lastGoodAt after xlmUSD.
NewGood(c) ==
  IF Plausible(call[c].held) THEN [price |-> call[c].held, age |-> 0, birth |-> call[c].birth]
  ELSE good

\* The price xlmUSD returns to a caller and its true age; no price refuses the fee.
xlmUSD(c) ==
  IF Plausible(call[c].held) THEN [NoPrice EXCEPT !.price = call[c].held, !.birth = call[c].birth]
  ELSE IF StandsIn THEN good ELSE NoPrice

\* The price a fee is converted at.
Price(c) == IF call[c].req.token = Native THEN PriceScale ELSE xlmUSD(c).price

\* The price is used: its half of xlmUSD under Forward.mu, and the fee computed.
UsePrice(c) ==
  /\ call[c].pc = "apply"
  /\ good' = IF call[c].req.token = Native THEN good ELSE NewGood(c)
  /\ UNCHANGED <<cache, mutex, snap>>

Used(c) == [call[c] EXCEPT !.held = 0, !.birth = 0, !.wait = 0]

Refuse(c) == UsePrice(c) /\ Answer(c)

-----------------------------------------------------------------------------
(* Quotes.                                                                 *)

\* A body, and for forward mode the resource fee the caller's simulation reported.
Ask(c) ==
  /\ call[c].pc = "start"
  /\ \E q \in Requests[c] :
       \/ /\ q.mode = "forward"
          /\ \E f \in ResourceFees :
               /\ q.token \in Tokens /\ f <= MaxResourceFeeStroops
               /\ Set(c, AskPrice([NoCall EXCEPT !.req = q, !.qfee = f], "quote"))
       \/ /\ q.mode # "forward" /\ c \in Submitters
          /\ Set(c, [NoCall EXCEPT !.req = q, !.pc = "submit"])
       \/ /\ q.mode = "forward" /\ q.token \notin Tokens /\ c \in Submitters
          /\ Set(c, [NoCall EXCEPT !.req = q, !.pc = "submit", !.max = 1])
  /\ UNCHANGED <<cache, mutex, good, snap>>

\* Mutant: the quote is for the least inclusion fee.
QuoteAtTheMinimum(c) == FeeInToken(Price(c), 2 * MinBaseFee + call[c].qfee)

MaxFeeAmount(c) == FeeInToken(Price(c), maxBid(call[c].qfee))

\* The user signs the quoted maximum, or goes away.
Quote(c) ==
  /\ call[c].stage = "quote"
  /\ \/ /\ Price(c) > 0 /\ MaxFeeAmount(c) # Overflow
        /\ UsePrice(c)
        /\ \/ c \in Submitters /\ Set(c, [Used(c) EXCEPT !.pc = "submit", !.stage = "none",
                                            !.max = MaxFeeAmount(c), !.qprice = Price(c)])
           \/ Answer(c)
     \/ /\ ~(Price(c) > 0 /\ MaxFeeAmount(c) # Overflow)
        /\ Refuse(c)

-----------------------------------------------------------------------------
(* Validation.                                                             *)

authAddress(q) == Source \notin q.entries /\ q.entries \cap RelayerAccounts = {}

Allows(q) ==
  \E r \in Policy :
    /\ r.function = q.function
    /\ r.contract = q.contract \/ (r.contract = WalletContract /\ q.contract = q.wallet)

Validate(q) == authAddress(q) /\ (q.mode = "sponsored" => Allows(q))

parseForward(q) ==
  /\ q.contract = ForwarderID /\ q.function = forwardFn
  /\ q.token \in Tokens
  /\ q.target # ForwarderID
  /\ q.user = q.wallet

SponsorshipOK == snap

-----------------------------------------------------------------------------
(* Prepare.                                                                *)

\* Refused: invalid, sponsorship unavailable, no simulation.  Else the inclusion
\* fee is fixed; forward mode goes on with a simulation in record mode at the
\* user's maximum.
Prepare(c) ==
  /\ call[c].pc = "submit"
  /\ LET q  == call[c].req
         ok == Validate(q) /\ SponsorshipOK /\ (q.mode = "forward" => parseForward(q))
     IN  \/ /\ ok
            /\ \E p \in P90s \cup {0} :
                 LET r == [call[c] EXCEPT !.incl = inclusionFee(p)]
                 IN  \/ /\ q.mode = "sponsored"
                        /\ Set(c, [r EXCEPT !.pc = "simulate"])
                     \/ /\ q.mode = "forward"
                        /\ \E f \in ResourceFees :
                             Set(c, AskPrice([r EXCEPT !.rf = f], "estimate"))
         \/ Answer(c)
  /\ UNCHANGED <<cache, mutex, good, snap>>

Cost(c) == 2 * call[c].incl + call[c].rf

\* The user's fee, if it can be asked for.
feeFor(c) == FeeInToken(Price(c), Cost(c))

FeeIsFine(c) ==
  /\ call[c].rf <= MaxResourceFeeStroops
  /\ Price(c) > 0 /\ feeFor(c) # Overflow
  /\ feeFor(c) <= call[c].max

\* fee_amount in the call.
withFee(r, fee) == [r EXCEPT !.amount = fee]

\* fee_amount in the executor's recorded entry, which is signed.
signExecutorEntry(r, fee) == [r EXCEPT !.signed = fee]

withExecutor(r, fee) == signExecutorEntry(withFee(r, fee), fee)

\* A simulation with authorization enforced takes the call only with an executor's
\* entry that is signed for it.
simulate(r) == r.amount = r.signed

\* The first round: signed at the estimate, simulated with authorization enforced.
Estimate(c) ==
  /\ call[c].stage = "estimate"
  /\ \/ /\ FeeIsFine(c)
        /\ UsePrice(c)
        /\ simulate(withExecutor(Used(c), feeFor(c)))
        /\ \E f \in ResourceFees :
             Set(c, AskPrice([withExecutor(Used(c), feeFor(c)) EXCEPT !.rf = f], "fee"))
     \/ Refuse(c)

\* Mutant: the call of the first round is kept.
KeepProbe(c) == [Used(c) EXCEPT !.fee = feeFor(c)]

Resigned(c) == [withExecutor(Used(c), feeFor(c)) EXCEPT !.fee = feeFor(c)]

\* The second round: the fee of the enforced simulation, signed again.  The quote is
\* of no more use.
PriceForward(c) ==
  /\ call[c].stage = "fee"
  /\ \/ /\ FeeIsFine(c)
        /\ UsePrice(c)
        /\ Set(c, [Resigned(c) EXCEPT !.pc = "simulate", !.stage = "none",
                     !.cost = Cost(c), !.price = Price(c), !.qfee = 0, !.qprice = 0])
     \/ Refuse(c)

\* The simulation the transaction is built from, and the reservation, which the
\* caps may refuse.
Reserve(c) ==
  /\ call[c].pc = "simulate"
  /\ \/ \E f \in ResourceFees :
          /\ simulate(call[c])
          /\ Set(c, [call[c] EXCEPT !.pc = "lease", !.rf = f, !.reserved = maxBid(f)])
     \/ Answer(c)
  /\ UNCHANGED <<cache, mutex, good, snap>>

-----------------------------------------------------------------------------
(* Run.                                                                    *)

\* A lease, for which the count of fee retries starts again; the inclusion fee is
\* the one the last lease came to.
AcquireWait(c) ==
  /\ call[c].pc = "lease"
  /\ \/ Set(c, [call[c] EXCEPT !.pc = "send", !.leases = @ + 1, !.tries = 0])
     \/ Answer(c)
  /\ UNCHANGED <<cache, mutex, good, snap>>

\* Mutant: doubled as long as the cap is not passed.
BelowTheCap(inclusion) == inclusion <= MaxInclusionFee

MayDouble(inclusion) == inclusion * 2 <= MaxInclusionFee

\* One send: it may not be built, be taken or refused for good, refused for its
\* sequence number or refused for its fee.
Send(c) ==
  /\ call[c].pc = "send"
  /\ \/ Answer(c)
     \/ /\ Fits(call[c].incl, call[c].rf)
        /\ call[c].leases < MaxLeaseRetries
        /\ Set(c, [call[c] EXCEPT !.pc = "lease"])
     \/ /\ Fits(call[c].incl, call[c].rf)
        /\ call[c].tries < MaxFeeRetries /\ MayDouble(call[c].incl)
        /\ Set(c, [call[c] EXCEPT !.incl = @ * 2, !.tries = @ + 1])
  /\ UNCHANGED <<cache, mutex, good, snap>>

-----------------------------------------------------------------------------
(* The monitor and time.                                                   *)

\* A check whose reads succeed; one that fails keeps the snapshot.
Check ==
  /\ snap' \in BOOLEAN
  /\ UNCHANGED <<cache, mutex, good, call>>

Older(n) == IF n = Old THEN n ELSE n + 1
Aged(p) == [p EXCEPT !.age = Older(@), !.birth = Older(@)]

\* A fetch and a request with a price in hand go on before their time is up.
Prompt(c) ==
  /\ call[c].pc = "fetch" => call[c].wait < FetchTimeout
  /\ call[c].pc = "apply" => call[c].wait < MaxDelay

Tick ==
  /\ \A c \in Callers : Prompt(c)
  /\ cache' = Aged(cache)
  /\ good' = Aged(good)
  /\ call' = [c \in Callers |->
                CASE call[c].pc = "fetch" -> [call[c] EXCEPT !.wait = @ + 1]
                  [] call[c].pc = "apply" -> [call[c] EXCEPT !.wait = @ + 1, !.birth = Older(@)]
                  [] OTHER -> call[c]]
  /\ UNCHANGED <<mutex, snap>>

-----------------------------------------------------------------------------
Step(c) ==
  \/ Ask(c) \/ ReadCached(c) \/ FetchStart(c) \/ FetchEnd(c) \/ Quote(c)
  \/ Prepare(c) \/ Estimate(c) \/ PriceForward(c) \/ Reserve(c) \/ AcquireWait(c) \/ Send(c)

Next == (\E c \in Callers : Step(c)) \/ Check \/ Tick

Spec == Init /\ [][Next]_vars

-----------------------------------------------------------------------------
(* Properties.                                                             *)

Priced == [price : Nat, age : 0 .. Old, birth : 0 .. Old]

Call ==
  [pc : {"start", "read", "fetch", "apply", "submit", "simulate", "lease", "send"},
   req : (UNION {Requests[c] : c \in Callers}) \cup {NoRequest},
   stage : {"none", "quote", "estimate", "fee"}, max : Nat, qfee : Nat, qprice : Nat,
   incl : Nat, rf : Nat, held : Nat, birth : 0 .. Old, wait : Nat,
   amount : Nat, signed : Nat, fee : Nat, cost : Nat, price : Nat,
   reserved : Nat, leases : Nat, tries : Nat]

\* Every variable has its type.
TypeOK ==
  /\ cache \in Priced /\ good \in Priced
  /\ mutex \in Callers \cup {Nobody}
  /\ snap \in BOOLEAN
  /\ call \in [Callers -> Call]

\* "A bad feed must not make USDC fees free or extortionate": whatever a request
\* converts at is plausible and was the feed's price no longer ago than the TTL,
\* PriceMaxStale and the delays of one fetch and one request together, although
\* a cached price is stamped anew each time it is used and a slow request can put
\* an older price over a newer one.
PriceIsRecent ==
  \A c \in Callers :
    call[c].pc = "apply" /\ call[c].req.token # Native /\ xlmUSD(c).price > 0 =>
      /\ MinXLMUSD <= xlmUSD(c).price /\ xlmUSD(c).price <= MaxXLMUSD
      /\ xlmUSD(c).birth < TTL + PriceMaxStale + FetchTimeout + MaxDelay

\* "A later surge can't push the real fee above it": a user who signed the quoted
\* maximum is not refused for it in either round of pricing, whatever inclusion fee
\* the network asks for by then, unless the price rose or a simulation reports a
\* higher resource fee than the quote was for.
QuoteCoversASurge ==
  \A c \in Callers :
    /\ call[c].pc = "apply" /\ call[c].stage \in {"estimate", "fee"}
    /\ 0 < Price(c) /\ Price(c) <= call[c].qprice
    /\ call[c].rf <= call[c].qfee
    => feeFor(c) <= call[c].max

\* What is reserved covers every bid of the submission, through all doublings of
\* the inclusion fee in all leases: the caps count no less than the network can
\* take ("maxBid is the most a submission can cost").
ReservationCoversBids ==
  \A c \in Callers :
    call[c].pc = "send" /\ Fits(call[c].incl, call[c].rf) =>
      Bid(call[c].incl, call[c].rf) <= call[c].reserved

\* The user's fee is worth the bid of the transaction, at the price it was
\* converted at, as long as the inclusion fee was not raised since and the resource
\* fee of the last simulation is above the priced one by no more than the margin
\* ("never charge less than the cost because of rounding").
UserFeeCoversBid ==
  \A c \in Callers :
    LET r == call[c]
    IN  /\ r.pc = "send" /\ r.req.mode = "forward"
        /\ Whole * Bid(r.incl, r.rf) <= (Whole + MarginBps) * r.cost
        => r.fee * PriceScale >= Bid(r.incl, r.rf) * r.price

\* A transaction is sent with no authority but its user's and, in forward mode, the
\* executor's for exactly the fee on record, within the user's maximum; a
\* sponsored one is a setup call of its own wallet.
SentAsAuthorized ==
  \A c \in Callers :
    LET r == call[c]
    IN  r.pc \in {"lease", "send"} =>
          /\ r.req.entries \cap (RelayerAccounts \cup {Source}) = {}
          /\ r.req.mode = "forward" =>
               /\ r.req.user = r.req.wallet /\ r.req.target # ForwarderID
               /\ r.signed = r.fee /\ r.amount = r.fee /\ r.fee \in 1 .. r.max
          /\ r.req.mode = "sponsored" => Allows(r.req)
=============================================================================
