-------------------------------- MODULE Fees --------------------------------
(***************************************************************************)
(* The fee arithmetic of the gasless service: what a transaction bids      *)
(* (submitter.go, internal/feebump), what is reserved for it, and what the *)
(* user is asked for in the fee token (forward.go, price.go).              *)
(*                                                                         *)
(* An XLM/USD price is a number of PriceScale-ths of a dollar: the code    *)
(* converts with rationals, so nothing is rounded before the last step.    *)
(***************************************************************************)
EXTENDS Integers, FiniteSets

CONSTANTS
  MinBaseFee,             \* txnbuild.MinBaseFee
  MaxInclusionFee,        \* Submitter.MaxInclusionFee
  MaxResourceFeeStroops,  \* the largest resource fee that is priced
  MarginBps,              \* Forward.MarginBps
  PriceScale,             \* parts of a dollar prices are given in
  MaxUint32, MaxInt64     \* the largest transaction fee and fee amount

ASSUME FeesAreRight ==
  /\ MinBaseFee \in Nat \ {0} /\ MaxInclusionFee \in Nat /\ MaxInclusionFee >= MinBaseFee
  /\ MaxResourceFeeStroops \in Nat /\ MarginBps \in 0 .. 50000 /\ PriceScale \in Nat \ {0}
  /\ MaxUint32 \in Nat /\ MaxInt64 \in Nat
  /\ MaxResourceFeeStroops + 2 * MaxInclusionFee <= MaxInt64
  /\ MaxUint32 + MaxInclusionFee <= MaxInt64

\* One hundred per cent in basis points.
Whole == 10000

Least(a, b) == IF a < b THEN a ELSE b
Most(a, b) == IF a < b THEN b ELSE a

\* The p90 of recent inclusion fees, within bounds; the minimum without stats.
inclusionFee(p90) == Least(Most(MinBaseFee, p90), MaxInclusionFee)

\* The most a submission can cost, saturating.
maxBid(resourceFee) ==
  IF resourceFee > MaxInt64 - 2 * MaxInclusionFee THEN MaxInt64
  ELSE 2 * MaxInclusionFee + resourceFee

\* The inner transaction's fee, if it fits.
Envelope(inclusion, resourceFee) == inclusion + resourceFee
Fits(inclusion, resourceFee) == Envelope(inclusion, resourceFee) <= MaxUint32

\* The fee bump of a transaction of one operation: the inner inclusion rate for
\* one operation more, plus the resource fee once.
AtInnerRate(innerFee, resourceFee) ==
  LET ops == 1
      rate == (innerFee - resourceFee + ops - 1) \div ops
  IN  rate * (ops + 1) + resourceFee

Bid(inclusion, resourceFee) == AtInnerRate(Envelope(inclusion, resourceFee), resourceFee)

Overflow == -1

\* Mutant: rounded down.
RoundedDown(price, stroops) ==
  Most((stroops * (Whole + MarginBps) * price) \div (Whole * PriceScale), 1)

\* A cost in stroops in the token's units at a price, with the margin, rounded up
\* and at least one.  XLM is PriceScale-ths of itself.
FeeInToken(price, stroops) ==
  LET num   == stroops * (Whole + MarginBps) * price
      denom == Whole * PriceScale
      q     == IF num % denom > 0 THEN num \div denom + 1 ELSE num \div denom
  IN  IF q > MaxInt64 THEN Overflow ELSE Most(q, 1)
=============================================================================
