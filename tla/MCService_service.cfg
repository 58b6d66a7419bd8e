\* Two requests at a time, in each of the six mixes of requests.
SPECIFICATION FairSpec
CONSTANTS
  h1 = h1  h2 = h2  m1 = m1  m2 = m2  o1 = o1  o2 = o2  d1 = d1  d2 = d2
  Conns = {c1, c2}
  MaxInflight = 2
  Loads <- AllLoads
  Burst = 4
  Unit = 2
  Refill = 1
  MaxKeys = 1
  MaxDraws = 2
  Unknown = unknown
  Wallets = {w1, w2}
  Pools = 2
  Submissions = {s1, s2}
  None = None
INVARIANTS RateIsKept AnswerIsCoherent BindingIsKept WorkIsSpared
PROPERTY ServiceStops
