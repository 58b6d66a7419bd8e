\* Two submissions with any ids, bodies and wallets, and one fault.
SPECIFICATION Spec
CONSTANTS
  c1 = c1  c2 = c2  i1 = i1  i2 = i2  own = own  other = other  paid = paid
  w1 = w1  w2 = w2  x1 = x1  x2 = x2  x3 = x3  r1 = r1  r2 = r2
  Calls = {c1, c2}
  Ids = {i1, i2}
  Bodies = {own, other, paid}
  WalletOf <- Wallets
  ModeOf <- Modes
  Txs = {x1, x2, x3}
  Resolvers = {r1}
  StaleAfter = 1
  TxValidity = 1
  LedgerTime = 1
  RpcLag = 0
  MaxFee = 2
  MaxTxPerWallet = 1
  MaxStroopsPerWallet = 2
  MaxStroopsPerDay = 3
  MaxForwardFailuresPerWallet = 1
  MaxForwardInFlightPerWallet = 1
  MaxLeaseRetries = 1
  MaxFeeRetries = 0
  PromptSubmitter = TRUE
  MaxFaults = 1
SYMMETRY Symmetry
INVARIANTS SpendIsWithinCaps ForwardLossIsBounded
