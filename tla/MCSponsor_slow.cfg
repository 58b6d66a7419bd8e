\* A submission that has not sent when its record gets stale.
SPECIFICATION Spec
CONSTANTS
  c1 = c1  c2 = c2  i1 = i1  i2 = i2  own = own  other = other  paid = paid
  w1 = w1  w2 = w2  x1 = x1  x2 = x2  x3 = x3  r1 = r1  r2 = r2
  Calls = {c1}
  Ids = {i1}
  Bodies = {own}
  WalletOf <- Wallets
  ModeOf <- Modes
  Txs = {x1, x2}
  Resolvers = {r1}
  StaleAfter = 2
  TxValidity = 3
  LedgerTime = 1
  RpcLag = 1
  MaxFee = 1
  MaxTxPerWallet = 1
  MaxStroopsPerWallet = 2
  MaxStroopsPerDay = 3
  MaxForwardFailuresPerWallet = 1
  MaxForwardInFlightPerWallet = 1
  MaxLeaseRetries = 2
  MaxFeeRetries = 1
  PromptSubmitter = FALSE
  MaxFaults = 1
INVARIANTS OutcomeIsTrue
