\* A request that quotes and submits, one that only quotes, and any feed.
SPECIFICATION Spec
CONSTANTS
  c1 = c1  c2 = c2  xlm = xlm  usdc = usdc  junk = junk  forwarder = forwarder
  factory = factory  dex = dex  wallet1 = wallet1  wallet2 = wallet2
  executor = executor  channel = channel
  Callers = {c1, c2}
  Submitters = {c1}
  Requests <- Bodies
  Tokens = {xlm, usdc}
  Native = xlm
  ForwarderID = forwarder
  Policy <- Policies
  RelayerAccounts = {executor, channel}
  Executor = executor
  FeedPrices = {1, 3, 9}
  MinXLMUSD = 1
  MaxXLMUSD = 4
  TTL = 2
  PriceMaxStale = 1
  FetchTimeout = 1
  MaxDelay = 1
  ResourceFees = {3, 4, 50}
  P90s = {1, 7}
  MaxLeaseRetries = 2
  MaxFeeRetries = 1
  MinBaseFee = 1
  MaxInclusionFee = 5
  MaxResourceFeeStroops = 10
  MarginBps = 2500
  PriceScale = 2
  MaxUint32 = 40
  MaxInt64 = 1000
INVARIANTS PriceIsRecent QuoteCoversASurge ReservationCoversBids UserFeeCoversBid SentAsAuthorized
