\* Two channels, and processes that start with one or both configured, under fair scheduling.
SPECIFICATION FairSpec
CONSTANTS
  h1 = h1  h2 = h2  t1 = t1  t2 = t2  t3 = t3  t4 = t4  seedA = seedA
  Channels = {0, 1}
  Holders = {h1, h2}
  Seeds = {seedA}
  Configs <- SameSeed
  ConfigOf <- AllBoth
  FirstSync <- Both
  Tokens = {t1, t2, t3, t4}
  MaxSent = 3
  MaxFaults = 2
CHECK_DEADLOCK FALSE
INVARIANTS KnownIsConsumed FreeChannelIsUpToDate
PROPERTIES LeaseIsKept ChannelsKeepServing
