\* Two processes with three senders on one pool account under fair scheduling.
SPECIFICATION FairSpec
CONSTANTS
  s1 = s1  s2 = s2  s3 = s3  p1 = p1  p2 = p2
  Processes = {p1, p2}
  ProcessOf <- TwoAndOne
  Senders = {s1, s2, s3}
  Depth = 1
  MaxSeq = 4
  MaxFaults = 3
CHECK_DEADLOCK FALSE
INVARIANTS RefusedForACause
PROPERTIES AccountMovesOn
