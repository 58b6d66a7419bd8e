\* Two serve processes on one database, each with a retry worker.
SPECIFICATION Spec
CONSTANTS
  d1 = d1  d2 = d2  w1 = w1  r1 = r1  r2 = r2  t1 = t1  t2 = t2  m1 = m1
  Deposits = {d1}
  Workers = {w1}
  Retriers = {r1, r2}
  Tx = {t1, t2}
  NoTx = NoTx
  NoDeposit = NoDeposit
  Memos = {m1}
  MemoOf <- MemoOfOne
  Accepted = {d1}
  Late = {}
  Alike = {}
  MaxRetries = 1
  QuickAttempts = 1
  MaxTryAgain = 0
  MaxFeeRetries = 0
  ForwardDeadline = 2
  RetryCutoff = 3
  MaxReply = 1
  MaxFaults = 0
VIEW Relevant
SYMMETRY Symmetric
INVARIANTS PaidAtMostOnce
