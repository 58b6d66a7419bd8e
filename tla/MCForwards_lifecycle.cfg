\* One creditable deposit with the constants of the code; a tick is a minute.
SPECIFICATION Spec
CONSTANTS
  d1 = d1  d2 = d2  w1 = w1  r1 = r1  r2 = r2  t1 = t1  t2 = t2  m1 = m1
  Deposits = {d1}
  Workers = {w1}
  Retriers = {r1}
  Tx = {t1, t2}
  NoTx = NoTx
  NoDeposit = NoDeposit
  Memos = {m1}
  MemoOf <- MemoOfOne
  Accepted = {d1}
  Late = {}
  Alike = {}
  MaxRetries = 5
  QuickAttempts = 3
  MaxTryAgain = 5
  MaxFeeRetries = 2
  ForwardDeadline = 4
  RetryCutoff = 5
  MaxReply = 1
  MaxFaults = 2
VIEW Relevant
SYMMETRY Symmetric
INVARIANTS PaidAtMostOnce TransfersAreOnRecord BooksMatchTheLedger OneHolder FailedIsOver CompletedIsCredited
PROPERTIES SettledIsFinal
