\* Two equal payments of one transaction that landed after their intent expired:
\* their sweeps carry the same memo and can be byte-identical.
SPECIFICATION Spec
CONSTANTS
  d1 = d1  d2 = d2  w1 = w1  r1 = r1  r2 = r2  t1 = t1  t2 = t2  m1 = m1
  Deposits = {d1, d2}
  Workers = {w1}
  Retriers = {r1}
  Tx = {t1, t2}
  NoTx = NoTx
  NoDeposit = NoDeposit
  Memos = {m1}
  MemoOf <- MemoOfShared
  Accepted = {d1, d2}
  Late = {d1, d2}
  Alike <- AllAlike
  MaxRetries = 1
  QuickAttempts = 1
  MaxTryAgain = 0
  MaxFeeRetries = 0
  ForwardDeadline = 1
  RetryCutoff = 2
  MaxReply = 1
  MaxFaults = 0
VIEW Relevant
SYMMETRY SymmetricAlike
INVARIANTS OneTransferOneDeposit RightDestination
