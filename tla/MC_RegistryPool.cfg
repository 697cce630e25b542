CONSTANTS
  Account = {a1, a2}
  Token = {t1}
  Worker = {w1, w2}
  Sweeper = {s1}
  MaxAge = 2
  Skew = 1
  MaxNow = 5
  Conn = {c1, c2}
  Node = {n1, n2}
  MaxFailovers = 2
SPECIFICATION BothSpec
INVARIANT RegistryConsistent
PROPERTIES RemovedForAReasonUnlessOvertaken IdleIsSwept WritesRecover
