CONSTANTS
  Account = {a1, a2, a3}
  Token = {t1}
  Worker = {w1, w2}
  Sweeper = {}
  MaxAge = 2
  Skew = 1
  MaxNow = 5
SPECIFICATION Spec
PROPERTY RemovedForAReason
