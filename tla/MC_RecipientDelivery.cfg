CONSTANTS
  Coordinate = {"first", "post"}
  Event <- SomeEvents
  Task = {t1, t2}
  MaxAge = 0
  Skew = 1
  ClaimTTL = 3
  RateWindow = 2
  Gap = 3
  AttemptTime = 1
  Account = {"creator", "fan", "friend", "other"}
  Events <- SomePosts
  Pages <- SomePages
  Handler = {h1, h2}
  Worker = {w1, w2}
  Concurrency = 2
  MaxAttempts = 2
SPECIFICATION BothSpec
SYMMETRY Symmetry
CONSTRAINT Scenarios
INVARIANTS  ClaimsAreEarned  NobodyPassedOver
CHECK_DEADLOCK FALSE
