CONSTANTS
  Account = {"ann", "bob"}
  ControlEvent <- Events
  Replica = {"r1", "r2"}
  Horizon = 2
  ClaimTTL = 2
  Skew = 1
  MaxNow = 5
  MaxFailures = 1
SPECIFICATION Spec
CONSTRAINT Scenarios
INVARIANTS DeregistrationHolds
CHECK_DEADLOCK FALSE
