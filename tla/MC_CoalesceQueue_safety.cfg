SPECIFICATION Spec
CONSTANTS
  e1 = e1
  e2 = e2
  e3 = e3
  a1 = a1
  a2 = a2
  post = post
  k1 = k1
  k2 = k2
  Event = {e1, e2, e3}
  ActionOf <- TwoActions
  TargetOf <- OnePost
  Setting <- Settings
  Worker = {k1, k2}
  Window = 2
  Lease = 3
  FlushTimeout = 1
  Retry = 1
  GroupTTL = 6
  Grace = 1
  MaxActions = 2
  Deferral = {2}
  Capacity = 1
  Refill = 2
  DailyWindow = 4
  MaxGeneration = 1
  MaxInterrupts = 1
  MaxNow = 9
SYMMETRY Symmetry
CONSTRAINT Scenarios
CHECK_DEADLOCK FALSE
INVARIANTS
  OutboxKeepsEvents
  SubmittedOncePerInterruption
  EmissionsRationed
PROPERTIES
  DigestsStayInVisit
