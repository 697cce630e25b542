CONSTANTS
  Task = {listener, handler, server, cleanup}
  Critical = {listener, handler}
  Tolerated = {cleanup}
  Listener = listener
  Handler = handler
  Silence = 3
  Grace = 1
  Backoff = 1
  MaxRecoveries = 1
  FeedCapacity = 2
  InboxCapacity = 1
  Archives <- SomeArchives
  PageLimit = 3
  MaxFailures = 1
SPECIFICATION Spec
CONSTRAINT Scenarios
INVARIANTS ReportsAreHonest SilenceIsBounded ClosureIsHeeded ReplaysAreRationed 
CHECK_DEADLOCK FALSE
PROPERTIES FailureStopsReplica
