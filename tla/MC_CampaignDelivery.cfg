CONSTANTS
  Key = {k1}
  Poller = {p1, p2}
  Lease = 4
  Reserve = 2
  Dedup = 6
  MaxFaults = 2
  Coordinate = {"video1", "video2"}
  None = None
  Device = {d1, d2}
  Notification <- SomePushes
  BatchConcurrency = 1
  RequestTimeout = 1
  OperationTimeout = 2
  RetryAfter = {5}
SPECIFICATION BothSpec
INVARIANTS GuardsCoverAttempt RecordedPushNotRepeated VerdictsAreTrue MessageIsRight
PROPERTIES DeliveredMeansPushed DeliveriesEnd
