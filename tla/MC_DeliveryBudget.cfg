SPECIFICATION BothSpec
CONSTANTS
  s1 = s1
  s2 = s2
  w1 = w1
  w2 = w2
  d1 = d1
  d2 = d2
  k1 = k1
  k2 = k2
  Session = {s1, s2}
  Work = {w1, w2, d1, d2}
  DirectMessages = {d1, d2}
  Task = {k1, k2}
  PresenceTTL = 1
  Hour = 1
  MinInterval = 2
  Day = 3
  SessionTTL = 2
  StateTTL = 3
  WorkTTL = 4
  RetryHorizon = 3
  MaxSessions = 1
  MaxSequence = 4
  MaxNow = 5
  HourlyCap = 1
  DailyCap = 2
  AbsenceCap = 1
  MaxU64 = 2147483647
SYMMETRY Symmetry
CONSTRAINT Scenarios
CHECK_DEADLOCK FALSE
INVARIANTS
  AbsenceCapKept
  GapKept
  CapsKept
  StateFollowsReports
PROPERTIES
  NoPushAcrossVisit
  GenerationsNeverReused
