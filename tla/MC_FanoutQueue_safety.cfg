SPECIFICATION Spec
CONSTANTS
  v1 = v1
  w1 = w1
  w2 = w2
  w3 = w3
  Video = {v1}
  Worker = {w1, w2, w3}
  LastPage = 1
  MaxAttempts = 2
SYMMETRY Symmetry
INVARIANTS
  NoPageLost
PROPERTIES
  ScansInOrder
CHECK_DEADLOCK FALSE
