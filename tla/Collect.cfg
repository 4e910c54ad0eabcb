SPECIFICATION FairSpec
CONSTANTS
  p1 = p1
  p2 = p2
  Policies = {p1, p2}
  TTL = 0
  BatchMax = 1
  MaxAttempts = 1
  MaxFaults = 1
PROPERTIES
  CollectedIsOld
  FinishedIsCollected
CHECK_DEADLOCK FALSE
