SPECIFICATION FairSpec
CONSTANTS
  Policies <- MCLive
  AgentAnswers = {"approve"}
  AgentModes = {"OnTargetCreated"}
  StrictReady = FALSE
  BackfillAfter = 1
  SyncGrace = 2
  HungAfter = 3
  ExecTimeout = 4
  MaxStart = 2
  Max404 = 1
  MaxErr = 1
  Targets = {}
  MaxOps = 2
  MaxLag = 0
  MaxFaults = 1
  MaxRetries = 1
CHECK_DEADLOCK FALSE
PROPERTIES PolicyMovesOn RetryServed
