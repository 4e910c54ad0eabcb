SPECIFICATION Spec
CONSTANTS
  Policies <- MCTarget
  AgentAnswers = {"approve"}
  AgentModes = {}
  StrictReady = FALSE
  BackfillAfter = 1
  SyncGrace = 2
  HungAfter = 3
  ExecTimeout = 4
  MaxStart = 3
  Max404 = 2
  MaxErr = 2
  Targets = {t1}
  MaxOps = 1
  MaxLag = 0
  MaxFaults = 0
  MaxRetries = 0
INVARIANT TargetGetsExecution
CHECK_DEADLOCK FALSE
