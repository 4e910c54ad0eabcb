SPECIFICATION Spec
CONSTANTS
  Policies <- MCStale
  AgentAnswers = {"approve", "delay", "reject", "modify"}
  AgentModes = {"OnTargetCreated"}
  StrictReady = FALSE
  BackfillAfter = 1
  SyncGrace = 2
  HungAfter = 3
  ExecTimeout = 4
  MaxStart = 3
  Max404 = 2
  MaxErr = 1
  Targets = {t1}
  MaxOps = 2
  MaxLag = 1
  MaxFaults = 1
  MaxRetries = 0
INVARIANTS
  AppliedIsJustified
  ExecutingHasStart
  FinishedHasCompletion
CHECK_DEADLOCK FALSE
