SPECIFICATION Spec
CONSTANTS
  Policies <- MCEach
  AgentAnswers = {"approve", "reject", "modify"}
  AgentModes = {"OnTargetCreated"}
  StrictReady = FALSE
  BackfillAfter = 1
  SyncGrace = 2
  HungAfter = 3
  ExecTimeout = 3
  MaxStart = 3
  Max404 = 2
  MaxErr = 2
  Targets = {t1}
  MaxOps = 3
  MaxLag = 0
  MaxFaults = 1
  MaxRetries = 1
INVARIANTS
  AppliedResultConfirmed
  OneResourcePerAttempt
  FailedLeavesNothing
  StreaksAreBounded
PROPERTIES
  FollowsLifecycle
CHECK_DEADLOCK FALSE
