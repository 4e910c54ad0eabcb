SPECIFICATION FairSpec
CONSTANTS
    MaxRetries = 2
    ConfigRetries = 0
    MaxCalls = 3
INVARIANTS OkMeansDone MissingMeansAbsent PostedOnce
PROPERTIES CallReturns ResultsAreWarranted
CHECK_DEADLOCK FALSE
