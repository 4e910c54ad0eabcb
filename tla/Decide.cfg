SPECIFICATION FairSpec
CONSTANTS
    Clusters <- MCClusters
    Workload = "workload"
    Utilizations <- MCUtilizations
    Horizons = {15, 30, 60, 120}
    Learned <- MCLearned
    UserSpecs <- MCUserSpecs
    ForeignSpecs <- MCForeignSpecs
    MaxFaults = 1
    MaxRetries = 1
INVARIANTS NearWarningIsApproved ModifiedOnce ActsOnItsNode
PROPERTIES FailsOnlyWithoutWorker CriticalIsDecided
CHECK_DEADLOCK FALSE
