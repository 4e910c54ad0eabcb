SPECIFICATION FairSpec
CONSTANTS
  n1 = n1
  none = none
  Nodes = {n1}
  NoNode = none
  Levels = {"normal", "rising", "critical"}
  Answers <- MCAnswers
  CacheTTL = 2
  HttpTimeout = 1
  CheckInterval = 1
  PolicyTTL = 2
  MaxAge = 3
  CheckDuplicates = TRUE
  PodLists <- MCPodLists
  MaxFaults = 1
INVARIANTS OnePolicyPerTTL ForecastIsFresh
PROPERTY HotNodeIsServed
