SPECIFICATION FairSpec
CONSTANTS
    Tool <- MCTool
    Capability <- MCCapability
    Profiles <- MCProfiles
    Plan <- MCPlan
    Configs <- MCConfigs
    PoolSize = 2
    MaxCalls = 2
PROPERTIES
    SlowCallsKilled
CHECK_DEADLOCK FALSE
