SPECIFICATION FairSpec
CONSTANTS
    Tool <- MCTool
    Capability <- MCCapability
    Profiles <- MCProfiles
    Plan <- MCPlan
    Configs <- MCConfigs
    PoolSize = 2
    MaxCalls = 2
INVARIANTS
    AbandonedAccounted
    GateBeforeWork
    NoStaleResult
PROPERTIES
    CallsEnd
    FramesGetOut
    Drains
CHECK_DEADLOCK FALSE
