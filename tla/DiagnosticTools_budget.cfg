SPECIFICATION Spec
CONSTANTS
    Deadline = 1
    MaxChunks = 1
    MostTicks = 2
    Policies <- MCPolicies
    RawUrls <- MCRawUrls
    Port <- MCPort
    MaxPortsPerCall = 2
    PortNeighborhood = 12
    Calls <- MCCalls
    HighCpuPercent = 50
    HighMemoryBytes = 4
    LowDiskFreeBytes = 10
    HighMemoryLoadPercent = 85
    MemoryGrowthThreshold = 5
    StorageUsedWarning = 90
    LowBatteryHealth = 60
    WeakWifiSignal = 50
    HighCpuTempC = 85
    ThrottleCpuTempC = 95
    GroupReadings <- MCGroups
    DriveReadings <- MCDrives
    ThermalReadings <- MCThermal
    DeviceReadings <- MCDevices
    BatteryReadings <- MCBattery
    WifiReadings <- MCWifi
    MemoryReadings <- MCMemory
    MaxWindow = 4
    MaxSamples = 3
    MaxMeasure = 2
    MaxOversleep = 1
    TrendArgs <- MCTrendArgs
    TrendValues = {0, 100, 104}
    MostWork = 2
    GroupPids = {1, 2, 3}
    GroupTables <- MCGroupTables
    GroupLimits <- MCGroupLimits
    DriveRoot = "C:"
    MaxDirWalkEntries = 12
    LeastShare = 2
    MaxExcluded = 1
    MaxLength = 7
    Tree <- MCTree
    FileCalls <- MCFileCalls
    BatchSize = 2
    MaxMishaps = 1
    EventLogs <- MCEventLogs
    EventCalls <- MCEventCalls
    ProbeTimeout = 1
    ProbeGrace = 1
    OutputCap = 1
    PipeSize = 1
    MaxWrites = 2
    SearchPaths <- MCSearchPaths
    ToolNames <- MCToolNames
    PathExt <- MCPathExt
    MaxChanges = 1
    Pids <- MCPids
    Tables <- MCTables
    NewProcesses <- MCNewProcesses
    ProcessCalls <- MCProcessCalls
    MostChanges = 1
    TableRows <- MCTableRows
    FirstTables <- MCFirstTables
    TableQueries <- MCTableQueries
    Word = 16
    MaxPortNumber = 7
    LoadedLimits <- MCLimits
    MostDepth = 6
    TreeNodes = 8
    MostMinutes = 6
    LeastChars = 2
    DefaultChars = 3
    MaxSoftware = 5
    DefaultResults = 5
    MostChars = 5
    MostAvailable = 5
    Numbers <- MCNumbers
    LowestValue = 2
    HighestValue = 4
    UserTexts <- MCUserTexts
    ConfigLines <- MCConfigLines
    Machines <- MCMachines
    AdapterLists <- MCAdapterLists
    RadioReadings <- MCRadioReadings
    RoundTrips = {10, 250}
    Pings = 2
    PingTimeout = 3
    ResolveTimeout = 4
    NetworkBudget = 12
    DiskLists <- MCDiskLists
    StackReadings <- MCStackReadings
    SmartLogs <- MCSmartLogs
    Percentages = {5, 20, 60, 99}
    Capacities = {0, 40, 50}
INVARIANT
    HugeTreeStarvesNobody
