SPECIFICATION Spec
CONSTANTS
    Hosts = {"", "a", "b"}
    EmptyHost = ""
    Fold <- MCFold
    OtherStates = {"OTHER"}
    Absent = Absent
    RingN = 1
    Paths <- MCPaths
    Methods = {"GET", "PUT"}
    AnyMethod = ""
    id1 = id1
    id2 = id2
    RuleIDs = {id1, id2}
    NoId = NoId
    NoRule = NoRule
    MaxPos = 2
    Conns = {}
    Requests = {}
    NoRequest = NoRequest
    MaxHits = 0
    Handlers = {h1}
    Main = main
    HostInputs = {"", "a", "b"}
    StateInputs = {"OBSERVED", "INTERCEPTED", "MOCKED", "OTHER"}
    RuleInputs <- OneMock
    SeedHost = "a"
    SeedRule <- MCSeedRule
    EnvHosts = {"b"}
    InitialStates <- InterceptedA
    InitialRules <- HandWritten
    NoFile = NoFile
    EmptyFile = EmptyFile
    BadFile = BadFile
    MaxFaults = 0
    MaxCrashes = 1
    CrashMidSave = FALSE
INVARIANTS
    QuiescentDiskCurrent
    AckedPolicySurvives
    RulesDeletable
