SPECIFICATION Spec
CONSTANTS
    Hosts = {"", "a"}
    EmptyHost = ""
    Fold <- MCFold
    OtherStates = {}
    Absent = Absent
    RingN = 1
    Paths <- MCPaths
    Methods = {"GET", "PUT"}
    AnyMethod = ""
    id1 = id1
    id2 = id2
    RuleIDs = {id1, id2}
    NoId = NoId
    NoRule = NoRule
    MaxPos = 2
    Conns = {}
    Requests = {}
    NoRequest = NoRequest
    MaxHits = 0
    Handlers = {h1, h2}
    Main = main
    HostInputs = {"", "a"}
    StateInputs = {"OBSERVED", "INTERCEPTED", "MOCKED"}
    RuleInputs = {}
    SeedHost = "a"
    SeedRule <- MCSeedRule
    EnvHosts = {}
    InitialStates <- InterceptedA
    InitialRules <- NoneFound
    NoFile = NoFile
    EmptyFile = EmptyFile
    BadFile = BadFile
    MaxFaults = 0
    MaxCrashes = 0
    CrashMidSave = FALSE
INVARIANTS
    QuiescentDiskCurrent
