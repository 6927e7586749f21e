SPECIFICATION Spec
CONSTANTS
    Hosts = {"", "a"}
    EmptyHost = ""
    Fold <- MCFold
    OtherStates = {"OTHER"}
    Absent = Absent
    RingN = 1
    Paths <- MCPaths
    Methods = {"GET", "PUT"}
    AnyMethod = ""
    id1 = id1
    id2 = id2
    RuleIDs = {id1, id2}
    NoId = NoId
    NoRule = NoRule
    MaxPos = 2
    Conns = {c1}
    Requests <- TwoRequests
    NoRequest = NoRequest
    MaxHits = 1
    Handlers = {h1}
    Main = main
    HostInputs = {"a"}
    StateInputs = {"MOCKED", "OTHER"}
    RuleInputs <- OneRewrite
    SeedHost = "a"
    SeedRule <- MCSeedRule
    EnvHosts = {}
    InitialStates <- NothingKnown
    InitialRules <- MockRule
    NoFile = NoFile
    EmptyFile = EmptyFile
    BadFile = BadFile
    MaxFaults = 1
    MaxCrashes = 1
    CrashMidSave = TRUE
INVARIANTS
    TypeOK
    OutcomeJustified
    NoDecryptWithoutPromotion
