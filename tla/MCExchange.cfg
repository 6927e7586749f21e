SPECIFICATION Spec
CONSTANTS
    Hosts = {"", "a", "A"}
    EmptyHost = ""
    Fold <- MCFold
    OtherStates = {}
    Absent = Absent
    RingN = 1
    Paths <- MCPaths
    Methods = {"GET", "PUT"}
    AnyMethod = ""
    RuleIDs = {"mock", "body", "json", "mockScript", "rewriteScript"}
    NoId = NoId
    NoRule = NoRule
    MaxPos = 5
    Conns = {c1}
    Requests <- MCRequests
    NoRequest = NoRequest
    MaxHits = 1
    Keys = {"a", "b", "c"}
    NoValue = NoValue
    Literals <- MCLiterals
    Float64 <- MCFloat64
    NoFloat = NoFloat
    MaxAlloc = 16777216
    Table <- MCTable
    ContentOf <- MCContent
    ReqBodies <- MCReq
    ResBodies <- MCRes
    Lengths <- MCLengths
    MaxFails = 5
    MaskKey <- MCKey
INVARIANTS
    TypeOK
    RenderedInFull
    MergeKeeps
    ShownIsRecorded
    FramesDelimited
    ClientFramesRead
CHECK_DEADLOCK FALSE
