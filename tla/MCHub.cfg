SPECIFICATION Spec
CONSTANTS
    Publishers = {p1}
    Clients = {c1, c2}
    Nobody = Nobody
    FlowHosts = {"a"}
    MaxFlows = 1
    OldFlows <- NoOldFlows
    SockCap = 1
    MaxLost = 1
    MaxForgets = 1
INVARIANTS
    TypeOK
    FramesIntact
    NothingMissed
PROPERTIES
    OnFlowReturns
    HandlerLeaves
CHECK_DEADLOCK FALSE
