SPECIFICATION Spec
CONSTANTS
    Main = Main
    w1 = w1
    w2 = w2
    Workers <- MCWorkers
    MaxRequests = 2
    MaxStarts = 2
    MaxFaults = 2
    MaxRecreated = 1
    StartLimit = 2
INVARIANTS
    TypeOK
    CleanStop
    TrustKept
    PinKept
PROPERTY
    RedirectedIsServed
CHECK_DEADLOCK FALSE
