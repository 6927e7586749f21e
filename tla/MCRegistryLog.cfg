SPECIFICATION Spec
CONSTANTS
    Hosts = {"", "a"}
    EmptyHost = ""
    Fold <- IdFold
    OtherStates = {}
    Absent = Absent
    RingN = 2
    MaxSeen = 2
    MaxLog = 4
INVARIANTS
    TypeOK
    RingIsNewestFlows
    HitsOnlyForListed
