SPECIFICATION KitSpec
CONSTANTS
    KitHosts = {"a", ""}
    NoHost = ""
    Names = {"a", "A", "blank"}
    Norm <- MCNorm
    Certs = {c1}
    NoCert = NoCert
    BadPem = BadPem
    Begins = {}
    Workers = {w1, w2}
    Starter = Starter
    Nobody = Nobody
    PolicyInputs <- WithCert
    DumpDir = TRUE
    NoMap = NoMap
    TornMap = TornMap
    MaxKitFaults = 1
    MaxKitCrashes = 1
SYMMETRY WorkerSymmetry
INVARIANTS KitTypeOK FilesFollowMemory SettingsKept CapturedHasCert
PROPERTY FileSpec
