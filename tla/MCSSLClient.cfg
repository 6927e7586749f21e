SPECIFICATION Spec
CONSTANTS
    KitHosts = {"a", "b", ""}
    NoHost = ""
    Certs = {c1, c2}
    NoCert = NoCert
    BadPem = BadPem
    Threads = {t1, t2}
    Ssls = {s1, s2}
    MaxSsl = 1
    NoSsl = NoSsl
    NoFace = NoFace
    EtcConf <- Nothing
    Env <- Nothing
    LongLists = TRUE
    Begins <- BBeginsWithA
    ConfInputs <- LongerOnly
    PemInputs <- OwnCerts
    c1 = c1
    c2 = c2
SYMMETRY ClientSymmetry
INVARIANTS TypeOK  
