SPECIFICATION Spec
CONSTANTS
    Scripts <- MCScripts
    Body = 2
    MaxResp = 2
    Cap = 2
    MayStall = TRUE
INVARIANTS TypeOK HandedOverAfterHandshake
PROPERTIES ConnectionReleased ClientStream ClientDelivered OriginStream
    OriginDelivered
CHECK_DEADLOCK FALSE
