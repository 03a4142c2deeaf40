\* One client, two attempts, two images: the constructor ends every time.
SPECIFICATION FairSpec
CONSTANTS
    c1 = c1
    Clients = {c1}
    Images = {"own", "other"}
    ImageOf <- TwoImages
    OldSession = 9
    OtherIds = {8}
    HandlerPropagates = FALSE
    MaxAttempts = 2
    MaxQueue = 1
    MaxTraffic = 2
CHECK_DEADLOCK FALSE
INVARIANTS
    SessionIsOwn
PROPERTY
    ConstructorEnds
