\* Two clients connect, in two attempts, beside one that is connected.
SPECIFICATION Spec
CONSTANTS
    c1 = c1
    c2 = c2
    Clients = {c1, c2}
    Images = {"image"}
    ImageOf <- OneImage
    OldSession = 9
    OtherIds = {8}
    HandlerPropagates = TRUE
    MaxAttempts = 2
    MaxQueue = 2
    MaxTraffic = 1
CHECK_DEADLOCK FALSE
SYMMETRY ClientSymmetry
INVARIANTS
    SessionIsOwn
    RefusalIsOwn
    AnswerIsSeen
    IInv
PROPERTY
    ImplementsSessions
