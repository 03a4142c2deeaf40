\* Every kind of call gives the lock back, if other traffic ends.
SPECIFICATION FairSpec
CONSTANTS
    t1 = t1
    Threads = {t1}
    Nobody = Nobody
    Session = 1
    OtherSessions = {2}
    Images = {"image"}
    ImageOf <- OneImage
    RelevantIds = {7}
    Kinds = {"response", "descriptors", "pollForErrorResponse", "checkForErrorResponse"}
    RecordCounts = {0, 2}
    FragmentLimit = 1
    HandlerPropagates = TRUE
    MaxCorrelationId = 2
    MaxQueue = 1
    NoiseIsBounded = TRUE
    MaxNoise = 1
    MaxAsyncErrors = 0
PROPERTY
    CallReturns
