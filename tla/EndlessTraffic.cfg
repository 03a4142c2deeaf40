\* Other traffic never ends: a call may outlive its timeout.
SPECIFICATION FairSpec
CONSTANTS
    t1 = t1
    Threads = {t1}
    Nobody = Nobody
    Session = 1
    OtherSessions = {2}
    Images = {"image"}
    ImageOf <- OneImage
    RelevantIds = {7}
    Kinds = {"response", "pollForErrorResponse"}
    RecordCounts = {}
    FragmentLimit = 1
    HandlerPropagates = TRUE
    MaxCorrelationId = 1
    MaxQueue = 1
    NoiseIsBounded = FALSE
    MaxNoise = 1
    MaxAsyncErrors = 0
PROPERTY
    CallReturns
