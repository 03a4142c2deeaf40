\* Two threads, listings of up to two recordings beside other calls, on one image.
SPECIFICATION Spec
CONSTANTS
    t1 = t1
    t2 = t2
    Threads = {t1, t2}
    Nobody = Nobody
    Session = 1
    OtherSessions = {2}
    Images = {"image"}
    ImageOf <- OneImage
    RelevantIds = {7}
    Kinds = {"response", "descriptors", "pollForErrorResponse"}
    RecordCounts = {0, 2}
    FragmentLimit = 2
    HandlerPropagates = TRUE
    MaxCorrelationId = 2
    MaxQueue = 2
    NoiseIsBounded = TRUE
    MaxNoise = 1
    MaxAsyncErrors = 0
SYMMETRY ThreadSymmetry
INVARIANTS
    TypeOK
    DeliveredInOrder
    CountIsComplete
    IInv
PROPERTIES
    ConsumerRunsInItsCall
    ImplementsCalls
