\* Two images, and handlers whose exceptions Aeron keeps.
SPECIFICATION Spec
CONSTANTS
    t1 = t1
    t2 = t2
    Threads = {t1, t2}
    Nobody = Nobody
    Session = 1
    OtherSessions = {2}
    Images = {"own", "other"}
    ImageOf <- TwoImages
    RelevantIds = {7}
    Kinds = {"response", "descriptors", "pollForErrorResponse"}
    RecordCounts = {2}
    FragmentLimit = 2
    HandlerPropagates = FALSE
    MaxCorrelationId = 2
    MaxQueue = 2
    NoiseIsBounded = TRUE
    MaxNoise = 1
    MaxAsyncErrors = 0
SYMMETRY ThreadSymmetry
INVARIANTS
    ValueIsOwnAnswer
    DeliveredInOrder
    CountIsComplete
