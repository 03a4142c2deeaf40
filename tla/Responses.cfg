\* Two threads, two requests and their late answers on one image.
SPECIFICATION Spec
CONSTANTS
    t1 = t1
    t2 = t2
    Threads = {t1, t2}
    Nobody = Nobody
    Session = 1
    OtherSessions = {2}
    Images = {"image"}
    ImageOf <- OneImage
    RelevantIds = {7}
    Kinds = {"response", "pollForErrorResponse", "checkForErrorResponse"}
    RecordCounts = {}
    FragmentLimit = 2
    HandlerPropagates = TRUE
    MaxCorrelationId = 2
    MaxQueue = 2
    NoiseIsBounded = TRUE
    MaxNoise = 1
    MaxAsyncErrors = 1
SYMMETRY ThreadSymmetry
INVARIANTS
    ValueIsOwnAnswer
    ErrorIsOfThisSession
    AnswerIsNotLost
    IInv
