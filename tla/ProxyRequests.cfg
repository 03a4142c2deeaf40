\* Two threads share the proxy; one method of each way to offer.
SPECIFICATION FairSpec
CONSTANTS
    c1 = c1
    c2 = c2
    Callers = {c1, c2}
    Nobody = Nobody
    NoRequest = NoRequest
    RetryAttempts = 3
    Operations <- SomeOperations
    MaxRequests = 3
CHECK_DEADLOCK FALSE
INVARIANTS
    TypeOK
    RetriesAsConfigured
    ConnectThrowsForGood
PROPERTIES
    ImplementsRequestStream
    MethodReturns
