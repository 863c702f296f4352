SPECIFICATION FairSpec
CONSTANTS
    NumRequests = 3
    InCap = 2
    OutCap = 1
    MaxBackoff = 4
    AttemptCap = 3
    Metrics = Metrics
    NoRequest = NoRequest
INVARIANTS
    Conserved
    BackoffTracksAttempts
    NoCircularWait
PROPERTIES
    AnsweredInOrder
    ShutdownCompletes
    AcceptedIsEnded
