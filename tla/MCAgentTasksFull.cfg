SPECIFICATION FairSpec
CONSTANTS
    NumRequests = 4
    InCap = 2
    OutCap = 1
    MaxBackoff = 4
    AttemptCap = 3
    Metrics = Metrics
    NoRequest = NoRequest
PROPERTY
    ShutdownCompletes
\* The circular wait this run is about is a deadlock: let the property report it.
CHECK_DEADLOCK FALSE
