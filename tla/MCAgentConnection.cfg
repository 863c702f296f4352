SPECIFICATION Spec
CONSTANTS
    s1 = s1
    s2 = s2
    c1 = c1
    c2 = c2
    Sockets = {s1, s2}
    Cmds = {c1, c2}
    ConfigCmds = {c1}
    Faults = {"hibernate", "restart", "overlap", "disconnect", "early_close", "poll"}
    MaxSuspended = 2
    CallerId = CallerId
    NoSocket = NoSocket
    NoCmd = NoCmd
    NoState = NoState
INVARIANTS
    TypeOK
    NothingBeforeVerification
    AnsweredStaysSettled
PROPERTY
    PendingLostOnlyUnloaded
