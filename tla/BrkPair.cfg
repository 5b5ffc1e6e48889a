\* Two workers, slow handlers, calls that outlast the probe lock, one crash, resets.
SPECIFICATION FairSpec
CONSTANTS
    Caller = {c1, c2}
    Process = {x1, x2}
    ProcessOf <- Spread
    Threshold = 2
    Window = 2
    Cooldown = 2
    ProbeTtl = 1
    MaxLag = 1
    MaxCall = 2
    MaxCrashes = 1
    ResetsAnytime = TRUE
    NoProcess = NoProcess
INVARIANTS
    TypeOK
    StormsTrip
PROPERTIES
    ImplementsStore
    Recovers
CHECK_DEADLOCK FALSE
