\* Three processes of one slot, ticks of ten seconds: every handler ends in the tick it
\* begins in, every call before the probe lock expires, nothing crashes or is reset.
SPECIFICATION Spec
CONSTANTS
    Caller = {c1, c2, c3}
    Process = {x1, x2, x3}
    ProcessOf <- Spread
    Threshold = 2
    Window = 6
    Cooldown = 3
    ProbeTtl = 2
    MaxLag = 0
    MaxCall = 1
    MaxCrashes = 0
    ResetsAnytime = FALSE
    NoProcess = NoProcess
INVARIANTS
    OneProbe
CHECK_DEADLOCK FALSE
