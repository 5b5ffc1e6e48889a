\* An issuer timeout, an abandonment and a riddle, beside one payment that is not the demo's.
SPECIFICATION FairSpec
CONSTANTS
    MaxAttempts = 3
    MaxMessagesPerDay = 2
    QuietStart = 22
    QuietEnd = 8
    Hour = 60
    Calendar <- MCCalendar
    UnknownDay = 99
    Shown = {1, 8, 11}
    Dev = {101}
    Now = 720
    Threshold = 1
    StormBatch = 3
    ProtectBatch = 2
    DrainBatch = 2
CHECK_DEADLOCK FALSE
INVARIANT StagesBuild
INVARIANT CircuitTrips
PROPERTY ResetCleans
PROPERTY DevUntouched
PROPERTY DemoCompletes
PROPERTY DrainsReachAll
