SPECIFICATION Spec
CONSTANTS
    MaxAttempts = 3
    MaxMessagesPerDay = 2
    QuietStart = 22
    QuietEnd = 8
    Hour = 3600
    Calendar <- MCCalendar
    UnknownDay = 99
    Events <- MCEvents
    Moments <- MCMoments
    Hours <- MCHours
    SalaryDays = {0, 1, 15, 27, 28, 31}
    Batch <- MCBatch
    Latencies = {3, 4}
    MessageLatency = 1
CHECK_DEADLOCK FALSE
INVARIANT NoFutileAttempt
INVARIANT BudgetsHold
INVARIANT HorizonRespected
INVARIANT DeskDominates
INVARIANT EveryRunIsCounted
INVARIANT StopsOutrankRetries
INVARIANT FundsLowWaitsForMoney
INVARIANT GuardrailsRestrict
