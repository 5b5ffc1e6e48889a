\* A worker crashes inside a claimed action; everything else is fair.
SPECIFICATION FairSpec
CONSTANTS
    Payment = {p1}
    Action = {a1}
    PaymentOf <- OnePayment
    Worker = {w1}
    Demo = {}
    Api = {h1}
    Ceilings = {3}
    InfraAttempts = 2
    MaxStalled = 1
    MaxMishaps = 1
    LockLoss = FALSE
    Reclaim = "dead"
    EnqueueRaces = FALSE
    NoAction = NoAction
    NoWorker = NoWorker
PROPERTY ClaimsResolve
CHECK_DEADLOCK FALSE
