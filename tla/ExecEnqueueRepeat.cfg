\* One enqueue that overlaps the job it adds, one fault; no claim ever goes stale.
SPECIFICATION Spec
CONSTANTS
    Payment = {p1}
    Action = {a1}
    PaymentOf <- OnePayment
    Worker = {w1}
    Demo = {}
    Api = {h1}
    Ceilings = {3}
    InfraAttempts = 2
    MaxStalled = 1
    MaxMishaps = 1
    LockLoss = FALSE
    Reclaim = "never"
    EnqueueRaces = TRUE
    NoAction = NoAction
    NoWorker = NoWorker
INVARIANT AtMostOneEffect
CHECK_DEADLOCK FALSE
