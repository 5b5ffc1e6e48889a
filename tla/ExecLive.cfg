\* One slot for two jobs, two requests racing for the idempotency key, no crash,
\* no handover: both actions settle.
SPECIFICATION FairSpec
CONSTANTS
    Payment = {p1}
    Action = {a1, a2}
    PaymentOf <- OnePayment
    Worker = {w1}
    Demo = {}
    Api = {h1, h2}
    Ceilings = {2, 3}
    InfraAttempts = 2
    MaxStalled = 1
    MaxMishaps = 0
    LockLoss = FALSE
    Reclaim = "dead"
    EnqueueRaces = TRUE
    NoAction = NoAction
    NoWorker = NoWorker
PROPERTY EnqueuedSettles
CHECK_DEADLOCK FALSE
