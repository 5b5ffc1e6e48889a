\* Two actions of one payment, every execution its job's: charges are counted, queued
\* work survives what fails around it, and a hard stop reaches it.
SPECIFICATION Spec
CONSTANTS
    Payment = {p1}
    Action = {a1, a2, a3}
    PaymentOf <- OnePayment
    Worker = {w1, w2}
    Demo = {}
    Api = {h1}
    Ceilings = {2}
    InfraAttempts = 2
    MaxStalled = 1
    MaxMishaps = 2
    LockLoss = FALSE
    Reclaim = "dead"
    EnqueueRaces = FALSE
    NoAction = NoAction
    NoWorker = NoWorker
SYMMETRY ActionAndWorkerSymmetry
INVARIANTS
    AttemptAccounting
    CeilingOvershoot
    NothingForgotten
PROPERTIES
    StopsReachUnclaimed
CHECK_DEADLOCK FALSE
