\* One action: crashes, faults, handovers of stalled jobs, the stale reclaim.
SPECIFICATION Spec
CONSTANTS
    Payment = {p1}
    Action = {a1}
    PaymentOf <- OnePayment
    Worker = {w1, w2}
    Demo = {d1}
    Api = {h1}
    Ceilings = {1, 2, 3}
    InfraAttempts = 2
    MaxStalled = 1
    MaxMishaps = 3
    LockLoss = TRUE
    Reclaim = "dead"
    EnqueueRaces = FALSE
    NoAction = NoAction
    NoWorker = NoWorker
SYMMETRY WorkerSymmetry
INVARIANTS
    TypeOK
    ExclusiveClaim
    EffectsAccounted
    ExecutedIffRecorded
    PaymentFollowsOutcome
PROPERTIES
    ImplementsLedger
CHECK_DEADLOCK FALSE
