SPECIFICATION QueueSpec
CONSTANTS
    Tasks = {t1, t2}
    Workers = {w1, w2}
    MaxAttempts = 2
    WorkerBatch = 2
    LeaseCoversRun = TRUE
    MaxFaults = 3
SYMMETRY QueueSymmetry
INVARIANTS
    TypeOK
    NoDoubleProcess
    PendingHasBudget
    AttemptsPaidFor
    InFlightHasLease
PROPERTY ImplementsLedger
CHECK_DEADLOCK FALSE
