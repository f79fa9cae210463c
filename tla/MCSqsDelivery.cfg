SPECIFICATION FairSqsSpec
CONSTANTS
    NoMessage = NoMessage
    Tasks = {t1}
    Workers = {w1}
    Messages = {m1, m2}
    MaxAttempts = 2
    WorkerBatch = 1
    LeaseCoversRun = FALSE
    MaxFaults = 2
    MaxReceive = 2
    LambdaBatch = 2
INVARIANTS
    SqsTypeOK
PROPERTIES
    ImplementsLedger
    EveryJobSettles
    CrashedJobIsRecovered
CHECK_DEADLOCK FALSE
