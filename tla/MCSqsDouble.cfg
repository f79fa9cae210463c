SPECIFICATION SqsSpec
CONSTANTS
    NoMessage = NoMessage
    Tasks = {t1}
    Workers = {w1, w2}
    Messages = {m1, m2}
    MaxAttempts = 2
    WorkerBatch = 1
    LeaseCoversRun = TRUE
    MaxFaults = 0
    MaxReceive = 2
    LambdaBatch = 1
INVARIANT NoDoubleProcess
CHECK_DEADLOCK FALSE
