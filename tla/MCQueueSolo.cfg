SPECIFICATION FairQueueSpec
CONSTANTS
    Tasks = {t1, t2}
    Workers = {w1}
    MaxAttempts = 2
    WorkerBatch = 1
    LeaseCoversRun = FALSE
    MaxFaults = 2
PROPERTIES
    ImplementsLedger
    EveryJobSettles
    CrashedJobIsRecovered
CHECK_DEADLOCK FALSE
