SPECIFICATION PipelineSpec
CONSTANTS
    short = short
    long = long
    blank = blank
    torn = torn
    NoContent = NoContent
    NoDoc = NoDoc
    Models = {m1}
    Tasks = {t1, t2}
    Docs = {t1, t2}
    Slots <- MCSlot
    Keys <- MCKeys
    KeyOf <- MCStorageKeys
    Contents = {long}
    Uploads = {long}
    Torn = torn
    LocalFiles = FALSE
    ChunkCount <- MCChunkCount
    Workers = {w1, w2}
    MaxAttempts = 1
    WorkerBatch = 1
    LeaseCoversRun = FALSE
    MaxFaults = 1
    Overlap = "free"
    EmbedBatch = 1
    ApiFaults = FALSE
SYMMETRY RequestSymmetry
INVARIANTS
    PipelineTypeOK
    NoBlend
    NothingOrphaned
    AttemptIsFencing
CHECK_DEADLOCK FALSE
