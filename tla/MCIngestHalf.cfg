SPECIFICATION PipelineSpec
CONSTANTS
    short = short
    long = long
    blank = blank
    torn = torn
    NoContent = NoContent
    NoDoc = NoDoc
    Models = {m1}
    Tasks = {t1, t2}
    Docs = {t1, t2}
    Slots <- MCSlot
    Keys <- MCKeys
    KeyOf <- MCStorageKeys
    Contents = {short, long}
    Uploads = {short, long}
    Torn = torn
    LocalFiles = FALSE
    ChunkCount <- MCChunkCount
    Workers = {w1}
    MaxAttempts = 1
    WorkerBatch = 1
    LeaseCoversRun = TRUE
    MaxFaults = 0
    Overlap = "queued"
    EmbedBatch = 1
    ApiFaults = FALSE
INVARIANT ReaderSeesWhole
CHECK_DEADLOCK FALSE
