SPECIFICATION FairPipelineSpec
CONSTANTS
    short = short
    long = long
    blank = blank
    torn = torn
    NoContent = NoContent
    NoDoc = NoDoc
    Models = {m1}
    Tasks = {t1, t2}
    Docs = {t1, t2}
    Slots <- MCSlot
    Keys <- MCKeys
    KeyOf <- MCStorageKeys
    Contents = {long, blank, torn}
    Uploads = {long, blank}
    Torn = torn
    LocalFiles = TRUE
    ChunkCount <- MCChunkCount
    Workers = {w1}
    MaxAttempts = 2
    WorkerBatch = 2
    LeaseCoversRun = TRUE
    MaxFaults = 1
    Overlap = "none"
    EmbedBatch = 1
    ApiFaults = TRUE
INVARIANTS
    SettledServesLatest
    BytesAwaitTheirJob
    DoneCountsAddUp
    HalfOnlyByRerun
PROPERTIES
    FlipPublishesWhole
    ServedOrReported
CHECK_DEADLOCK FALSE
