SPECIFICATION RebuildSpec
CONSTANTS
    NoContent = NoContent
    NoDoc = NoDoc
    Everywhere = Everywhere
    Models = {m1, m2}
    Tasks = {t1, t2, t3}
    Docs = {t1, t2, t3}
    Slots = {s1}
    Keys = {s1}
    KeyOf <- MCOwn
    Addresses = {s1}
    AddressOf <- MCOwn
    Contents = {long}
    Uploads = {long}
    Torn = NoContent
    LocalFiles = FALSE
    ChunkCount <- MCChunkCount
    Workers = {w1}
    MaxAttempts = 1
    WorkerBatch = 2
    LeaseCoversRun = TRUE
    MaxFaults = 1
    Overlap = "none"
    EmbedBatch = 1
    ApiFaults = FALSE
    Apart = TRUE
    OneAdmin = TRUE
SYMMETRY RebuildSymmetry
INVARIANT RebuildTypeOK
PROPERTIES
    SwitchCoversAll
    SwitchedByNewest
CHECK_DEADLOCK FALSE
