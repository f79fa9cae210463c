SPECIFICATION ReadSpec
CONSTANTS
    NoContent = NoContent
    NoDoc = NoDoc
    Everywhere = Everywhere
    Models = {m1}
    Tasks = {t1, t2}
    Docs = {t1, t2}
    Slots <- MCSlot
    Keys <- MCKeys
    KeyOf <- MCStorageKeys
    Addresses <- MCAddresses
    AddressOf <- MCAddressOf
    Contents = {c1}
    Uploads = {c1}
    Torn = NoContent
    LocalFiles = FALSE
    ChunkCount <- MCChunkCount
    Workers = {w1}
    MaxAttempts = 1
    WorkerBatch = 1
    LeaseCoversRun = TRUE
    MaxFaults = 0
    Overlap = "none"
    EmbedBatch = 1
    ApiFaults = TRUE
    Apart = TRUE
    OneAdmin = FALSE
    NoModel = NoModel
    Readers = {r1}
    TopK = 3
    ExactModels = {}
PROPERTY IndexedMeansServed
CHECK_DEADLOCK FALSE
