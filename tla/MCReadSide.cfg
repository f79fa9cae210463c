SPECIFICATION ReadSpec
CONSTANTS
    NoContent = NoContent
    NoDoc = NoDoc
    Everywhere = Everywhere
    Models = {m1, m2}
    Tasks = {t1, t2}
    Docs = {t1, t2}
    Slots <- MCSlots
    Keys <- MCKeys
    KeyOf <- MCStorageKeys
    Addresses <- MCAddresses
    AddressOf <- MCAddressOf
    Contents = {c1, c2}
    Uploads = {c1, c2}
    Torn = NoContent
    LocalFiles = FALSE
    ChunkCount <- MCChunkCount
    Workers = {w1}
    MaxAttempts = 1
    WorkerBatch = 1
    LeaseCoversRun = TRUE
    MaxFaults = 0
    Overlap = "none"
    EmbedBatch = 2
    ApiFaults = FALSE
    Apart = TRUE
    OneAdmin = FALSE
    NoModel = NoModel
    Readers = {r1}
    TopK = 3
    ExactModels = {m1}
SYMMETRY ReadSymmetry
INVARIANTS
    ReaderSeesWhole
    ContentStaysUnderKey
    AnswerIsolated
    AnswerFromOneRun
PROPERTIES
    QueryServed
    IndexedMeansServed
CHECK_DEADLOCK FALSE
