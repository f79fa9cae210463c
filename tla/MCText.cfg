SPECIFICATION TextSpec
CONSTANTS
    MaxBytes = 7
    Texts <- MCTexts
    Sizes = {1, 2, 3}
    Overlaps = {0, 1, 2, 3}
    Files <- MCFiles
    Cutoff = 2
    OcrParas = {0, 1, 2}
    Replies <- MCReplies
    MaxChunks = 5
    Rankings <- MCRankings
    Limits = {1, 2}
    RrfK = 60
INVARIANTS
    WindowsTile
    SpansPointAtText
    LocatedUntilDrift
    EveryItemOnce
    PlacesDistinct
    FallbackKeepsText
    BetterStaysAhead
    AnswerIsFull
CHECK_DEADLOCK FALSE
