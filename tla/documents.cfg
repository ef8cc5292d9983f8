CONSTANTS
    TextMax = 14
    TableMax = 14
    ChunkMin = 4
    MinFile = 1
    MinSide = 2
    FigureSide = 3
    MaxRatio = 3
    MaxSide = 9
    MinDeviation = 1
    Noise = {"x"}
    Stubs = {"s"}
    Pieces <- MCPieces
    MaxPieces = 4
    MaxImages = 2
    Found <- MCFound
    MaxCuts = 2
    MaxEmbedded = 3
    Chunkers = {"adaptive", "fixed"}
    WindowSize = 18
    OverlapSize = 7
    ColGap = 60
    Config <- MCConfig
    Papers <- MCPapers
SPECIFICATION Spec
CHECK_DEADLOCK FALSE
INVARIANTS
    LinesOnce
    TablesTellCondition
    PathEncloses
    SiblingsNumbered
    OcrOnce
