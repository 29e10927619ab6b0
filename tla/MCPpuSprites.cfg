CONSTANTS
    hpixels = 51
    vlines = 22
    HsFirst = 34
    HsEnd = 40
    VsFirst = 20
    NumSprites = 4
    Slots = 2
    FetchEnd = 48
    EvalLines = 20
    InitOams <- MCOams
    NewBytes = {1, 255}
    WriteAt <- MCWriteAt
    MaxWrites = 1
    Solid <- MCSolid
SPECIFICATION SpritesSpec
INVARIANTS LineList OverflowExact SpritesShown
