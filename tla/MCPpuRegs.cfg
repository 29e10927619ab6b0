CONSTANTS
    Byte <- MCByte
    LowN = 5
    HighN = 2
    AddrN = 12
    VramBase = 2
    PalBase = 6
    PalEnd = 10
    VramSize = 2
    PalSize = 4
    Stride = 4
    chrrom <- MCRom
    MinNes = 3
    MaxNes = 3
SPECIFICATION Spec
INVARIANTS ReadsAreReady
PROPERTIES WritesLand ImplementsPort
