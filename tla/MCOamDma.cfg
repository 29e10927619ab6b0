CONSTANTS
    N = 2
    MinNes = 2
    MaxNes = 3
    DmaReg <- MCDmaReg
    OamAddrReg <- MCOamAddrReg
    OamDataReg <- MCOamDataReg
    BusCycles <- AllCycles
    InitRams <- AllRams
SPECIFICATION Spec
INVARIANTS TypeOK CopiedPrefix NoLostPoke
PROPERTIES ImplementsCopy OnlyFirstByteGlitches StartsAtPage
