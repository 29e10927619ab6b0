CONSTANTS
    N = 3
    MinNes = 2
    MaxNes = 3
    DmaReg <- MCDmaReg
    OamAddrReg <- MCOamAddrReg
    OamDataReg <- MCOamDataReg
    BusCycles <- HandlerCycles
    InitRams <- StripedRams
SPECIFICATION ResetSpec
INVARIANTS WholePageAtEnd
PROPERTIES DmaEnds
