SPECIFICATION TimerSpec
CONSTANTS
    W = 7
    Mult = 10
    Rate = 10
    Settle = 3
    XferTimeout = 6
PROPERTY
    SettleEnds
