CONSTANTS
    NLines <- MCNLines
    LineNo <- MCLineNo
    CplMin = 9
    CplMax = 10
    MaxStall = 7
    Tearing = FALSE
    MaxRaises = 2
    ButtonOf <- MCButtonOf
    Reports <- MCReports
    MaxReads = 10
SPECIFICATION GameSpec
INVARIANTS EveryFrame SeenInTime OneNmiPerRaise FlagTracksReads ReadsSnapshot
PROPERTIES SteadyKeysShow
