SPECIFICATION KeyboardSpec
CONSTANTS
    Reports <- MCReports
    Shown = 4
    MaxPending = 2
    NakLimit = 3
    RetryLimit = 2
    Devices <- MCDevices
    MaxPkt = 2
    Length <- MCLength
    MaxDevices = 2
INVARIANTS
    WholeDescriptor
    ReadyWhenRunning
    SessionToggles
PROPERTIES
    ImplementsStream
    PollReturns
    EnumerationReturns
CHECK_DEADLOCK FALSE
