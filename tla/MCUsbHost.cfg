SPECIFICATION Spec
CONSTANTS
    Levels = {"none", "se1"}
    NumDevices = 3
    MaxChanges = 4
INVARIANTS
    NoTrafficInReset
    PollsNewest
    FlagFollowsSession
    StateFollowsWire
PROPERTIES
    EnumerationEnds
