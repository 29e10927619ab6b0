SPECIFICATION ClockSpec
CONSTANTS
    W = 5
    Mult = 4
    Rate = 4
    Settle = 2
    XferTimeout = 4
    Alarms = {jtag}
    Periods = {0, 3, 30}
INVARIANTS
    NeverEarly
    AlarmsOnTime
