SPECIFICATION SafetySpec
CONSTANTS
    Minute = 3
    Hour = 9
    Day = 18
    MaxDays = 1
    Second = 2
    MaxClk = 3
    Once = {}
    Every = {v}
    Idle = {i}
    Delays = {1, 2, 4, 8}
INVARIANTS
    WheelInv
    FireWindow
    ClockBound
