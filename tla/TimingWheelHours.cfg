SPECIFICATION Spec
CONSTANTS
    Minute = 3
    Hour = 9
    Day = 18
    MaxDays = 1
    Second = 1
    MaxClk = 1
    Once = {o}
    Every = {}
    Idle = {}
    Delays = {2, 10}
PROPERTIES
    SupportedDelaysFire
