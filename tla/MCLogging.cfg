SPECIFICATION Spec
CONSTANTS
    access = access
    audit = audit
    Paths <- MCPaths
    MainLog = access
    RotateType <- MCRotateType
    Check = Check
    OtherTasks = {other}
    MinutesPerHour = 2
    HoursPerDay = 2
    DaysPerMonth = 2
    MaxNow = 2
    MaxLogs = 2
    MaxLines = 2
    MaxCrashes = 1
INVARIANTS
    LogInv
    FiledUnderNoLaterPeriod
PROPERTIES
    StaleRotated
