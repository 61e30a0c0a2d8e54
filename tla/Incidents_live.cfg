SPECIFICATION RoutineSpec
CONSTANTS
    Rules = {r1}
    DownRules = {r1}
    Agents = {a1}
    SendSlots = 1
    Removable = {}
    MaxIncidents = 2
    MaxAttempts = 2
    MaxCrashes = 1
PROPERTIES
    OutageRaisesAlarm
    RecoveryClearsAlarm
CHECK_DEADLOCK FALSE
