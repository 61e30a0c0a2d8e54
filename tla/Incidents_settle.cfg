SPECIFICATION FairSpec
CONSTANTS
    Rules = {r1}
    DownRules = {}
    Agents = {a1}
    SendSlots = 1
    Removable = {"rule", "target", "agent"}
    MaxIncidents = 1
    MaxAttempts = 2
    MaxCrashes = 1
PROPERTIES
    AttemptsSettle
CHECK_DEADLOCK FALSE
