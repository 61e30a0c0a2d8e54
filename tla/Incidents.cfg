SPECIFICATION Spec
CONSTANTS
    Rules = {r1}
    DownRules = {}
    Agents = {a1}
    SendSlots = 2
    Removable = {"rule", "agent"}
    MaxIncidents = 2
    MaxAttempts = 2
    MaxCrashes = 1
INVARIANTS
    RowTracksIncident
    NoFalseRecovery
    NotifiedAgrees
    ClaimHeld
PROPERTIES
    NoAutomaticResend
    EndingIsFinal
    ImplementsLedger
CHECK_DEADLOCK FALSE
