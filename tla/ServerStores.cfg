SPECIFICATION StoresSpec
CONSTANTS
    Agents = {a1, a2}
    MaxReport = 2
    MaxBatch = 2
    MaxCrashes = 1
    Owners = {o1, o2}
    Tokens = {t1, t2}
    Lookups = {l1, l2}
    Changers = {c1, c2}
    MaxTokenChanges = 2
    LossRules = {r1}
    LossMonitors = {m1, m2}
    Evaluators = {report}
    MaxAlarms = 2
    MaxNotices = 2
    MaxIncidents = 2
    MaxAttempts = 4
INVARIANTS
    CountedOnce
    OnePending
    StoreAgrees
    CacheAgrees
    OnlyCurrentTokensStay
    NetworkAlarmsAgree
    OneOutstanding
    OneChain
PROPERTIES
    OutcomesAreFinal
CHECK_DEADLOCK FALSE
