SPECIFICATION SyncSpec
CONSTANTS
    Probes = {m1}
    Settings = {c1}
    Pushers = {p1, p2}
    MaxChanges = 1
    MaxInbox = 1
    Hubs = {h1}
PROPERTIES
    FailedSyncIsRetried
CHECK_DEADLOCK FALSE
