SPECIFICATION RequestsSpec
CONSTANTS
    Probes = {m1, m2}
    Settings = {c1}
    Pushers = {p1, p2}
    MaxChanges = 2
    MaxInbox = 1
    Hubs = {h1}
    Awaited = {h, a}
    Polls = {g, k}
    Handshake = h
    FeedLimit = 1
    MaxRequests = 3
    Visitors = {v1, v2}
    Limits <- SmallLimits
    MaxVersion = 1
INVARIANTS
    SyncedMeansApplied
    AnswersUsedOnce
    BuildsAreSound
PROPERTIES
    NobodyWaitsForever
CHECK_DEADLOCK FALSE
