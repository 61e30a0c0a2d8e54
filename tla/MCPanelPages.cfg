SPECIFICATION PanelPagesSpec
CONSTANTS
    Filters = {all}
    Nodes = {n1}
    NoNode = NoNode
    MaxPage = 2
    NoKey = NoKey
    s1 = s1
    s2 = s2
    s3 = s3
    Servers = {s1, s2, s3}
    Rows <- ServerRows
    ByName <- ServersByName
    NoServer = NoServer
    Machines = {m1, m2}
    Names = {x, y}
    TooBad = TooBad
    NoMachine = NoMachine
    MaxSaves = 2
    Rules = {r1}
    Hosts = {h1, h2}
    Probes = {p1}
    Targets = {t1, t2}
    NoTarget = NoTarget
    NoRule = NoRule
    Probers = {q1, q2}
    NoProber = NoProber
    Protocols = {icmp, tcp}
    GraphFilters = {f1, f2}
    Ranges = {g1, g2}
    NoGraphKey = NoGraphKey
    Minute = 2
    Samples = 4
    MaxPoints = 4
    Hours = {12}
    Zooms <- ZoomedRanges
    MaxTime = 15
    Plots = {10, 30, 60, 84}
    Widths = {4, 9, 14}
    MinSlot = 17
INVARIANTS
    SettledHistoryShowsSelection
    PanelShowsWhatIsSaved
    ChartsAreLegible
PROPERTIES
    PanelHeals
