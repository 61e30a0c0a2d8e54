SPECIFICATION ViewsSpec
CONSTANTS
    Boxes = {b1, b2}
    Spans = {h1, h6}
    Spells = {z1}
    NoSpell = NoSpell
    NoView = NoView
    MaxAsks = 2
    Hosted = {b1, b2}
    Brief = {n1}
    Lengthy = {n2}
    Called = {x, y}
    MaxPuts = 1
    Queries = {q0, q1}
    NoQuery = q0
    Standings = {all}
    LastEventPage = 2
    NoneGot = NoneGot
    MaxQueried = 2
    Watches = {w1}
    Settings = {u, v}
    Gone = Gone
    NotFetched = NotFetched
    NoWatch = NoWatch
    MaxRuleCalls = 2
    Formed = {r1, r2}
    Creating = Creating
    NoForm = NoForm
    Presets = {p1}
    NoPreset = NoPreset
    Watched = {n1}
    Missing = Missing
    MaxFormCalls = 1
    MaxLoads = 1
    StatusPages = {g1, g2}
    NewPage = NewPage
    NoPageView = NoPageView
    PageHosts = {n1, n2}
    Unset = Unset
    NoHost = NoHost
    MaxViews = 1
    Monitors = {1, 2}
    Permanent = {1}
    ListFilters = {{1, 2}, {2}}
    Limit = 1
    MaxListPage = 2
    NoSnapshot = NoSnapshot
    Targets = {t1, t2}
    NoTarget = NoTarget
    MonitorSettings = {x, y}
    Default = x
    NoGroup = NoGroup
    NoOp = NoOp
    NoSave = NoSave
    MaxOvertaken = 1
INVARIANTS
    
    ViewsSaveTheirOwn
    SettledListIsCurrent
PROPERTIES
    EditorServesLastWish
