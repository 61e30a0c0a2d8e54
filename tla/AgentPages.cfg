SPECIFICATION AgentPagesSpec
CONSTANTS
    Agents = {a1, a2}
    Hours = {h6}
    Ranges = {z1}
    Live = Live
    Metrics = {cpu}
    NoAgent = NoAgent
    NoKey = NoKey
    NoChart = NoChart
    NoPicker = NoPicker
    MaxStale = 1
    Fleet = {a1}
    Titles = {x, y}
    NoTitle = NoTitle
    NotRead = NotRead
    NoDialog = NoDialog
    NoMenu = NoMenu
    MaxCalls = 2
INVARIANTS
    SettledShowsSelection
    ViewsFollowRoute
PROPERTIES
    ShowsLatestLoad
    AgentPanelsHeal
CHECK_DEADLOCK FALSE
