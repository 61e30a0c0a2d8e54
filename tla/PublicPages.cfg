SPECIFICATION PublicPagesSpec
CONSTANTS
    Agents = {a1, a2}
    Rendered = {a1}
    Offered = {6, 24}
    Stored = {6, 720}
    MaxHours = 24
    Allowed = {cpu}
    Unstable = {a2}
    NoAgent = NoAgent
    NoKey = NoKey
    NoChart = NoChart
    NoHours = NoHours
    MaxStale = 1
    Slugs = {s1, s2}
    NoSlug = NoSlug
    PerPage = {n1, n2}
    Periods = {h1, h6}
    NoPage = NoPage
    Nobody = Nobody
    NoSeries = NoSeries
    MaxPending = 2
INVARIANTS
    PublicPagesSettle
PROPERTIES
    StatusHeals
CHECK_DEADLOCK FALSE
