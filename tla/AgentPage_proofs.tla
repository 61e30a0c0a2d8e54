--------------------------- MODULE AgentPage_proofs ---------------------------
(***************************************************************************)
(* The detail of an agent shows what is selected, and the page implements  *)
(* LatestLoad, for any agents, ranges and charts.                          *)
(*                                                                         *)
(* What carries both is that the group of requests is never left behind:   *)
(* LoadFollows says that a detail on screen has exactly the load of its    *)
(* route and picker in force, and any other view has none.  An answer that *)
(* may still paint is therefore one of that load (ChartsFollow), and every *)
(* other one only leaves the list of what is stale.                        *)
(***************************************************************************)
EXTENDS AgentPage, TLAPS

\* The detail and its panels are those of the agent last opened; the overview and
\* the start have no agent.
NavFollows ==
  /\ detail = panels.node
  /\ route \in Agents => current = route /\ detail = route /\ picker # NoPicker
  /\ route \in {"none", "overview"} => current = NoAgent
  /\ netPage <=> route = "network"
  /\ route # "none" => (panels.active <=> route \in Agents)

TilesFollow == route \in Agents /\ route \in readable => tiles = route

\* The load that is in force.
LoadFollows ==
  /\ key = IF DetailVisible THEN [agent |-> route, sel |-> picker] ELSE NoKey
  /\ key = NoKey => open = {}

\* A chart that waits for nothing shows that load, and says so if it failed.
ChartFollows(p) ==
  /\ chart[p] # NoChart
  /\ chart[p].key = key
  /\ chart[p].live \subseteq {route}
  /\ ~chart[p].ok => failed

ChartsFollow == DetailVisible => \A p \in Panels \ open : ChartFollows(p)

PageInv == AgentTypeOK /\ NavFollows /\ TilesFollow /\ LoadFollows /\ ChartsFollow

\* The variables that an answer and a load leave alone.
stillVars == <<reported, readable, hidden, picker, customRange, navVars>>

USE AgentPageAssumption, AbsenceAssumption

LEMMA KeysOfSelections ==
  ASSUME NEW a \in Agents, NEW sel \in Selections
  PROVE  [agent |-> a, sel |-> sel] \in Keys /\ [agent |-> a, sel |-> sel] # NoKey
  BY DEF Keys

LEMMA PageInvInit == Init => PageInv
<1> SUFFICES ASSUME Init PROVE PageInv
  OBVIOUS
<1> USE DEF Init, Detail!GroupInit
<1>1. AgentTypeOK
  BY DEF AgentTypeOK, Detail!GroupTypeOK
<1>2. ~DetailVisible
  BY DEF DetailVisible
<1> QED
  BY <1>1, <1>2 DEF PageInv, NavFollows, TilesFollow, LoadFollows, ChartsFollow

-----------------------------------------------------------------------------
(* Steps of the group of requests *)

\* Beginning a group keeps its types, and has all its parts wait.
LEMMA BeginTypes ==
  ASSUME PageInv, NEW k \in Keys, Detail!Begin(k, Panels)
  PROVE  Detail!GroupTypeOK' /\ key' = k /\ open' = Panels
<1>1. Detail!Abandoned \subseteq Panels \X Keys
  BY DEF PageInv, LoadFollows, AgentTypeOK, Detail!GroupTypeOK, Detail!Abandoned
<1> QED
  BY <1>1 DEF Detail!Begin, Detail!GroupTypeOK

LEMMA CancelTypes ==
  ASSUME PageInv, Detail!CancelGroup
  PROVE  Detail!GroupTypeOK' /\ key' = NoKey /\ open' = {}
<1>1. Detail!Abandoned \subseteq Panels \X Keys
  BY DEF PageInv, LoadFollows, AgentTypeOK, Detail!GroupTypeOK, Detail!Abandoned
<1> QED
  BY <1>1 DEF PageInv, AgentTypeOK, Detail!CancelGroup, Detail!GroupTypeOK

\* An answer that is not stale: its chart shows the load in force.
LEMMA PaintKeeps ==
  ASSUME PageInv, NEW p \in Panels, NEW how \in Outcomes, Detail!Answer(p, how),
         chart' = [chart EXCEPT ![p] = [key |-> key, ok |-> how = "ok", live |-> {}]],
         UNCHANGED <<stillVars, tiles>>
  PROVE  PageInv' /\ key \in Keys
<1> USE DEF stillVars, navVars
<1>1. DetailVisible /\ key \in Keys
  BY DEF PageInv, LoadFollows, AgentTypeOK, Detail!GroupTypeOK, Detail!Answer
<1>2. [key |-> key, ok |-> how = "ok", live |-> {}] \in Charts
  BY <1>1 DEF Charts
<1>3. Detail!GroupTypeOK'
  BY DEF PageInv, AgentTypeOK, Detail!GroupTypeOK, Detail!Answer
<1>4. AgentTypeOK'
  BY <1>2, <1>3 DEF PageInv, AgentTypeOK
<1>5. NavFollows' /\ TilesFollow' /\ LoadFollows'
  BY <1>1 DEF PageInv, NavFollows, TilesFollow, LoadFollows, DetailVisible, Detail!Answer
<1>6. ChartFollows(p)'
  BY <1>2 DEF PageInv, AgentTypeOK, ChartFollows, Detail!Answer
<1>7. \A q \in Panels \ open : ChartFollows(q)'
  BY <1>1 DEF PageInv, AgentTypeOK, ChartsFollow, ChartFollows, Detail!Answer
<1>8. ChartsFollow'
  BY <1>6, <1>7 DEF ChartsFollow, Detail!Answer
<1> QED
  BY <1>1, <1>4, <1>5, <1>8 DEF PageInv

\* A stale continuation and the end of Retry-After touch nothing on screen.
LEMMA StaleKeeps ==
  ASSUME PageInv, UNCHANGED <<stillVars, chart, tiles>>,
         \/ \E p \in Panels, k \in Keys : Detail!Expire(p, k)
         \/ Detail!Unblock
  PROVE  PageInv'
<1> USE DEF stillVars, navVars
<1>1. UNCHANGED <<key, open, failed>> /\ Detail!GroupTypeOK'
  BY DEF PageInv, AgentTypeOK, Detail!GroupTypeOK, Detail!Expire, Detail!Unblock
<1>2. AgentTypeOK'
  BY <1>1 DEF PageInv, AgentTypeOK
<1>3. NavFollows' /\ TilesFollow' /\ LoadFollows' /\ ChartsFollow'
  BY <1>1 DEF PageInv, NavFollows, TilesFollow, LoadFollows, ChartsFollow, ChartFollows,
              DetailVisible
<1> QED
  BY <1>2, <1>3 DEF PageInv

-----------------------------------------------------------------------------
(* Navigation *)

LEMMA OpenViewKeeps ==
  ASSUME PageInv, OpenNetwork \/ OpenOverview,
         UNCHANGED <<reported, readable, hidden, customRange, chart>>
  PROVE  PageInv' /\ (UNCHANGED key \/ key' = NoKey)
<1> USE DEF OpenNetwork, OpenOverview, LeaveView
<1>1. route' \notin Agents /\ ~DetailVisible'
  BY DEF DetailVisible
<1>2. Detail!GroupTypeOK' /\ key' = NoKey /\ open' = {}
  <2>1. CASE route' = route
    <3>1. UNCHANGED detailVars
      BY <2>1
    <3>2. key = NoKey /\ open = {}
      BY <1>1, <2>1 DEF PageInv, LoadFollows, DetailVisible
    <3> QED
      BY <3>1, <3>2 DEF detailVars, PageInv, AgentTypeOK, Detail!GroupTypeOK
  <2>2. CASE route' # route
    BY <2>2, CancelTypes
  <2> QED
    BY <2>1, <2>2
<1>3. /\ panels' \in [node : Agents \cup {NoAgent}, active : BOOLEAN]
      /\ panels'.node = panels.node
      /\ route' # route => ~panels'.active
      /\ route' = route => panels' = panels
  BY DEF PageInv, AgentTypeOK
<1>4. AgentTypeOK'
  BY <1>2, <1>3 DEF PageInv, AgentTypeOK
<1>5. NavFollows'
  BY <1>1, <1>3 DEF PageInv, NavFollows
<1>6. TilesFollow' /\ LoadFollows' /\ ChartsFollow'
  BY <1>1, <1>2 DEF TilesFollow, LoadFollows, ChartsFollow
<1> QED
  BY <1>2, <1>4, <1>5, <1>6 DEF PageInv

LEMMA OpenAgentKeeps ==
  ASSUME PageInv, NEW a \in Agents, OpenAgent(a),
         UNCHANGED <<reported, readable, hidden, customRange, chart>>
  PROVE  PageInv' /\ key' \in Keys \cup {NoKey}
<1>1. /\ route' = a /\ current' = a /\ detail' = a /\ netPage' = FALSE
      /\ panels' = [node |-> IF detail # a THEN a ELSE panels.node, active |-> TRUE]
  BY DEF OpenAgent
<1>2. picker' \in Selections
  BY DEF OpenAgent, PageInv, AgentTypeOK, Selections
<1>3. tiles' = IF a \in reported THEN a ELSE tiles
  BY DEF OpenAgent, RenderLiveState
<1>4. panels'.node = a /\ panels'.active
  BY <1>1 DEF PageInv, NavFollows
<1>5. NavFollows'
  BY <1>1, <1>2, <1>4 DEF NavFollows
<1>6. TilesFollow'
  BY <1>1, <1>3 DEF PageInv, AgentTypeOK, TilesFollow
<1>7. DetailVisible' <=> ~hidden
  BY <1>1 DEF DetailVisible
<1>8. CASE hidden
  <2>1. Detail!GroupTypeOK' /\ key' = NoKey /\ open' = {}
    <3>1. key = NoKey /\ open = {}
      BY <1>8 DEF PageInv, LoadFollows, DetailVisible
    <3>2. CASE route # a
      BY <1>8, <3>2, CancelTypes DEF OpenAgent
    <3>3. CASE route = a
      BY <1>8, <3>1, <3>3 DEF OpenAgent, detailVars, PageInv, AgentTypeOK, Detail!GroupTypeOK
    <3> QED
      BY <3>2, <3>3
  <2>2. AgentTypeOK'
    BY <1>1, <1>2, <1>3, <2>1 DEF PageInv, AgentTypeOK
  <2>3. LoadFollows' /\ ChartsFollow'
    BY <1>7, <1>8, <2>1 DEF LoadFollows, ChartsFollow
  <2> QED
    BY <1>5, <1>6, <2>1, <2>2, <2>3 DEF PageInv
<1>9. CASE ~hidden
  <2> DEFINE k == [agent |-> a, sel |-> picker']
  <2>1. k \in Keys /\ k # NoKey
    BY <1>2, KeysOfSelections
  <2>2. Detail!Begin(k, Panels)
    BY <1>9 DEF OpenAgent, LoadDetail
  <2>3. Detail!GroupTypeOK' /\ key' = k /\ open' = Panels
    BY <2>1, <2>2, BeginTypes
  <2>4. AgentTypeOK'
    BY <1>1, <1>2, <1>3, <2>3 DEF PageInv, AgentTypeOK
  <2>5. LoadFollows' /\ ChartsFollow'
    BY <1>1, <1>7, <1>9, <2>1, <2>3 DEF LoadFollows, ChartsFollow
  <2> QED
    BY <1>5, <1>6, <2>1, <2>3, <2>4, <2>5 DEF PageInv
<1> QED
  BY <1>8, <1>9

LEMMA NavigateKeeps ==
  ASSUME PageInv, NEW t, Navigate(t)
  PROVE  PageInv' /\ key' \in Keys \cup {NoKey} /\ UNCHANGED chart
<1>1. CASE OpenNetwork \/ OpenOverview
  BY <1>1, OpenViewKeeps DEF Navigate, PageInv, AgentTypeOK, Detail!GroupTypeOK
<1>2. CASE \E a \in Agents : OpenAgent(a)
  BY <1>2, OpenAgentKeeps DEF Navigate
<1> QED
  BY <1>1, <1>2 DEF Navigate

-----------------------------------------------------------------------------
(* The time range and the tab *)

\* Loading what the detail on screen selects, from wherever it is asked.
LEMMA LoadKeeps ==
  ASSUME PageInv, route \in Agents, hidden' = FALSE, NEW sel \in Selections, picker' = sel,
         customRange' \in Ranges \cup {Live},
         Detail!Begin([agent |-> route, sel |-> sel], Panels), RenderLiveState(route),
         UNCHANGED <<reported, readable, chart, navVars>>
  PROVE  PageInv' /\ key' \in Keys
<1> USE DEF navVars
<1> DEFINE k == [agent |-> route, sel |-> sel]
<1>1. k \in Keys /\ k # NoKey
  BY KeysOfSelections
<1>2. Detail!GroupTypeOK' /\ key' = k /\ open' = Panels
  BY <1>1, BeginTypes
<1>3. AgentTypeOK'
  BY <1>2 DEF PageInv, AgentTypeOK, RenderLiveState
<1>4. NavFollows' /\ TilesFollow'
  BY DEF PageInv, AgentTypeOK, NavFollows, TilesFollow, RenderLiveState
<1>5. LoadFollows' /\ ChartsFollow'
  BY <1>1, <1>2 DEF LoadFollows, ChartsFollow, DetailVisible
<1> QED
  BY <1>1, <1>2, <1>3, <1>4, <1>5 DEF PageInv

LEMMA SelectKeeps ==
  ASSUME PageInv, NEW sel \in Selections, Select(sel)
  PROVE  PageInv' /\ key' \in Keys /\ UNCHANGED chart
<1>1. current = route /\ route # "network" /\ hidden' = FALSE
  BY DEF PageInv, AgentTypeOK, NavFollows, Select
<1>2. Detail!Begin([agent |-> route, sel |-> sel], Panels) /\ RenderLiveState(route)
  BY <1>1 DEF Select, LoadDetail
<1>3. sel.custom \in Ranges \cup {Live}
  BY DEF Selections
<1> QED
  BY <1>1, <1>2, <1>3, LoadKeeps DEF Select

LEMMA RangeKeeps ==
  ASSUME PageInv, PickHours \/ PickCustom \/ ResetRange \/ Zoom
  PROVE  PageInv' /\ key' \in Keys /\ UNCHANGED chart
<1>1. \E sel \in Selections : Select(sel)
  <2>1. CASE PickHours
    BY <2>1 DEF PickHours, Selections
  <2>2. CASE picker # NoPicker
    <3>1. picker \in Selections
      BY <2>2 DEF PageInv, AgentTypeOK
    <3>2. \A r \in Ranges \cup {Live} : [picker EXCEPT !.custom = r] \in Selections
      BY <3>1 DEF Selections
    <3> QED
      BY <2>1, <3>2 DEF PickCustom, ResetRange, Zoom
  <2> QED
    BY <2>1, <2>2 DEF PickCustom, ResetRange, Zoom
<1> QED
  BY <1>1, SelectKeeps

LEMMA RetryKeeps ==
  ASSUME PageInv, Retry
  PROVE  PageInv' /\ key' \in Keys /\ UNCHANGED chart
<1>1. route \in Agents /\ hidden' = FALSE /\ route # "network"
  BY DEF Retry, PageInv, AgentTypeOK
<1>2. key.agent = route /\ key.sel = picker /\ picker \in Selections
  BY <1>1 DEF PageInv, AgentTypeOK, LoadFollows, NavFollows, DetailVisible, Retry
<1>3. Detail!Begin([agent |-> route, sel |-> picker], Panels) /\ RenderLiveState(route)
  BY <1>1, <1>2 DEF Retry, LoadDetail
<1> QED
  BY <1>1, <1>2, <1>3, LoadKeeps DEF Retry, PageInv, AgentTypeOK

LEMMA HideKeeps ==
  ASSUME PageInv, Hide
  PROVE  PageInv' /\ key' = NoKey /\ UNCHANGED chart
<1> USE DEF Hide, navVars
<1>1. Detail!GroupTypeOK' /\ key' = NoKey /\ open' = {}
  BY CancelTypes
<1>2. AgentTypeOK'
  BY <1>1 DEF PageInv, AgentTypeOK
<1>3. NavFollows' /\ TilesFollow' /\ LoadFollows' /\ ChartsFollow'
  BY <1>1 DEF PageInv, NavFollows, TilesFollow, LoadFollows, ChartsFollow, DetailVisible
<1> QED
  BY <1>1, <1>2, <1>3 DEF PageInv

LEMMA UnhideKeeps ==
  ASSUME PageInv, Unhide
  PROVE  PageInv' /\ key' \in Keys \cup {NoKey} /\ UNCHANGED chart
<1>1. CASE route \in Agents
  <2>1. /\ current = route /\ route \notin {"overview", "network"}
        /\ current # NoAgent /\ picker # NoPicker /\ picker \in Selections
    BY <1>1 DEF PageInv, AgentTypeOK, NavFollows
  <2>2. Detail!Begin([agent |-> route, sel |-> picker], Panels) /\ RenderLiveState(route)
    BY <2>1 DEF Unhide, LoadDetail
  <2> QED
    BY <1>1, <2>1, <2>2, LoadKeeps DEF Unhide, PageInv, AgentTypeOK
<1>2. CASE route \notin Agents
  <2>1. /\ UNCHANGED <<detailVars, tiles, reported, readable, picker, customRange, chart,
                       navVars>>
        /\ hidden' = FALSE
    BY <1>2 DEF Unhide, PageInv, AgentTypeOK, NavFollows
  <2>2. AgentTypeOK'
    <3>1. UNCHANGED <<key, open, stale, failed, blocked>>
      BY <2>1 DEF detailVars
    <3>2. Detail!GroupTypeOK'
      BY <3>1 DEF PageInv, AgentTypeOK, Detail!GroupTypeOK
    <3> QED
      BY <2>1, <3>2 DEF navVars, PageInv, AgentTypeOK
  <2>3. NavFollows' /\ TilesFollow' /\ LoadFollows' /\ ChartsFollow'
    BY <1>2, <2>1 DEF detailVars, navVars, PageInv, NavFollows, TilesFollow,
                      LoadFollows, ChartsFollow, DetailVisible
  <2> QED
    BY <2>1, <2>2, <2>3 DEF detailVars, PageInv, AgentTypeOK, Detail!GroupTypeOK
<1> QED
  BY <1>1, <1>2

-----------------------------------------------------------------------------
(* The feed *)

\* A live point changes neither the load a chart is of nor whether it is complete.
LEMMA PointsKeepLoads ==
  ASSUME NEW c \in Charts \cup {NoChart}, NEW a \in Agents
  PROVE  /\ LivePoint(c, a) \in Charts \cup {NoChart}
         /\ c = NoChart => LivePoint(c, a) = NoChart
         /\ c # NoChart => /\ LivePoint(c, a) # NoChart
                           /\ LivePoint(c, a).key = c.key
                           /\ LivePoint(c, a).ok = c.ok
                           /\ LivePoint(c, a).live \subseteq c.live \cup {a}
  BY DEF LivePoint, Charts

LEMMA TelemetryKeeps ==
  ASSUME PageInv, NEW a \in Agents, NEW available \in BOOLEAN, NEW ps,
         Telemetry(a, available, ps)
  PROVE  /\ PageInv' /\ UNCHANGED key
         /\ \A p \in Panels :
              /\ chart'[p] = NoChart <=> chart[p] = NoChart
              /\ chart[p] # NoChart => chart'[p].key = chart[p].key
<1> USE DEF detailVars, navVars
<1>1. UNCHANGED <<hidden, picker, customRange, navVars, detailVars>>
  BY DEF Telemetry
<1>2. chart \in [Panels -> Charts \cup {NoChart}]
  BY DEF PageInv, AgentTypeOK
<1>3. /\ chart' \in [Panels -> Charts \cup {NoChart}]
      /\ \A p \in Panels : \/ chart'[p] = chart[p]
                           \/ current = a /\ chart'[p] = LivePoint(chart[p], a)
  <2>1. \A p \in Panels : LivePoint(chart[p], a) \in Charts \cup {NoChart}
    BY <1>2, PointsKeepLoads
  <2>2. \/ UNCHANGED chart
        \/ /\ current = a
           /\ chart' = [p \in Panels |-> IF p \in ps THEN LivePoint(chart[p], a) ELSE chart[p]]
    BY DEF Telemetry
  <2>3. CASE UNCHANGED chart
    BY <1>2, <2>3
  <2>4. CASE /\ current = a
             /\ chart' = [p \in Panels |-> IF p \in ps THEN LivePoint(chart[p], a)
                                                       ELSE chart[p]]
    BY <1>2, <2>1, <2>4
  <2> QED
    BY <2>2, <2>3, <2>4
<1>4. \A p \in Panels : /\ chart'[p] = NoChart <=> chart[p] = NoChart
                        /\ chart[p] # NoChart =>
                             /\ chart'[p].key = chart[p].key
                             /\ chart'[p].ok = chart[p].ok
                             /\ \/ chart'[p].live = chart[p].live
                                \/ current = a /\ chart'[p].live \subseteq chart[p].live \cup {a}
  BY <1>2, <1>3, PointsKeepLoads
<1>5. AgentTypeOK'
  BY <1>1, <1>3 DEF PageInv, AgentTypeOK, Telemetry, Detail!GroupTypeOK
<1>6. NavFollows' /\ LoadFollows'
  BY <1>1 DEF PageInv, NavFollows, LoadFollows, DetailVisible
<1>7. TilesFollow'
  BY <1>1 DEF PageInv, NavFollows, TilesFollow, Telemetry
<1>8. ChartsFollow'
  BY <1>1, <1>4 DEF PageInv, NavFollows, ChartsFollow, ChartFollows, DetailVisible
<1> QED
  BY <1>1, <1>4, <1>5, <1>6, <1>7, <1>8 DEF PageInv

-----------------------------------------------------------------------------
(* What the screen shows of the latest load *)

\* A step that paints nothing keeps what the charts are of.
ChartsKeep ==
  \A p \in Panels : /\ chart'[p] = NoChart <=> chart[p] = NoChart
                    /\ chart[p] # NoChart => chart'[p].key = chart[p].key

Painted(p) ==
  /\ key \in Keys /\ UNCHANGED key
  /\ \E ok \in BOOLEAN : chart' = [chart EXCEPT ![p] = [key |-> key, ok |-> ok, live |-> {}]]

\* Every step keeps the invariant; it starts or gives up a load and paints nothing,
\* or paints one chart with the load in force.
LEMMA PageStep ==
  ASSUME PageInv, [Next]_vars
  PROVE  /\ PageInv'
         /\ \/ key' \in Keys \cup {NoKey} /\ ChartsKeep
            \/ \E p \in Panels : Painted(p)
<1>0. key \in Keys \cup {NoKey}
  BY DEF PageInv, AgentTypeOK, Detail!GroupTypeOK
<1>1. CASE UNCHANGED vars
  BY <1>0, <1>1 DEF vars, navVars, detailVars, PageInv, AgentTypeOK, Detail!GroupTypeOK, NavFollows,
       TilesFollow, LoadFollows, ChartsFollow, ChartFollows, DetailVisible, ChartsKeep
<1>2. CASE \E t \in Agents \cup {"network-monitors", "agents"} : Navigate(t)
  BY <1>2, NavigateKeeps DEF ChartsKeep
<1>3. ASSUME NEW p \in Panels, NEW how \in Outcomes,
             PaintMetric(p, how) \/ (p = "disk" /\ PaintDisks(how))
      PROVE  PageInv' /\ \E q \in Panels : Painted(q)
  BY <1>3, PaintKeeps DEF PaintMetric, PaintDisks, stillVars, Painted, Detail!Answer
<1>4. CASE \/ \E p \in Metrics, how \in Outcomes : PaintMetric(p, how)
           \/ \E how \in Outcomes : PaintDisks(how)
  <2>1. "disk" \in Panels /\ Metrics \subseteq Panels
    BY DEF Panels
  <2>2. ASSUME NEW p \in Metrics, NEW how \in Outcomes, PaintMetric(p, how)
        PROVE  PageInv' /\ \E q \in Panels : Painted(q)
    BY <1>3, <2>1, <2>2
  <2>3. ASSUME NEW how \in Outcomes, PaintDisks(how)
        PROVE  PageInv' /\ \E q \in Panels : Painted(q)
    BY <1>3, <2>1, <2>3
  <2> QED
    BY <1>4, <2>2, <2>3
<1>5. CASE (\E p \in Panels, k \in Keys : StaleAnswer(p, k)) \/ RetryAfter
  <2>1. UNCHANGED <<stillVars, chart, tiles, key>>
    BY <1>5 DEF StaleAnswer, RetryAfter, stillVars, Detail!Expire, Detail!Unblock
  <2>2. PageInv'
    BY <1>5, <2>1, StaleKeeps DEF StaleAnswer, RetryAfter
  <2> QED
    BY <1>0, <2>1, <2>2 DEF ChartsKeep
<1>6. CASE PickHours \/ PickCustom \/ ResetRange \/ Zoom
  BY <1>6, RangeKeeps DEF ChartsKeep
<1>7. CASE Retry
  BY <1>7, RetryKeeps DEF ChartsKeep
<1>8. CASE Hide
  BY <1>8, HideKeeps DEF ChartsKeep
<1>9. CASE Unhide
  BY <1>9, UnhideKeeps DEF ChartsKeep
<1>10. CASE \E a \in Agents, available \in BOOLEAN, ps \in {Panels, Metrics} :
             Telemetry(a, available, ps)
  BY <1>0, <1>10, TelemetryKeeps DEF ChartsKeep
<1> QED
  BY <1>1, <1>2, <1>4, <1>5, <1>6, <1>7, <1>8, <1>9, <1>10 DEF Next

LEMMA PageInvHolds == Spec => []PageInv
<1>1. PageInv /\ [Next]_vars => PageInv'
  BY PageStep
<1> QED
  BY <1>1, PageInvInit, PTL DEF Spec

-----------------------------------------------------------------------------
(* The theorems *)

\* Types of the page's state, as loaded, navigated, hidden and fed.
THEOREM AgentPageTypesHold == Spec => []AgentTypeOK
  BY PageInvHolds, PTL DEF PageInv

\* In web/src/js/pages/admin_agents: however navigations, range changes, tab switches and
\* answers interleave, a detail on screen that waits for nothing has every chart filled
\* from the load of its agent and of the range the picker shows, with live points of no
\* other agent, and an empty chart that failed has the Retry of that load.
THEOREM SettledPageShowsSelection == Spec => []SettledShowsSelection
<1>1. PageInv => SettledShowsSelection
  BY DEF PageInv, LoadFollows, ChartsFollow, ChartFollows, DetailVisible,
         SettledShowsSelection
<1> QED
  BY <1>1, PageInvHolds, PTL

\* The panels that poll, the active view and the live tiles are those of the route.
THEOREM PageFollowsRoute == Spec => []ViewsFollowRoute
<1>1. PageInv => ViewsFollowRoute
  BY DEF PageInv, NavFollows, TilesFollow, ViewsFollowRoute
<1> QED
  BY <1>1, PageInvHolds, PTL

\* The detail's history implements LatestLoad: every step starts a load, gives one up,
\* shows data of the one in force, or leaves what is asked and what is shown alone.
THEOREM PageImplementsLatestLoad == Spec => ShowsLatestLoad
<1> DEFINE asked == key
           shown == [p \in Panels |-> IF chart[p] = NoChart THEN NoKey ELSE chart[p].key]
<1>1. Init => Loads!LoadInit
  BY DEF Init, Detail!GroupInit, Loads!LoadInit
<1>2. ASSUME PageInv, [Next]_vars
      PROVE  [Loads!LoadNext]_(Loads!loadVars)
  <2>1. CASE key' \in Keys \cup {NoKey} /\ ChartsKeep
    <3>1. shown' = shown
      BY <2>1 DEF ChartsKeep
    <3> QED
      BY <2>1, <3>1 DEF Loads!LoadNext, Loads!Ask, Loads!Cancel, Loads!loadVars
  <2>2. ASSUME NEW p \in Panels, Painted(p)
        PROVE  Loads!Show(p)
    <3>1. PICK ok \in BOOLEAN :
            chart' = [chart EXCEPT ![p] = [key |-> key, ok |-> ok, live |-> {}]]
      BY <2>2 DEF Painted
    <3>2. [key |-> key, ok |-> ok, live |-> {}] \in Charts /\ key # NoKey
      BY <2>2 DEF Painted, Charts
    <3>3. chart \in [Panels -> Charts \cup {NoChart}]
      BY <1>2 DEF PageInv, AgentTypeOK
    <3>4. shown' = [shown EXCEPT ![p] = key]
      BY <3>1, <3>2, <3>3
    <3> QED
      BY <2>2, <3>2, <3>4 DEF Painted, Loads!Show
  <2> QED
    BY <1>2, <2>1, <2>2, PageStep DEF Loads!LoadNext
<1> QED
  BY <1>1, <1>2, PageInvHolds, PTL DEF Spec, ShowsLatestLoad, Loads!LoadSpec
=============================================================================
