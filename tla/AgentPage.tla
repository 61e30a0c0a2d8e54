----------------------------- MODULE AgentPage ------------------------------
(***************************************************************************)
(* The Agent Hub page of the panel (web/src/js/pages/admin_agents): one    *)
(* document that switches between the overview, the Network view and the   *)
(* detail of an agent, loads the history charts of the detail and applies  *)
(* the telemetry that the feed pushes at any moment.  The user navigates,  *)
(* changes the time range and hides or shows the browser tab while answers *)
(* are on their way.  AgentHub has the overview and the editing of agents. *)
(***************************************************************************)
EXTENDS Naturals, FiniteSets

CONSTANTS Agents,    \* agents the installation may have
          Hours,     \* quick time ranges
          Ranges,    \* custom time ranges
          Live,      \* "no custom range": the range that ends now
          Metrics,   \* charts with a fixed canvas: CPU, RAM and network
          NoAgent, NoKey, NoChart, NoPicker, MaxStale

ASSUME AgentPageAssumption ==
  /\ Live \notin Ranges
  /\ "disk" \notin Metrics
  /\ NoAgent \notin Agents
  /\ Agents \cap {"none", "overview", "network"} = {}

VARIABLES
  reported,     \* agents of which liveMetricsStore or latest_snap has a snapshot
  readable,     \* those of which one was available
  route,        \* state.activeRoute
  current,      \* state.currentActiveAgentId
  detail,       \* state.detailAgentId
  hidden,       \* document.hidden
  picker,       \* what the time picker has selected
  customRange,  \* state.inpageCustomRange
  chart,        \* the history charts of the detail view
  tiles,        \* agent whose readings the live tiles show
  panels,       \* the Network and incident panels of the detail view
  netPage,      \* the Network view is active
  key, open, stale, failed, blocked  \* the group of the detail's history

detailVars == <<key, open, stale, failed, blocked>>
navVars    == <<route, current, detail, panels, netPage>>
vars == <<reported, readable, hidden, picker, customRange, chart, tiles,
          navVars, detailVars>>

Panels     == Metrics \cup {"disk"}
Selections == [hours : Hours, custom : Ranges \cup {Live}]
Keys       == [agent : Agents, sel : Selections]

Detail == INSTANCE RequestGroup WITH Parts <- Panels

\* A chart: the load its history came from, whether all of it arrived, and the
\* agents whose live points were added to it since.
Charts == [key : Keys, ok : BOOLEAN, live : SUBSET Agents]

\* What stands for an absent load, chart or selection is none itself.
ASSUME AbsenceAssumption ==
  NoKey \notin Keys /\ NoChart \notin Charts /\ NoPicker \notin Selections

Init ==
  /\ reported \in SUBSET Agents /\ readable = reported
  /\ route = "none" /\ current = NoAgent /\ detail = NoAgent
  /\ hidden \in BOOLEAN
  /\ picker = NoPicker /\ customRange = Live
  /\ chart = [p \in Panels |-> NoChart]
  /\ tiles = NoAgent
  /\ panels = [node |-> NoAgent, active |-> TRUE]
  /\ netPage = FALSE
  /\ Detail!GroupInit

-----------------------------------------------------------------------------
(* Loading *)

\* The live tiles are drawn from the last snapshot, when there is one.
RenderLiveState(a) == tiles' = IF a \in reported THEN a ELSE tiles

\* loadDetailMetrics: nothing is asked for on the Network view or a hidden page.
LoadDetail(a, sel, to, asleep) ==
  IF to = "network" \/ asleep
  THEN UNCHANGED detailVars
  ELSE Detail!Begin([agent |-> a, sel |-> sel], Panels)

\* Mutant of PaintMetric: a failed request is shown as an empty chart only.
PaintMetricSilently(p, how) ==
  /\ Detail!Answer(p, "ok")
  /\ chart' = [chart EXCEPT ![p] = [key |-> key, ok |-> how = "ok", live |-> {}]]
  /\ UNCHANGED <<reported, readable, hidden, picker, customRange, tiles,
                 navVars>>

\* One of the fixed charts has all its answers: its series replace what it
\* showed, live points included; a request that failed counts as no data.
PaintMetric(p, how) ==
  /\ Detail!Answer(p, how)
  /\ chart' = [chart EXCEPT ![p] = [key |-> key, ok |-> how = "ok", live |-> {}]]
  /\ UNCHANGED <<reported, readable, hidden, picker, customRange, tiles,
                 navVars>>

\* The disk charts: made again when the set of partitions differs, updated in
\* place when it does not; either way they show this answer alone.
PaintDisks(how) ==
  /\ Detail!Answer("disk", how)
  /\ chart' = [chart EXCEPT !["disk"] =
                 [key |-> key, ok |-> how = "ok", live |-> {}]]
  /\ UNCHANGED <<reported, readable, hidden, picker, customRange, tiles,
                 navVars>>

\* Mutant of StaleAnswer: the continuation does not look at its signal.
StaleAnswerPaints(p, k) ==
  /\ Detail!Expire(p, k)
  /\ chart' = [chart EXCEPT ![p] = [key |-> k, ok |-> TRUE, live |-> {}]]
  /\ UNCHANGED <<reported, readable, hidden, picker, customRange, tiles, navVars>>

\* The continuation of an aborted load returns before it touches a chart.
StaleAnswer(p, k) ==
  /\ Detail!Expire(p, k)
  /\ UNCHANGED <<reported, readable, hidden, picker, customRange, chart, tiles, navVars>>

-----------------------------------------------------------------------------
(* Navigation *)

\* An identifier the page does not know shows the overview.
RouteOf(target) ==
  IF target = "network-monitors" THEN "network"
  ELSE IF target \in Agents THEN target
  ELSE "overview"

\* Leaving a view cancels its requests and stops the panels of the detail.
LeaveView(r) ==
  IF r # route THEN [panels EXCEPT !.active = FALSE] ELSE panels

OpenNetwork ==
  /\ route' = "network"
  /\ netPage' = TRUE
  /\ panels' = LeaveView("network")
  /\ IF route # "network" THEN Detail!CancelGroup ELSE UNCHANGED detailVars
  /\ UNCHANGED <<current, detail, picker, tiles>>

\* Mutant of OpenOverview: the panels of the detail go on polling.
OpenOverviewOnly ==
  /\ route' = "overview"
  /\ netPage' = FALSE
  /\ current' = NoAgent
  /\ IF route # "overview" THEN Detail!CancelGroup ELSE UNCHANGED detailVars
  /\ UNCHANGED <<detail, picker, tiles, panels>>

OpenOverview ==
  /\ route' = "overview"
  /\ netPage' = FALSE
  /\ panels' = LeaveView("overview")
  /\ current' = NoAgent
  /\ IF route # "overview" THEN Detail!CancelGroup ELSE UNCHANGED detailVars
  /\ UNCHANGED <<detail, picker, tiles>>

\* The panels get their node only when the detail shows another agent than the
\* last time; the picker is made on the first visit and kept.
OpenAgent(a) ==
  /\ route' = a
  /\ netPage' = FALSE
  /\ current' = a
  /\ detail' = a
  /\ panels' = [node |-> IF detail # a THEN a ELSE panels.node, active |-> TRUE]
  /\ RenderLiveState(a)
  /\ \E h \in Hours :
       picker' = IF picker = NoPicker THEN [hours |-> h, custom |-> Live]
                                      ELSE picker
  /\ IF hidden
     THEN IF route # a THEN Detail!CancelGroup ELSE UNCHANGED detailVars
     ELSE LoadDetail(a, picker', a, hidden)

\* onNavigate, called by the router for the first URL and for every popstate.
Navigate(target) ==
  /\ LET r == RouteOf(target) IN
       \/ r = "network" /\ OpenNetwork
       \/ r = "overview" /\ OpenOverview
       \/ r \in Agents /\ OpenAgent(r)
  /\ UNCHANGED <<reported, readable, hidden, customRange, chart>>

-----------------------------------------------------------------------------
(* The time range *)

\* onApply: the page follows the picker and loads the selection.
Select(sel) ==
  /\ ~hidden
  /\ route \in Agents
  /\ picker # NoPicker
  /\ picker' = sel
  /\ customRange' = sel.custom
  /\ LoadDetail(current, sel, route, hidden)
  /\ RenderLiveState(current)
  /\ UNCHANGED <<reported, readable, hidden, chart, navVars>>

PickHours == \E h \in Hours : Select([hours |-> h, custom |-> Live])

PickCustom ==
  /\ picker # NoPicker
  /\ \E r \in Ranges : Select([picker EXCEPT !.custom = r])

ResetRange ==
  /\ picker # NoPicker
  /\ picker.custom # Live
  /\ Select([picker EXCEPT !.custom = Live])

\* Dragging across a chart: the page's range is set, then the picker's.
Zoom ==
  /\ \E p \in Panels : chart[p] # NoChart
  /\ PickCustom

\* The Retry button repeats the load it was drawn for.
Retry ==
  /\ ~hidden
  /\ route \in Agents
  /\ Detail!RetryOffered
  /\ key # NoKey
  /\ LoadDetail(key.agent, key.sel, route, hidden)
  /\ RenderLiveState(key.agent)
  /\ UNCHANGED <<reported, readable, hidden, picker, customRange, chart,
                 navVars>>

RetryAfter ==
  /\ Detail!Unblock
  /\ UNCHANGED <<reported, readable, hidden, picker, customRange, chart, tiles, navVars>>

-----------------------------------------------------------------------------
(* The tab, the metadata and the feed *)

Hide ==
  /\ ~hidden
  /\ hidden' = TRUE
  /\ Detail!CancelGroup
  /\ UNCHANGED <<reported, readable, picker, customRange, chart, tiles,
                 navVars>>

\* Mutant of Unhide: the load that hiding the tab cancelled is forgotten.
UnhideOnly ==
  /\ hidden
  /\ hidden' = FALSE
  /\ UNCHANGED <<reported, readable, picker, customRange, chart, tiles,
                 detailVars, navVars>>

\* What the view needs is loaded again when the tab comes back.
Unhide ==
  /\ hidden
  /\ hidden' = FALSE
  /\ IF /\ route \notin {"overview", "network"}
        /\ current # NoAgent
        /\ picker # NoPicker
     THEN LoadDetail(current, picker, route, FALSE) /\ RenderLiveState(current)
     ELSE UNCHANGED <<detailVars, tiles>>
  /\ UNCHANGED <<reported, readable, picker, customRange, chart, navVars>>

\* updateLivePoint leaves a chart of a custom range as it is.
LivePoint(c, a) ==
  IF c # NoChart /\ c.key.sel.custom = Live
  THEN [c EXCEPT !.live = @ \cup {a}] ELSE c

\* applyTelemetryUpdates for one agent of a frame: the snapshot is kept, and the
\* open detail follows it unless the agent is unavailable.  The disk charts take
\* a point only for the partitions they have.
Telemetry(a, available, ps) ==
  /\ reported' = reported \cup {a}
  /\ readable' = IF available THEN readable \cup {a} ELSE readable
  /\ IF available /\ current = a
     THEN /\ tiles' = a
          /\ chart' = IF customRange = Live
                      THEN [p \in Panels |-> IF p \in ps THEN LivePoint(chart[p], a)
                                                        ELSE chart[p]]
                      ELSE chart
     ELSE UNCHANGED <<tiles, chart>>
  /\ UNCHANGED <<hidden, picker, customRange, navVars,
                 detailVars>>

-----------------------------------------------------------------------------
Outcomes == {"ok", "error", "later"}

Next ==
  \/ \E t \in Agents \cup {"network-monitors", "agents"} : Navigate(t)
  \/ \E p \in Metrics, how \in Outcomes : PaintMetric(p, how)
  \/ \E how \in Outcomes : PaintDisks(how)
  \/ \E p \in Panels, k \in Keys : StaleAnswer(p, k)
  \/ PickHours \/ PickCustom \/ ResetRange \/ Zoom
  \/ Retry \/ RetryAfter
  \/ Hide \/ Unhide
  \/ \E a \in Agents, available \in BOOLEAN, ps \in {Panels, Metrics} :
       Telemetry(a, available, ps)

Spec == Init /\ [][Next]_vars

-----------------------------------------------------------------------------
(* Properties *)

\* Types of the page's state.
AgentTypeOK ==
  /\ reported \subseteq Agents
  /\ readable \subseteq reported
  /\ route \in Agents \cup {"none", "overview", "network"}
  /\ current \in Agents \cup {NoAgent} /\ detail \in Agents \cup {NoAgent}
  /\ hidden \in BOOLEAN /\ netPage \in BOOLEAN
  /\ picker \in Selections \cup {NoPicker}
  /\ customRange \in Ranges \cup {Live}
  /\ chart \in [Panels -> Charts \cup {NoChart}]
  /\ tiles \in Agents \cup {NoAgent}
  /\ panels \in [node : Agents \cup {NoAgent}, active : BOOLEAN]
  /\ Detail!GroupTypeOK

DetailVisible == route \in Agents /\ ~hidden

\* Whatever the order of navigations, range changes, tab switches and answers,
\* once a visible detail waits for nothing every chart shows the agent of the
\* route over the range the picker shows, with no other agent's live points.  A
\* chart that is empty because requests failed is never left without the status
\* that says so, whose Retry repeats exactly the load that failed.
SettledShowsSelection ==
  DetailVisible /\ open = {} =>
    \A p \in Panels :
      /\ chart[p] # NoChart
      /\ chart[p].key = [agent |-> route, sel |-> picker]
      /\ chart[p].live \subseteq {route}
      /\ ~chart[p].ok => failed /\ key = chart[p].key

\* The panels that poll are those of the view on screen, mounted on the agent of
\* the route, and the tiles show that agent once a reading of it has arrived.
ViewsFollowRoute ==
  route # "none" =>
    /\ netPage <=> route = "network"
    /\ panels.active <=> route \in Agents
    /\ route \in Agents =>
         /\ panels.node = route
         /\ current = route
         /\ route \in readable => tiles = route

Loads == INSTANCE LatestLoad
           WITH Slots  <- Panels,
                NoLoad <- NoKey,
                asked  <- key,
                shown  <- [p \in Panels |-> IF chart[p] = NoChart THEN NoKey
                                            ELSE chart[p].key]

\* The detail view implements LatestLoad: no chart ever shows a load other than
\* the latest that was not cancelled, whatever answers are still on their way.
ShowsLatestLoad == Loads!LoadSpec

Fairness ==
  /\ \A p \in Metrics : WF_vars(\E how \in Outcomes : PaintMetric(p, how))
  /\ WF_vars(\E how \in Outcomes : PaintDisks(how))
FairSpec == Spec /\ Fairness

\* When the user stops starting loads, a visible detail ends up showing the
\* selection in every chart and stays so: no load is stuck or lost on the way,
\* and nothing that is still in flight undoes it.
HistorySettles ==
  <>[][open' \subseteq open]_vars =>
    <>[](DetailVisible =>
           \A p \in Panels :
             chart[p] # NoChart /\ chart[p].key = [agent |-> route, sel |-> picker])
=============================================================================
