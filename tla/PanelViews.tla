------------------------------ MODULE PanelViews ------------------------------
(***************************************************************************)
(* The views of the panel that load and save data of their own: of the     *)
(* React panel, below its shell (PanelApp), the charts and the editors of  *)
(* an agent's page, the recent events, the list of the alert rules and the *)
(* form of one, and the status pages; of the panel of the scripts, the     *)
(* list of the network monitors, which pages and drawers share, and the    *)
(* dialog in which a monitor is edited.  The views share no state; the     *)
(* variable view names the one that is open.                               *)
(***************************************************************************)
EXTENDS AgentDetail, EventHistory, RuleList, RuleForm, StatusPageForm,
        NetworkList, NetworkEditor

VARIABLE view

openViewVars == <<detailChartVars, editorVars, eventListVars, ruleListVars, ruleFormVars,
                 statusPageVars, monitorListVars, editorDialogVars, view>>

OpenViews == {"chart", "editors", "events", "rules", "rule form", "status pages",
              "monitors", "monitor editor"}

\* The view that is open starts in any of its states; the others do not work, and are
\* kept in one state.
ViewsInit ==
  /\ view \in OpenViews
  /\ view # "chart" => box = CHOOSE b \in Boxes : TRUE
  /\ view # "chart" => span = CHOOSE s \in Spans : TRUE
  /\ DetailChartInit
  /\ view # "editors" => opened = CHOOSE a \in Hosted : TRUE
  /\ view # "editors" =>
       kept = [a \in Hosted |-> CHOOSE k \in [note : Notes, nickname : Called] : TRUE]
  /\ EditorsInit
  /\ EventsInit
  /\ view # "rules" => ruleRows = NoRows
  /\ RuleListInit
  /\ view # "rule form" => written = [r \in Formed |-> Missing]
  /\ RuleFormInit
  /\ view # "status pages" => storedPages = [p \in StatusPages |-> Unset]
  /\ StatusPagesInit
  /\ view # "monitors" => server = Permanent /\ listFilter = CHOOSE f \in ListFilters : TRUE
  /\ ListInit
  /\ view # "monitor editor" => groups = [t \in Targets |-> NoGroup]
  /\ EditorInit

ViewsNext ==
  \/ /\ view = "chart" /\ DetailChartNext
     /\ UNCHANGED <<editorVars, eventListVars, ruleListVars, ruleFormVars,
                    statusPageVars, monitorListVars, editorDialogVars, view>>
  \/ /\ view = "editors" /\ EditorsNext
     /\ UNCHANGED <<detailChartVars, eventListVars, ruleListVars, ruleFormVars,
                    statusPageVars, monitorListVars, editorDialogVars, view>>
  \/ /\ view = "events" /\ EventsNext
     /\ UNCHANGED <<detailChartVars, editorVars, ruleListVars, ruleFormVars,
                    statusPageVars, monitorListVars, editorDialogVars, view>>
  \/ /\ view = "rules" /\ RuleListNext
     /\ UNCHANGED <<detailChartVars, editorVars, eventListVars, ruleFormVars,
                    statusPageVars, monitorListVars, editorDialogVars, view>>
  \/ /\ view = "rule form" /\ RuleFormNext
     /\ UNCHANGED <<detailChartVars, editorVars, eventListVars, ruleListVars,
                    statusPageVars, monitorListVars, editorDialogVars, view>>
  \/ /\ view = "status pages" /\ StatusPagesNext
     /\ UNCHANGED <<detailChartVars, editorVars, eventListVars, ruleListVars,
                    ruleFormVars, monitorListVars, editorDialogVars, view>>
  \/ /\ view = "monitors" /\ ListNext
     /\ UNCHANGED <<detailChartVars, editorVars, eventListVars, ruleListVars,
                    ruleFormVars, statusPageVars, editorDialogVars, view>>
  \/ /\ view = "monitor editor" /\ EditorNext
     /\ UNCHANGED <<detailChartVars, editorVars, eventListVars, ruleListVars,
                    ruleFormVars, statusPageVars, monitorListVars, view>>

ViewsSpec == ViewsInit /\ [][ViewsNext]_openViewVars

-----------------------------------------------------------------------------
(* Properties of the views, held against each *)

\* What a view shows once its requests have ended: its own selection, if the answer to
\* its newest request came last, and else a selection of the same hurry.  The chart shows
\* its agent and range, or those of an answer that overtook the latest, with live points
\* of its agent only; the events are of their page, and of their search and status or
\* those of an answer that overtook; the list of rules is the rules there are, but where
\* its module excuses it; the monitors are of their filters and page, the first one at
\* page 0, and never of a page beyond the end.
ViewsShowTheirSelection ==
  /\ SettledChartShowsSelection /\ SettledEventsShowSelection /\ ListedRulesAgree
  /\ SettledListShowsPage

\* What a view saves goes where it belongs, with the exceptions named in the modules: a
\* note to its agent, a rule to its id, a status page's agents and access rules to it.
ViewsSaveTheirOwn ==
  NotesReachTheirAgent /\ RulesKeepTheirOwn /\ StatusPagesKeepTheirOwn
=============================================================================
