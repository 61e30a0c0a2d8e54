----------------------------- MODULE PanelPages -------------------------------
(***************************************************************************)
(* The parts of the panel of the scripts that work on state of their own.  *)
(* The pages the server renders one at a time, each with the script in     *)
(* web/static/admin/js that it names in its #page-config: the incidents,   *)
(* the alert rules' dialog, the form of a status page and the agent        *)
(* management.  And of the Network view, around its list: the choice of    *)
(* agents in the editor's dialog, the graphs, and how their charts and     *)
(* time axes are drawn.  One page is open, with one of its parts at work;  *)
(* they share no state.                                                    *)
(***************************************************************************)
EXTENDS IncidentHistory, DashboardForm, AgentRows, AlertDialog,
        ProberPicker, NetworkGraph, MultiChart

VARIABLES script,  \* what the page that is open runs, if it is one with a script of its own
          part     \* the part of the Network view that is at work, if any

pageVars == <<vars, orderVars, rowVars, dialogVars, script>>

\* The page that is open starts its script in any of its states; the others do
\* not run, and are kept in one state.
PagesInit ==
  /\ script \in {"none", "history", "order", "rows", "dialog"}
  /\ script # "history" =>
       nodeMode = TRUE /\ pages = 0 /\ filter = CHOOSE f \in Filters : TRUE
  /\ Init
  /\ script # "order" => checked = {} /\ dragged = FALSE
  /\ OrderInit
  /\ script # "rows" => stored = [m \in Machines |-> CHOOSE n \in Names : TRUE]
  /\ RowsInit
  /\ script # "dialog" => rules = [r \in Rules |-> CHOOSE s \in RuleStates : TRUE]
  /\ DialogInit
  /\ script # "dialog" => fields.target = CHOOSE t \in Targets : TRUE

PagesNext ==
  \/ script = "history" /\ Next /\ UNCHANGED <<orderVars, rowVars, dialogVars, script>>
  \/ script = "order" /\ OrderNext /\ UNCHANGED <<vars, rowVars, dialogVars, script>>
  \/ script = "rows" /\ RowsNext /\ UNCHANGED <<vars, orderVars, dialogVars, script>>
  \/ script = "dialog" /\ DialogNext /\ UNCHANGED <<vars, orderVars, rowVars, script>>

-----------------------------------------------------------------------------
(* The parts of the Network view *)

panelVars == <<pickerVars, graphVars, chartVars, axisVars, part>>

\* The part that is looked at starts in any of its states; the others do not work,
\* and are kept in one state.
PanelsInit ==
  /\ part \in {"none", "picker", "graph", "chart", "axis"}
  /\ part # "picker" => capable = [p \in Protocols |-> {}] /\ mountedOn = NoProber
  /\ PickerInit
  /\ part # "graph" => /\ matched = {}
                       /\ graphFilter = CHOOSE f \in GraphFilters : TRUE
                       /\ range = CHOOSE r \in Ranges : TRUE
  /\ GraphInit
  /\ part # "chart" => hours = CHOOSE h \in Hours : TRUE
  /\ ChartInit
  /\ IF part = "axis" THEN AxisInit
     ELSE /\ plot = CHOOSE p \in Plots : TRUE
          /\ labels = <<>> /\ tick = 0 /\ edge = Nothing /\ drawn = {}

PanelsNext ==
  \/ /\ part = "picker" /\ PickerNext
     /\ UNCHANGED <<graphVars, chartVars, axisVars, part>>
  \/ /\ part = "graph" /\ GraphNext
     /\ UNCHANGED <<pickerVars, chartVars, axisVars, part>>
  \/ /\ part = "chart" /\ ChartNext
     /\ UNCHANGED <<pickerVars, graphVars, axisVars, part>>
  \/ /\ part = "axis" /\ AxisNext
     /\ UNCHANGED <<pickerVars, graphVars, chartVars, part>>

-----------------------------------------------------------------------------
(* The pages and the parts *)

panelPageVars == <<pageVars, panelVars>>

PanelPagesInit ==
  /\ PagesInit
  /\ IF script = "none" THEN part \in {"picker", "graph", "chart", "axis"} ELSE part = "none"
  /\ PanelsInit

PanelPagesNext ==
  \/ PagesNext /\ UNCHANGED panelVars
  \/ PanelsNext /\ UNCHANGED pageVars

\* The fairness is that of the incidents and of the graphs, whose steps a page or a
\* part of another kind never enables.
PanelPagesSpec ==
  /\ PanelPagesInit /\ [][PanelPagesNext]_panelPageVars
  /\ Fairness /\ GraphFairness

-----------------------------------------------------------------------------
(* Properties of the pages and the parts, held against each *)

\* What a page shows is what is saved: the form of a status page saves the servers
\* and the order it shows (SavesWhatIsShown), a rule that is saved unchanged stays
\* what it was (SaveUnchangedKeepsRule), and the rows of the agents agree with the
\* server (RowsAgree), each with the exceptions named there.
PagesShowWhatIsSaved == SavesWhatIsShown /\ SaveUnchangedKeepsRule /\ RowsAgree

\* What is drawn: the line breaks where and only where a band is drawn, no band covers a
\* sample, and the dot says that data still come where and only where no band follows the
\* latest sample; but a single sample has its dot even before a band.  The labels of the
\* time axis do not overlap.
ChartsAreLegible == BandsMarkBreaks /\ (part = "axis" => LabelsDoNotOverlap)

\* The graphs of a view that stays on screen end up showing its selection.
GraphsEndUpRight == part = "graph" => GraphHeals

\* What a form shows is what it saves, with the exceptions named in the modules: the
\* servers and the order of a status page, a rule that is saved unchanged, the rows of
\* the agents, and the probers of a monitor.
PanelShowsWhatIsSaved == PagesShowWhatIsSaved /\ (part = "picker" => ProbersAreKept)

\* However its loads failed or overtook each other, a view that stays on screen gets
\* right again: the incidents offer Retry after a failed poll, and the graphs end up
\* showing the selection.
PanelHeals == RetryOfferedAgain /\ GraphsEndUpRight
=============================================================================
