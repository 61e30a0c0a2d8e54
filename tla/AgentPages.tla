------------------------------ MODULE AgentPages ------------------------------
(***************************************************************************)
(* The agents in the two panels: the detail of one in the page of the      *)
(* scripts (AgentPage), and the React panel's shell, which keeps the list  *)
(* of them all and routes to one (PanelApp).  A browser has one of the two *)
(* open; they share no state.                                              *)
(***************************************************************************)
EXTENDS AgentPage, PanelApp

VARIABLE panel   \* "scripts" or "React"

agentPagesVars == <<vars, panelAppVars, panel>>

\* The panel that is open starts in any of its states.  Of the other, no detail is
\* open, and nobody is logged in.
AgentPagesInit ==
  /\ panel \in {"scripts", "React"}
  /\ Init
  /\ panel # "scripts" => reported = {} /\ ~hidden
  /\ IF panel = "React" THEN PanelAppInit
     ELSE /\ registered = Unlisted /\ listed = Unlisted /\ calls = {} /\ at = "login"
          /\ menu = NoMenu /\ dialog = NoDialog

AgentPagesNext ==
  \/ panel = "scripts" /\ Next /\ UNCHANGED <<panelAppVars, panel>>
  \/ panel = "React" /\ PanelAppNext /\ UNCHANGED <<vars, panel>>

\* Each panel has the fairness of its module; the one that is not open enables none
\* of the steps it is about.
AgentPagesSpec ==
  AgentPagesInit /\ [][AgentPagesNext]_agentPagesVars /\ Fairness /\ PanelAppFairness

-----------------------------------------------------------------------------
(* A property of both panels, held against each *)

\* Whatever failed or overtook each other before, the open panel gets right: the detail
\* ends up with charts of its selection once the user starts no load any more, and the
\* React panel with the server's list of agents once nobody changes one.
AgentPanelsHeal == HistorySettles /\ AgentsHeal
=============================================================================
