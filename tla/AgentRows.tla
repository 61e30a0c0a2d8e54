------------------------------ MODULE AgentRows -------------------------------
(***************************************************************************)
(* The rows of the agent management page                                   *)
(* (web/static/admin/js/agent_management.js): each can be opened for a     *)
(* rename, whose request is answered while the user goes on, and filtered  *)
(* by a search that looks at the name the row shows.                       *)
(***************************************************************************)
EXTENDS Naturals, FiniteSets

CONSTANTS Machines,   \* the agents listed
          Names,      \* valid nicknames
          TooBad,     \* an input that is empty or too long
          NoMachine,
          MaxSaves    \* bound: rename requests on their way

ASSUME AgentRowsAssumption == NoMachine \notin Machines /\ TooBad \notin Names

VARIABLES editingRow,    \* activeEditingMgmtAgentId
          editors,   \* rows whose edit form is shown
          typed,     \* what the input of each row holds
          named,     \* the nickname each row shows
          found,     \* the nickname its data-search has
          saving,    \* rename requests: the agent, the name, and how far it is
          stored,    \* the nickname the server has
          unsure    \* agents with two renames on their way at once, or an answer lost

rowVars == <<editingRow, editors, typed, named, found, saving, stored, unsure>>

RowsInit ==
  /\ editingRow = NoMachine /\ editors = {}
  /\ stored \in [Machines -> Names]
  /\ typed = stored /\ named = stored /\ found = stored
  /\ saving = {} /\ unsure = {}

StartRename(m) ==
  /\ editingRow' = m
  /\ editors' = (editors \ (IF editingRow = NoMachine THEN {} ELSE {editingRow} \ {m})) \cup {m}
  /\ UNCHANGED <<typed, named, found, saving, stored, unsure>>

\* The row closes; what was typed stays in its input.
CloseEditor(m) ==
  /\ editingRow' = IF editingRow = m THEN NoMachine ELSE editingRow
  /\ editors' = editors \ {m}

CancelRename(m) ==
  /\ m \in editors
  /\ CloseEditor(m)
  /\ UNCHANGED <<typed, named, found, saving, stored, unsure>>

TypeName(m, n) ==
  /\ m \in editors
  /\ typed' = [typed EXCEPT ![m] = n]
  /\ UNCHANGED <<editingRow, editors, named, found, saving, stored, unsure>>

\* The Save button waits for the answer, but the Enter key sends again.  Requests for
\* the same name that have come as far count as one.
SaveRename(m) ==
  /\ m \in editors
  /\ typed[m] # TooBad
  /\ Cardinality(saving) < MaxSaves
  /\ ~\E s \in saving : s.agent = m /\ s.name = typed[m] /\ s.at = "sent"
  /\ saving' = saving \cup {[agent |-> m, name |-> typed[m], at |-> "sent"]}
  /\ unsure' = IF \E s \in saving : s.agent = m THEN unsure \cup {m} ELSE unsure
  /\ UNCHANGED <<editingRow, editors, typed, named, found, stored>>

\* External: the server stores the name, or refuses it.
StoreName(s) ==
  /\ s \in saving /\ s.at = "sent"
  /\ \/ /\ stored' = [stored EXCEPT ![s.agent] = s.name]
        /\ saving' = (saving \ {s}) \cup {[s EXCEPT !.at = "stored"]}
     \/ /\ saving' = (saving \ {s}) \cup {[s EXCEPT !.at = "refused"]}
        /\ UNCHANGED stored
  /\ UNCHANGED <<editingRow, editors, typed, named, found, unsure>>

\* The answer names the row and closes its form, whoever has opened it since.
NameSaved(s) ==
  /\ s \in saving /\ s.at = "stored"
  /\ saving' = saving \ {s}
  /\ named' = [named EXCEPT ![s.agent] = s.name]
  /\ found' = [found EXCEPT ![s.agent] = s.name]
  /\ CloseEditor(s.agent)
  /\ UNCHANGED <<typed, stored, unsure>>

\* The network error of an answer that was lost after the server stored the name.
NameLost(s) ==
  /\ s \in saving /\ s.at = "stored"
  /\ saving' = saving \ {s}
  /\ unsure' = unsure \cup {s.agent}
  /\ UNCHANGED <<editingRow, editors, typed, named, found, stored>>

NameRefused(s) ==
  /\ s \in saving /\ s.at = "refused"
  /\ saving' = saving \ {s}
  /\ UNCHANGED <<editingRow, editors, typed, named, found, stored, unsure>>

RowsNext ==
  \/ \E m \in Machines :
       \/ StartRename(m) \/ CancelRename(m) \/ SaveRename(m)
       \/ \E n \in Names \cup {TooBad} : TypeName(m, n)
  \/ \E s \in saving : StoreName(s) \/ NameSaved(s) \/ NameLost(s) \/ NameRefused(s)

\* One row at most is open for a rename, however answers and clicks interleave,
\* and a row with no rename on its way shows, and is found by, the nickname the
\* server has, unless two renames of it were on their way at the same time or the
\* answer of one was lost.
RowsAgree ==
  /\ editors = IF editingRow = NoMachine THEN {} ELSE {editingRow}
  /\ \A m \in Machines \ unsure :
       (\A s \in saving : s.agent # m) => named[m] = stored[m] /\ found[m] = stored[m]
=============================================================================
