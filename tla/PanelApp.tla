------------------------------ MODULE PanelApp --------------------------------
(***************************************************************************)
(* The React panel (frontend-admin): the list of agents that its provider  *)
(* keeps and polls, the Agent Hub that shows it, and the dialogs that      *)
(* rename and revoke an agent.  No request is ever cancelled: answers are  *)
(* applied in the order in which they arrive, to whatever is open then.    *)
(***************************************************************************)
EXTENDS Naturals, FiniteSets

CONSTANTS Fleet,     \* agents
          Titles,    \* nicknames
          NoTitle,   \* of an agent that is not registered, or not listed
          NotRead,   \* of a list the server has not read yet
          NoDialog, NoMenu,
          MaxCalls   \* bound: requests under way at once

ASSUME PanelAppAssumption ==
  /\ Fleet # {} /\ Titles # {} /\ NoTitle \notin Titles
  /\ MaxCalls \in Nat \ {0}

VARIABLES registered,   \* nicknames the server keeps
          listed,       \* agents, of the provider
          calls,        \* requests under way
          at,           \* the route
          menu,         \* the agent whose action menu is open in the hub
          dialog        \* renameTarget or revokeTarget: the dialog covers the page

panelAppVars == <<registered, listed, calls, at, menu, dialog>>

Lists    == [Fleet -> Titles \cup {NoTitle}]
Unlisted == [a \in Fleet |-> NoTitle]

\* A request remembers what was mounted where it was made: the panel with its
\* dialogs, only the provider around it, or neither any more.
ListLoads  == [call : {"load"}, read : Lists \cup {NotRead}]
Writes == [call : {"rename", "revoke", "add"}, of : Fleet, title : Titles \cup {NoTitle},
           left : BOOLEAN, done : BOOLEAN, from : {"panel", "provider", "gone"}]
Load   == [call |-> "load", read |-> NotRead]

\* The routes: the hub and the pages of the agents, dashboards and alerts render
\* one AdminPanel; the others unmount it, and the login the provider too.
PanelRoutes == {"hub", "lists"} \cup Fleet
Routes == PanelRoutes \cup {"away", "login"}

\* An agent's page is shown only while the list has the agent, else the hub is.
HubShown(r, list) == r = "hub" \/ (r \in Fleet /\ list[r] = NoTitle)
DetailOf(a)       == at = a /\ listed[a] # NoTitle

\* What can be clicked while no dialog covers it: the cards of the hub or its rows,
\* which of them is left open, and the sidebar, which every route but the forms has.
Known        == {a \in Fleet : listed[a] # NoTitle}
HubEntries   == IF HubShown(at, listed) THEN Known ELSE {}
SidebarLinks == IF at = "login" THEN {} ELSE Known

\* A menu belongs to a card or a row: it goes when the hub or the agent does.
MenuStays(r, list) ==
  menu' = IF menu \in Fleet /\ HubShown(r, list) /\ list[menu] # NoTitle THEN menu ELSE NoMenu

PanelAppInit ==
  /\ registered \in Lists
  /\ listed = Unlisted
  /\ calls = {Load}
  /\ at = "hub"
  /\ menu = NoMenu
  /\ dialog = NoDialog

Room == Cardinality(calls) < MaxCalls

\* The interval of the provider.
PollAgents ==
  /\ at # "login" /\ Room
  /\ calls' = calls \cup {Load}
  /\ UNCHANGED <<registered, listed, at, menu, dialog>>

ReadList(c) ==
  /\ c.call = "load" /\ c.read = NotRead
  /\ calls' = (calls \ {c}) \cup {[c EXCEPT !.read = registered]}
  /\ UNCHANGED <<registered, listed, at, menu, dialog>>

\* Mutant of AgentsLoaded: agents that are listed already are kept as they are.
AgentsLoadedMerge(c) ==
  /\ c.call = "load" /\ c.read # NotRead
  /\ calls' = calls \ {c}
  /\ listed' = [a \in Fleet |-> IF listed[a] # NoTitle THEN listed[a] ELSE c.read[a]]
  /\ MenuStays(at, listed')
  /\ UNCHANGED <<registered, at, dialog>>

\* loadAgents: the answer replaces the list, whatever happened since it was read.
AgentsLoaded(c) ==
  /\ c.call = "load" /\ c.read # NotRead
  /\ calls' = calls \ {c}
  /\ listed' = c.read
  /\ MenuStays(at, listed')
  /\ UNCHANGED <<registered, at, dialog>>

LoadFails(c) ==
  /\ c.call = "load"
  /\ calls' = calls \ {c}
  /\ UNCHANGED <<registered, listed, at, menu, dialog>>

\* What leaving the panel, or the provider, does to the requests under way.
Orphaned(cs, of) ==
  {IF c.call = "load" \/ c.from \notin of THEN c
   ELSE [c EXCEPT !.from = IF of = {"panel"} THEN "provider" ELSE "gone"] : c \in cs}

Leave ==
  /\ dialog' = NoDialog
  /\ calls' = Orphaned(calls, {"panel"})

\* A route is entered by a link, by navigate, or by the browser's own buttons,
\* which work while a dialog is open.
Enter(r) ==
  /\ at \notin {r, "login"} /\ r # "login"
  /\ at' = r
  /\ MenuStays(r, listed)
  /\ IF at \in PanelRoutes /\ r \notin PanelRoutes THEN Leave ELSE UNCHANGED <<dialog, calls>>
  /\ UNCHANGED <<registered, listed>>

\* A card, a row or the sidebar.
OpenFleetAgent(a) ==
  /\ dialog = NoDialog
  /\ a \in HubEntries \cup SidebarLinks
  /\ Enter(a)

\* A request that is refused for want of a session: the provider is unmounted, and
\* its successor starts with nothing.
LogOut(c) ==
  /\ at # "login"
  /\ c.call # "rename"
  /\ at' = "login" /\ dialog' = NoDialog /\ listed' = Unlisted /\ menu' = NoMenu
  /\ calls' = {d \in Orphaned(calls \ {c}, {"panel", "provider"}) : d.call # "load"}
  /\ UNCHANGED registered

LogIn ==
  /\ at = "login" /\ Room
  /\ at' = "hub"
  /\ calls' = calls \cup {Load}
  /\ UNCHANGED <<registered, listed, menu, dialog>>

\* Cards or rows: the other kind is rendered instead, with its menus closed.
SwitchView ==
  /\ HubShown(at, listed) /\ dialog = NoDialog
  /\ menu' = NoMenu
  /\ UNCHANGED <<registered, listed, calls, at, dialog>>

ToggleMenu(a) ==
  /\ dialog = NoDialog /\ a \in HubEntries
  /\ menu' = IF menu = a THEN NoMenu ELSE a
  /\ UNCHANGED <<registered, listed, calls, at, dialog>>

\* A frame with readings of an agent: the key of its row has their time, so that the
\* row is rendered anew, without its menu; a card keeps it.
Frame(a) ==
  /\ menu = a
  /\ menu' = NoMenu
  /\ UNCHANGED <<registered, listed, calls, at, dialog>>

\* The items of an open menu, and the button of an agent's page, which only revokes.
DialogsOffered ==
  {[kind |-> k, of |-> a] : k \in {"rename", "revoke"}, a \in {menu} \cap Fleet}
    \cup {[kind |-> "revoke", of |-> a] : a \in {b \in Fleet : DetailOf(b)}}

OpenDialog(d) ==
  /\ dialog = NoDialog
  /\ dialog' = d
  /\ menu' = NoMenu
  /\ UNCHANGED <<registered, listed, calls, at>>

CloseDialog ==
  /\ dialog # NoDialog
  /\ dialog' = NoDialog
  /\ UNCHANGED <<registered, listed, calls, at, menu>>

Send(kind, a, t) ==
  /\ Room
  /\ calls' = calls \cup {[call |-> kind, of |-> a, title |-> t, left |-> at = a,
                            done |-> FALSE, from |-> "panel"]}

\* handleRename: Enter sends the name again while an earlier one is under way.
Rename(t) ==
  /\ dialog # NoDialog /\ dialog.kind = "rename"
  /\ Send("rename", dialog.of, t)
  /\ UNCHANGED <<registered, listed, at, menu, dialog>>

\* handleRevoke: the button is disabled while an earlier one is under way.
Revoke ==
  /\ dialog # NoDialog /\ dialog.kind = "revoke"
  /\ ~\E c \in calls : c.call = "revoke" /\ c.from = "panel"
  /\ Send("revoke", dialog.of, NoTitle)
  /\ UNCHANGED <<registered, listed, at, menu, dialog>>

\* handleProvision
Provision(a, t) ==
  /\ at # "login" /\ dialog = NoDialog /\ registered[a] = NoTitle
  /\ ~\E c \in calls : c.call = "add" /\ c.from # "gone"
  /\ Send("add", a, t)
  /\ UNCHANGED <<registered, listed, at, menu, dialog>>

\* The server writes; an agent that is gone is neither renamed nor revoked.
Carry(c) ==
  /\ c.call # "load" /\ ~c.done
  /\ (registered[c.of] = NoTitle) = (c.call = "add")
  /\ registered' = [registered EXCEPT ![c.of] = c.title]
  /\ calls' = (calls \ {c}) \cup {[c EXCEPT !.done = TRUE]}
  /\ UNCHANGED <<listed, at, menu, dialog>>

\* The answer of a rename closes whichever rename dialog is open by then.
RenameAnswered(c) ==
  /\ c.call = "rename" /\ c.done
  /\ calls' = calls \ {c}
  /\ listed' = IF c.from # "gone" /\ listed[c.of] # NoTitle
               THEN [listed EXCEPT ![c.of] = c.title] ELSE listed
  /\ dialog' = IF c.from = "panel" /\ dialog # NoDialog /\ dialog.kind = "rename"
               THEN NoDialog ELSE dialog
  /\ UNCHANGED <<registered, at, menu>>

\* The answer of a revocation goes to the hub if the agent was open when it was
\* asked for, from wherever the user is by then.
RevokeAnswered(c) ==
  /\ c.call = "revoke" /\ c.done
  /\ listed' = IF c.from # "gone" THEN [listed EXCEPT ![c.of] = NoTitle] ELSE listed
  /\ at' = IF c.left /\ c.from # "gone" THEN "hub" ELSE at
  /\ dialog' = IF c.from = "panel" /\ dialog # NoDialog /\ dialog.kind = "revoke"
               THEN NoDialog ELSE dialog
  /\ calls' = calls \ {c}
  /\ MenuStays(at', listed')
  /\ UNCHANGED registered

\* The answer of a provision loads the list.
AddAnswered(c) ==
  /\ c.call = "add" /\ c.done
  /\ calls' = (calls \ {c}) \cup (IF c.from = "gone" THEN {} ELSE {Load})
  /\ UNCHANGED <<registered, listed, at, menu, dialog>>

\* A write is refused, or its answer is lost: the dialog stays as it is.
WriteFails(c) ==
  /\ c.call # "load"
  /\ calls' = calls \ {c}
  /\ UNCHANGED <<registered, listed, at, menu, dialog>>

\* Another administrator, or another tab.
OtherWrites(a, t) ==
  /\ registered[a] # t
  /\ registered' = [registered EXCEPT ![a] = t]
  /\ UNCHANGED <<listed, calls, at, menu, dialog>>

PanelAppNext ==
  \/ PollAgents \/ LogIn \/ SwitchView \/ CloseDialog \/ Revoke
  \/ \E c \in calls : \/ ReadList(c) \/ AgentsLoaded(c) \/ LoadFails(c) \/ LogOut(c)
                      \/ Carry(c) \/ RenameAnswered(c) \/ RevokeAnswered(c)
                      \/ AddAnswered(c) \/ WriteFails(c)
  \/ \E r \in Routes : Enter(r)
  \/ \E a \in Fleet : OpenFleetAgent(a) \/ ToggleMenu(a) \/ Frame(a)
  \/ \E d \in DialogsOffered : OpenDialog(d)
  \/ \E t \in Titles : Rename(t)
  \/ \E a \in Fleet, t \in Titles : Provision(a, t)
  \/ \E a \in Fleet, t \in Titles \cup {NoTitle} : OtherWrites(a, t)

\* Every request ends; the interval goes on, and the network does not fail every
\* answer of it.  Strong, because MaxCalls may keep a poll from being made.
PanelAppFairness ==
  /\ SF_panelAppVars(PollAgents)
  /\ SF_panelAppVars(\E c \in calls : ReadList(c))
  /\ SF_panelAppVars(\E c \in calls : AgentsLoaded(c))
  /\ WF_panelAppVars(\E c \in calls : RenameAnswered(c) \/ RevokeAnswered(c)
                                        \/ AddAnswered(c) \/ WriteFails(c))

PanelAppSpec == PanelAppInit /\ [][PanelAppNext]_panelAppVars /\ PanelAppFairness

-----------------------------------------------------------------------------
(* Type invariant and properties *)

PanelAppTypeOK ==
  /\ registered \in Lists /\ listed \in Lists
  /\ calls \subseteq ListLoads \cup Writes
  /\ at \in Routes
  /\ menu \in Fleet \cup {NoMenu}
  /\ dialog \in {NoDialog} \cup [kind : {"rename", "revoke"}, of : Fleet]

\* Once nobody changes an agent any more, a panel that stays open ends up with the
\* server's list: optimistic renames that were answered out of order, lists read
\* before a write and failed requests are all undone by the polls.
AgentsHeal ==
  (<>[][registered' = registered]_panelAppVars /\ <>[](at # "login"))
    => <>[](listed = registered)
=============================================================================
