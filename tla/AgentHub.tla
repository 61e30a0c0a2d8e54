------------------------------ MODULE AgentHub ------------------------------
(***************************************************************************)
(* The overview of the Agent Hub and the editing of agents                 *)
(* (web/src/js/pages/admin_agents/hub and editing).  The page keeps a copy *)
(* of every agent's nickname and note; saves travel to the server while    *)
(* the user navigates, and a metadata refresh brings the server's          *)
(* nicknames back every few minutes.                                       *)
(***************************************************************************)
EXTENDS Naturals, FiniteSets

CONSTANTS Agents,     \* agents of the installation
          Cards,      \* those the page was rendered with
          Texts,      \* nicknames and notes
          LongTexts,  \* notes too long for the header
          NoAgent, NoText,
          MaxSaves    \* bound: saves the user makes

ASSUME AgentHubAssumption ==
  /\ Cards \subseteq Agents
  /\ LongTexts \subseteq Texts
  /\ NoAgent \notin Agents
  /\ NoText \notin Texts
  /\ Agents \cap {"overview", "network"} = {}
  /\ MaxSaves \in Nat

VARIABLES
  route, current, hidden,                 \* as in AgentPage
  known,                                  \* agents of state.agentsData
  copy,                                   \* their fields in state.agentsData
  server,                                 \* the fields the server keeps
  editor,                                 \* editor -> agent it was opened for
  saves,                                  \* PUT requests on their way
  made,                                   \* saves made so far
  sync,                                   \* the metadata request on its way
  raced,                                  \* copies that a race has left wrong
  sparkDue, sparkOpen, sparks, sparkLost  \* timers, requests and results of
                                          \* the overview's sparklines

sparkVars == <<sparkDue, sparkOpen, sparks, sparkLost>>
editVars  == <<copy, server, saves, made, raced>>
vars == <<route, current, hidden, known, editVars, editor, sync, sparkVars>>

Fields  == {"nickname", "note"}
Editors == {"name", "header", "expanded"}
FieldOf(e) == IF e = "name" THEN "nickname" ELSE "note"

Saves == [editor : Editors, agent : Agents, typedFor : Agents, text : Texts,
          stage : {"sent", "stored", "refused"}]

Init ==
  /\ route = "overview" /\ current = NoAgent /\ hidden \in BOOLEAN
  /\ known = Cards
  /\ \E t \in Texts :
       /\ server = [f \in Fields |-> [a \in Agents |-> t]]
       /\ copy = [f \in Fields |-> [a \in Agents |->
                    IF a \in Cards THEN t ELSE NoText]]
  /\ editor = [e \in Editors |-> NoAgent]
  /\ saves = {} /\ made = 0
  /\ sync = [stage |-> "none", names |-> server["nickname"]]
  /\ raced = {}
  /\ sparkDue = Cards /\ sparkOpen = {} /\ sparks = {} /\ sparkLost = {}

-----------------------------------------------------------------------------
(* Sparklines *)

\* loadSparklines: every card without points gets a timer; those of the group
\* it replaces are cleared, and their requests aborted.
LoadSparklines ==
  /\ sparkDue' = Cards \ sparks
  /\ sparkOpen' = {}
  /\ sparkLost' = {}
  /\ UNCHANGED sparks

CancelSparklines ==
  /\ sparkDue' = {}
  /\ sparkOpen' = {}
  /\ UNCHANGED <<sparks, sparkLost>>

\* The staggered timer of a card asks only on the visible overview.
SparkTimer(a) ==
  /\ a \in sparkDue
  /\ sparkDue' = sparkDue \ {a}
  /\ sparkOpen' = IF route = "overview" /\ ~hidden
                  THEN sparkOpen \cup {a} ELSE sparkOpen
  /\ UNCHANGED <<route, current, hidden, known, editVars, editor, sync, sparks,
                 sparkLost>>

\* An HTTP error counts as an answer without points; a network error does not.
SparkAnswer(a, arrived) ==
  /\ a \in sparkOpen
  /\ sparkOpen' = sparkOpen \ {a}
  /\ sparks' = IF arrived THEN sparks \cup {a} ELSE sparks
  /\ sparkLost' = IF arrived THEN sparkLost ELSE sparkLost \cup {a}
  /\ UNCHANGED <<route, current, hidden, known, editVars, editor, sync,
                 sparkDue>>

-----------------------------------------------------------------------------
(* Navigation *)

RouteOf(target) ==
  IF target = "network-monitors" THEN "network"
  ELSE IF target \in known THEN target
  ELSE "overview"

\* Mutant of ResetEdits: the section of the long note is left as it is.
ResetEditsInHeader ==
  [e \in Editors |-> IF e = "expanded" THEN editor[e] ELSE NoAgent]

\* resetInpageEditStates.  The expanded editor is left open when no agent is.
ResetEdits ==
  [e \in Editors |-> IF e = "expanded" /\ current = NoAgent THEN editor[e]
                                                            ELSE NoAgent]

\* The part of onNavigate this module follows; the Network view keeps the
\* current agent, the overview forgets it after the editors are closed.
Navigate(target) ==
  LET r == RouteOf(target) IN
    /\ route' = r
    /\ current' = CASE r = "network"  -> current
                    [] r = "overview" -> NoAgent
                    [] OTHER          -> r
    /\ editor' = IF r # route \/ (r \in Agents /\ ~hidden) THEN ResetEdits
                                                           ELSE editor
    /\ IF r = "overview" THEN LoadSparklines
       ELSE IF r # route THEN CancelSparklines
       ELSE UNCHANGED sparkVars
    /\ UNCHANGED <<hidden, known, editVars, sync>>

Hide ==
  /\ ~hidden
  /\ hidden' = TRUE
  /\ CancelSparklines
  /\ UNCHANGED <<route, current, known, editVars, editor, sync>>

\* Mutant of Unhide: the sparklines the hidden tab cancelled stay away.
UnhideOnly ==
  /\ hidden
  /\ hidden' = FALSE
  /\ editor' = IF route \in Agents THEN ResetEdits ELSE editor
  /\ UNCHANGED <<route, current, known, editVars, sync, sparkVars>>

\* The overview loads its sparklines again; a detail is loaded again, which
\* closes its editors.
Unhide ==
  /\ hidden
  /\ hidden' = FALSE
  /\ IF route = "overview" THEN LoadSparklines ELSE UNCHANGED sparkVars
  /\ editor' = IF route \in Agents THEN ResetEdits ELSE editor
  /\ UNCHANGED <<route, current, known, editVars, sync>>

-----------------------------------------------------------------------------
(* Editing *)

\* A short note is edited in the header, a long one in its own section.
Offered(e) ==
  CASE e = "name"     -> TRUE
    [] e = "header"   -> copy["note"][current] \notin LongTexts
    [] e = "expanded" -> copy["note"][current] \in LongTexts

StartEdit(e) ==
  /\ route \in Agents /\ ~hidden
  /\ current # NoAgent
  /\ Offered(e)
  /\ editor' = [editor EXCEPT ![e] = current]
  /\ UNCHANGED <<route, current, hidden, known, editVars, sync, sparkVars>>

CancelEdit(e) ==
  /\ route \in Agents /\ ~hidden
  /\ editor[e] # NoAgent
  /\ editor' = [editor EXCEPT ![e] = NoAgent]
  /\ UNCHANGED <<route, current, hidden, known, editVars, sync, sparkVars>>

\* Enter saves the name or the header note again while a save is on its way; the
\* button of the long note is disabled until its answer.  The request is for the
\* agent that is open at that moment.
SaveEdit(e, t) ==
  /\ route \in Agents /\ ~hidden
  /\ editor[e] # NoAgent
  /\ current # NoAgent
  /\ e = "expanded" => \A s \in saves : s.editor # "expanded"
  /\ made < MaxSaves
  /\ made' = made + 1
  /\ saves' = saves \cup {[editor |-> e, agent |-> current, text |-> t,
                           typedFor |-> editor[e], stage |-> "sent"]}
  /\ raced' = IF \E s \in saves : s.agent = current /\ FieldOf(s.editor) = FieldOf(e)
              THEN raced \cup {<<FieldOf(e), current>>} ELSE raced
  /\ UNCHANGED <<route, current, hidden, known, copy, server, editor, sync,
                 sparkVars>>

\* External: the server stores a field or refuses it.
ServerSaves(s, stage) ==
  /\ s \in saves
  /\ s.stage = "sent"
  /\ saves' = (saves \ {s}) \cup {[s EXCEPT !.stage = stage]}
  /\ server' = IF stage = "stored"
               THEN [server EXCEPT ![FieldOf(s.editor)][s.agent] = s.text]
               ELSE server
  /\ UNCHANGED <<route, current, hidden, known, copy, editor, made, sync, raced,
                 sparkVars>>

\* Saving a note closes both note editors, saving a name its own.
CloseAfter(s) ==
  [e \in Editors |-> IF FieldOf(e) = FieldOf(s.editor) THEN NoAgent ELSE editor[e]]

\* Mutant of SaveAnswer: the status of the answer is not looked at.
SaveAnswerUnread(s) ==
  /\ s \in saves
  /\ s.stage # "sent"
  /\ saves' = saves \ {s}
  /\ LET f == FieldOf(s.editor) IN
       /\ copy' = IF current # NoAgent
                  THEN [copy EXCEPT ![f][current] = s.text] ELSE copy
       /\ raced' = IF current = s.agent THEN raced
                   ELSE raced \cup ({f} \X ({s.agent, current} \ {NoAgent}))
  /\ editor' = CloseAfter(s)
  /\ UNCHANGED <<route, current, hidden, known, server, made, sync, sparkVars>>

\* The answer is applied to the agent that is open when it arrives.
SaveAnswer(s) ==
  /\ s \in saves
  /\ s.stage # "sent"
  /\ saves' = saves \ {s}
  /\ IF s.stage = "stored"
     THEN LET f == FieldOf(s.editor) IN
          /\ copy' = IF current # NoAgent
                     THEN [copy EXCEPT ![f][current] = s.text] ELSE copy
          /\ editor' = CloseAfter(s)
          /\ raced' = IF current = s.agent THEN raced
                      ELSE raced \cup ({f} \X ({s.agent, current} \ {NoAgent}))
     ELSE UNCHANGED <<copy, editor, raced>>
  /\ UNCHANGED <<route, current, hidden, known, server, made, sync, sparkVars>>

\* A network error: the page does not learn whether the field was stored.
SaveLost(s) ==
  /\ s \in saves
  /\ saves' = saves \ {s}
  /\ raced' = raced \cup {<<FieldOf(s.editor), s.agent>>}
  /\ UNCHANGED <<route, current, hidden, known, copy, server, editor, made, sync,
                 sparkVars>>

-----------------------------------------------------------------------------
(* Metadata *)

MetadataTick ==
  /\ sync.stage = "none"
  /\ route # "network" /\ ~hidden
  /\ sync' = [sync EXCEPT !.stage = "asked"]
  /\ UNCHANGED <<route, current, hidden, known, editVars, editor, sparkVars>>

\* External: the server reads the agents for the answer.
ServerLists ==
  /\ sync.stage = "asked"
  /\ sync' = [stage |-> "read", names |-> server["nickname"]]
  /\ UNCHANGED <<route, current, hidden, known, editVars, editor, sparkVars>>

\* Mutant of SyncMetadata: agents the page knows already keep their nickname.
SyncUnknownOnly ==
  /\ sync.stage = "read"
  /\ sync' = [sync EXCEPT !.stage = "none"]
  /\ known' = Agents
  /\ copy' = [copy EXCEPT !["nickname"] =
               [a \in Agents |-> IF a \in known THEN copy["nickname"][a]
                                               ELSE sync.names[a]]]
  /\ UNCHANGED <<route, current, hidden, server, editor, saves, made, raced,
                 sparkVars>>

\* Every nickname is replaced by the answer's and unknown agents are added; the
\* notes are not part of the answer.
SyncMetadata ==
  /\ sync.stage = "read"
  /\ sync' = [sync EXCEPT !.stage = "none"]
  /\ known' = Agents
  /\ copy' = [copy EXCEPT !["nickname"] = sync.names]
  /\ raced' =
       (raced \ {<<"nickname", a>> : a \in {b \in Agents :
                    \A s \in saves : s.agent # b \/ s.editor # "name"}})
         \cup {<<"nickname", a>> :
                 a \in {b \in Agents : sync.names[b] # server["nickname"][b]}}
         \cup ({"note"} \X (Agents \ known))
  /\ UNCHANGED <<route, current, hidden, server, editor, saves, made, sparkVars>>

SyncFails ==
  /\ sync.stage # "none"
  /\ sync' = [sync EXCEPT !.stage = "none"]
  /\ UNCHANGED <<route, current, hidden, known, editVars, editor, sparkVars>>

-----------------------------------------------------------------------------
Next ==
  \/ \E t \in Agents \cup {"network-monitors", "agents"} : Navigate(t)
  \/ Hide \/ Unhide
  \/ \E e \in Editors : StartEdit(e) \/ CancelEdit(e)
  \/ \E e \in Editors, t \in Texts : SaveEdit(e, t)
  \/ \E s \in saves : \/ \E stage \in {"stored", "refused"} : ServerSaves(s, stage)
                      \/ SaveAnswer(s)
                      \/ SaveLost(s)
  \/ MetadataTick \/ ServerLists \/ SyncMetadata \/ SyncFails
  \/ \E a \in Cards : SparkTimer(a)
  \/ \E a \in Cards, arrived \in BOOLEAN : SparkAnswer(a, arrived)

Spec == Init /\ [][Next]_vars

\* Timers fire; of the metadata requests that are made for ever, not every one
\* is lost on its way to the server or back.
Fairness ==
  /\ WF_vars(MetadataTick)
  /\ SF_vars(ServerLists)
  /\ SF_vars(SyncMetadata)

FairSpec == Spec /\ Fairness

-----------------------------------------------------------------------------
(* Properties *)

\* Types of the page's state.
HubTypeOK ==
  /\ route \in Agents \cup {"overview", "network"}
  /\ current \in Agents \cup {NoAgent}
  /\ hidden \in BOOLEAN
  /\ known \in SUBSET Agents
  /\ copy \in [Fields -> [Agents -> Texts \cup {NoText}]]
  /\ server \in [Fields -> [Agents -> Texts]]
  /\ editor \in [Editors -> Agents \cup {NoAgent}]
  /\ saves \in SUBSET Saves
  /\ made \in 0 .. MaxSaves
  /\ sync \in [stage : {"none", "asked", "read"}, names : [Agents -> Texts]]
  /\ raced \in SUBSET (Fields \X Agents)
  /\ sparkDue \subseteq Cards /\ sparkOpen \subseteq Cards
  /\ sparks \subseteq Cards /\ sparkLost \subseteq Cards

\* What the user types in an editor is for the agent on screen and is sent for
\* that agent, whatever was navigated, hidden or answered since it was opened.
EditsGoToTheirAgent ==
  /\ \A e \in Editors : editor[e] # NoAgent => editor[e] = current
  /\ \A s \in saves : s.agent = s.typedFor

\* The page's copy of a nickname or note is the server's, except while a save of
\* it is on its way and after one of four races: an answer that arrived with
\* another agent open, one that was lost, two saves of the same field at once,
\* a refresh read before a save.  An agent discovered by a refresh has no note.
CopiesDivergeByRace ==
  \A f \in Fields, a \in known :
    \/ copy[f][a] = server[f][a]
    \/ <<f, a>> \in raced
    \/ \E s \in saves : s.agent = a /\ FieldOf(s.editor) = f

\* What is typed for an agent reaches that agent, and its copy shows it, but for races.
EditsKeepTheirAgent == EditsGoToTheirAgent /\ CopiesDivergeByRace

\* On the visible overview every card has its sparkline, waits for it, or lost
\* it to a network error of this visit: none is forgotten by a tab switch or a
\* navigation that cancelled its timer or its request.
SparklinesPending ==
  route = "overview" /\ ~hidden =>
    Cards = sparks \cup sparkDue \cup sparkOpen \cup sparkLost

\* Nicknames heal: once nothing is being saved and the page stays visible, the
\* refreshes bring every copy back to the server's.  (Notes never heal.)
NicknamesHeal ==
  <>[](saves = {} /\ ~hidden /\ route # "network") =>
    <>[](\A a \in known : copy["nickname"][a] = server["nickname"][a])
=============================================================================
