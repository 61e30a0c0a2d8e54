--------------------------- MODULE AgentHub_proofs ----------------------------
(***************************************************************************)
(* What is typed for an agent reaches that agent, its copy in the page is  *)
(* wrong only after a race, and the overview forgets no sparkline, for any *)
(* agents, texts and number of saves.                                      *)
(*                                                                         *)
(* A save makes the page's copy wrong only between the server's write and  *)
(* its answer, so a copy that differs has a stored save on its way or was  *)
(* raced (CopiesFollow).  That the answer brings the copy back needs that  *)
(* the server still has what it stored (StoredLast), which a second save   *)
(* of the field can only undo by making it a race (SavesApart).            *)
(***************************************************************************)
EXTENDS AgentHub, TLAPS

\* The agent whose editors may be open.
CurrentFollows ==
  /\ route \in Agents => current = route
  /\ route = "overview" => current = NoAgent
  /\ \A e \in Editors : editor[e] # NoAgent => editor[e] = current

SavesMatch == \A s \in saves : s.agent = s.typedFor

\* Two saves of a field of an agent at once are a race.
SavesApart ==
  \A s, u \in saves :
    s.agent = u.agent /\ FieldOf(s.editor) = FieldOf(u.editor) =>
      s = u \/ <<FieldOf(s.editor), s.agent>> \in raced

\* Otherwise the server still has what it stored last.
StoredLast ==
  \A s \in saves :
    s.stage = "stored" => \/ server[FieldOf(s.editor)][s.agent] = s.text
                          \/ <<FieldOf(s.editor), s.agent>> \in raced

\* What may explain that a copy differs.
Explained(f, a) ==
  \/ <<f, a>> \in raced
  \/ \E s \in saves : s.agent = a /\ FieldOf(s.editor) = f /\ s.stage = "stored"

CopiesFollow ==
  \A f \in Fields, a \in known : copy[f][a] = server[f][a] \/ Explained(f, a)

EditsInv == CurrentFollows /\ SavesMatch /\ SavesApart /\ StoredLast /\ CopiesFollow

HubInv == HubTypeOK /\ EditsInv /\ SparklinesPending

navVars == <<route, current, hidden, known>>

USE AgentHubAssumption

LEMMA FieldsOfEditors == \A e \in Editors : FieldOf(e) \in Fields
  BY DEF Editors, FieldOf, Fields

LEMMA HubInvInit == Init => HubInv
<1> SUFFICES ASSUME Init PROVE HubInv
  OBVIOUS
<1> USE DEF Init
<1>1. PICK t \in Texts :
        /\ server = [f \in Fields |-> [a \in Agents |-> t]]
        /\ copy = [f \in Fields |-> [a \in Agents |-> IF a \in Cards THEN t ELSE NoText]]
  OBVIOUS
<1>2. /\ server \in [Fields -> [Agents -> Texts]]
      /\ copy \in [Fields -> [Agents -> Texts \cup {NoText}]]
      /\ \A f \in Fields, a \in known : copy[f][a] = server[f][a]
  BY <1>1
<1>3. server["nickname"] \in [Agents -> Texts]
  BY <1>2 DEF Fields
<1>4. /\ sync \in [stage : {"none", "asked", "read"}, names : [Agents -> Texts]]
      /\ made \in 0 .. MaxSaves /\ editor \in [Editors -> Agents \cup {NoAgent}]
  BY <1>3
<1>5. HubTypeOK
  BY <1>2, <1>4 DEF HubTypeOK
<1>6. EditsInv
  BY <1>2 DEF EditsInv, CurrentFollows, SavesMatch, SavesApart, StoredLast, CopiesFollow
<1> QED
  BY <1>5, <1>6 DEF HubInv, SparklinesPending

-----------------------------------------------------------------------------
(* Navigation and the sparklines *)

LEMMA EditsStay ==
  ASSUME HubInv, UNCHANGED <<known, editVars>>, CurrentFollows'
  PROVE  EditsInv'
  BY DEF HubInv, EditsInv, SavesMatch, SavesApart, StoredLast, CopiesFollow, Explained, editVars

(* The editors are closed with the agent they were opened for. *)
LEMMA EditorsReset ==
  ASSUME HubInv PROVE ResetEdits = [e \in Editors |-> NoAgent]
  BY DEF HubInv, EditsInv, CurrentFollows, ResetEdits

LEMMA SparksTyped ==
  ASSUME HubInv, LoadSparklines \/ CancelSparklines \/ UNCHANGED sparkVars
  PROVE  /\ sparkDue' \subseteq Cards /\ sparkOpen' \subseteq Cards
         /\ sparks' \subseteq Cards /\ sparkLost' \subseteq Cards
         /\ LoadSparklines => Cards = sparks' \cup sparkDue' \cup sparkOpen' \cup sparkLost'
  BY DEF HubInv, HubTypeOK, LoadSparklines, CancelSparklines, sparkVars

LEMMA NavigateKeeps ==
  ASSUME HubInv, NEW t, Navigate(t)
  PROVE  HubInv'
<1> DEFINE r == RouteOf(t)
<1>1. r \in Agents \cup {"overview", "network"}
  BY DEF RouteOf, HubInv, HubTypeOK
<1>2. /\ route' = r
      /\ current' = IF r = "network" THEN current ELSE IF r = "overview" THEN NoAgent ELSE r
      /\ editor' = IF r # route \/ (r \in Agents /\ ~hidden) THEN ResetEdits ELSE editor
      /\ UNCHANGED <<hidden, known, editVars, sync>>
  BY <1>1 DEF Navigate
<1> HIDE DEF r
<1>3. CurrentFollows' /\ editor' \in [Editors -> Agents \cup {NoAgent}]
  <2>1. CASE r # route \/ (r \in Agents /\ ~hidden)
    BY <1>1, <1>2, <2>1, EditorsReset DEF CurrentFollows
  <2>2. CASE r = route
    BY <1>1, <1>2, <2>2, EditorsReset DEF HubInv, HubTypeOK, EditsInv, CurrentFollows
  <2> QED
    BY <2>1, <2>2
<1>4. EditsInv'
  BY <1>2, <1>3, EditsStay
<1>5. /\ LoadSparklines \/ CancelSparklines \/ UNCHANGED sparkVars
      /\ r = "overview" => LoadSparklines
  BY DEF Navigate, r
<1>6. HubTypeOK'
  BY <1>1, <1>2, <1>3, <1>5, SparksTyped DEF HubInv, HubTypeOK, editVars
<1>7. SparklinesPending'
  BY <1>2, <1>5, SparksTyped DEF SparklinesPending
<1> QED
  BY <1>4, <1>6, <1>7 DEF HubInv

LEMMA HideKeeps ==
  ASSUME HubInv, Hide \/ Unhide
  PROVE  HubInv'
<1>1. UNCHANGED <<route, current, known, editVars, sync>> /\ hidden' \in BOOLEAN
  BY DEF Hide, Unhide
<1>2. editor' = editor \/ editor' = [e \in Editors |-> NoAgent]
  BY EditorsReset DEF Hide, Unhide
<1>3. CurrentFollows' /\ editor' \in [Editors -> Agents \cup {NoAgent}]
  BY <1>1, <1>2 DEF HubInv, HubTypeOK, EditsInv, CurrentFollows
<1>4. EditsInv'
  BY <1>1, <1>3, EditsStay
<1>5. /\ LoadSparklines \/ CancelSparklines \/ UNCHANGED sparkVars
      /\ route' = "overview" /\ ~hidden' => LoadSparklines
  BY DEF Hide, Unhide
<1>6. HubTypeOK'
  BY <1>1, <1>3, <1>5, SparksTyped DEF HubInv, HubTypeOK, editVars
<1>7. SparklinesPending'
  BY <1>5, SparksTyped DEF SparklinesPending
<1> QED
  BY <1>4, <1>6, <1>7 DEF HubInv

LEMMA SparkKeeps ==
  ASSUME HubInv, NEW a \in Cards,
         SparkTimer(a) \/ (\E arrived \in BOOLEAN : SparkAnswer(a, arrived))
  PROVE  HubInv'
<1> USE DEF SparkTimer, SparkAnswer
<1>1. UNCHANGED <<navVars, editVars, editor, sync>>
  BY DEF navVars
<1>2. EditsInv'
  BY <1>1, EditsStay DEF navVars, HubInv, EditsInv, CurrentFollows
<1>3. /\ sparkDue' \subseteq Cards /\ sparkOpen' \subseteq Cards
      /\ sparks' \subseteq Cards /\ sparkLost' \subseteq Cards
  BY DEF HubInv, HubTypeOK
<1>4. HubTypeOK'
  BY <1>1, <1>3 DEF HubInv, HubTypeOK, navVars, editVars
<1>5. SparklinesPending'
  BY <1>1 DEF HubInv, SparklinesPending, navVars
<1> QED
  BY <1>2, <1>4, <1>5 DEF HubInv

-----------------------------------------------------------------------------
(* Editing *)

(* A step away from the overview's sparklines. *)
LEMMA SparksStay ==
  ASSUME HubInv, UNCHANGED <<route, hidden, sparkVars>>
  PROVE  /\ SparklinesPending'
         /\ sparkDue' \subseteq Cards /\ sparkOpen' \subseteq Cards
         /\ sparks' \subseteq Cards /\ sparkLost' \subseteq Cards
  BY DEF HubInv, HubTypeOK, SparklinesPending, sparkVars

LEMMA EditorKeeps ==
  ASSUME HubInv, NEW e \in Editors, StartEdit(e) \/ CancelEdit(e)
  PROVE  HubInv'
<1>1. UNCHANGED <<navVars, editVars, sync, sparkVars>>
  BY DEF StartEdit, CancelEdit, navVars
<1>2. CurrentFollows' /\ editor' \in [Editors -> Agents \cup {NoAgent}]
  BY <1>1 DEF StartEdit, CancelEdit, navVars, HubInv, HubTypeOK, EditsInv, CurrentFollows
<1>3. EditsInv'
  BY <1>1, <1>2, EditsStay DEF navVars
<1>4. HubTypeOK'
  BY <1>1, <1>2, SparksStay DEF HubInv, HubTypeOK, navVars, editVars
<1> QED
  BY <1>1, <1>3, <1>4, SparksStay DEF HubInv, navVars

LEMMA SaveEditKeeps ==
  ASSUME HubInv, NEW e \in Editors, NEW t \in Texts, SaveEdit(e, t)
  PROVE  HubInv'
<1> DEFINE new == [editor |-> e, agent |-> current, text |-> t, typedFor |-> editor[e],
                   stage |-> "sent"]
           f == FieldOf(e)
<1>1. /\ UNCHANGED <<navVars, copy, server, editor, sync, sparkVars>>
      /\ saves' = saves \cup {new}
      /\ raced' = IF \E s \in saves : s.agent = current /\ FieldOf(s.editor) = f
                  THEN raced \cup {<<f, current>>} ELSE raced
      /\ editor[e] # NoAgent /\ current # NoAgent
      /\ made' = made + 1 /\ made < MaxSaves
  BY DEF SaveEdit, navVars
<1>2. current \in Agents /\ editor[e] = current /\ f \in Fields /\ made \in 0 .. MaxSaves
  BY <1>1, FieldsOfEditors DEF HubInv, HubTypeOK, EditsInv, CurrentFollows
<1>3. new \in Saves /\ made' \in 0 .. MaxSaves
  BY <1>1, <1>2 DEF Saves
<1>4. HubTypeOK'
  BY <1>1, <1>2, <1>3, SparksStay DEF HubInv, HubTypeOK, navVars
<1>5. /\ new.agent = current /\ new.typedFor = editor[e] /\ FieldOf(new.editor) = f
      /\ new.stage = "sent"
  OBVIOUS
<1> HIDE DEF new, f
<1>6. CurrentFollows' /\ SavesMatch'
  BY <1>1, <1>2, <1>5 DEF HubInv, EditsInv, CurrentFollows, SavesMatch, navVars
<1>7. SavesApart'
  BY <1>1, <1>5 DEF HubInv, EditsInv, SavesApart
<1>8. StoredLast' /\ CopiesFollow'
  BY <1>1, <1>5 DEF HubInv, EditsInv, StoredLast, CopiesFollow, Explained, navVars
<1> QED
  BY <1>1, <1>4, <1>6, <1>7, <1>8, SparksStay DEF HubInv, EditsInv, navVars

LEMMA ServerSavesKeeps ==
  ASSUME HubInv, NEW s \in saves, NEW stage \in {"stored", "refused"}, ServerSaves(s, stage)
  PROVE  HubInv'
<1> DEFINE new == [s EXCEPT !.stage = stage]
           f == FieldOf(s.editor)
<1>1. /\ UNCHANGED <<navVars, copy, editor, made, sync, raced, sparkVars>>
      /\ saves' = (saves \ {s}) \cup {new} /\ s.stage = "sent"
      /\ server' = IF stage = "stored" THEN [server EXCEPT ![f][s.agent] = s.text] ELSE server
  BY DEF ServerSaves, navVars
<1>2. s \in Saves
  BY DEF HubInv, HubTypeOK
<1>3. /\ new \in Saves /\ new.agent = s.agent /\ new.editor = s.editor /\ new.text = s.text
      /\ new.typedFor = s.typedFor /\ new.stage = stage
  BY <1>2 DEF Saves
<1>4. f \in Fields /\ s.agent \in Agents /\ s.text \in Texts
  BY <1>2, FieldsOfEditors DEF Saves
<1> HIDE DEF new, f
<1>5. server \in [Fields -> [Agents -> Texts]]
  BY DEF HubInv, HubTypeOK
<1>6. /\ server' \in [Fields -> [Agents -> Texts]]
      /\ stage = "stored" => server'[f][s.agent] = s.text
      /\ \A g \in Fields, a \in Agents : g # f \/ a # s.agent => server'[g][a] = server[g][a]
      /\ stage # "stored" => server' = server
  BY <1>1, <1>4, <1>5
<1>7. HubTypeOK'
  BY <1>1, <1>3, <1>6, SparksStay DEF HubInv, HubTypeOK, navVars
<1>8. CurrentFollows' /\ SavesMatch'
  BY <1>1, <1>3 DEF HubInv, EditsInv, CurrentFollows, SavesMatch, navVars
<1>9. SavesApart'
  BY <1>1, <1>3 DEF HubInv, EditsInv, SavesApart
<1>10. StoredLast'
  <2> SUFFICES ASSUME NEW u \in saves', u.stage = "stored"
               PROVE  \/ server'[FieldOf(u.editor)][u.agent] = u.text
                      \/ <<FieldOf(u.editor), u.agent>> \in raced'
    BY DEF StoredLast
  <2>1. CASE u = new
    BY <1>3, <1>6, <2>1 DEF f
  <2>2. CASE u \in saves \ {s} /\ (FieldOf(u.editor) # f \/ u.agent # s.agent)
    <3>1. FieldOf(u.editor) \in Fields /\ u.agent \in Agents
      BY <2>2, FieldsOfEditors DEF HubInv, HubTypeOK, Saves
    <3> QED
      BY <1>1, <1>6, <2>2, <3>1 DEF HubInv, EditsInv, StoredLast
  <2>3. CASE u \in saves \ {s} /\ FieldOf(u.editor) = f /\ u.agent = s.agent
    BY <1>1, <2>3 DEF HubInv, EditsInv, SavesApart, f
  <2> QED
    BY <1>1, <2>1, <2>2, <2>3
<1>11. CopiesFollow'
  <2> SUFFICES ASSUME NEW g \in Fields, NEW a \in known'
               PROVE  copy'[g][a] = server'[g][a] \/ Explained(g, a)'
    BY DEF CopiesFollow
  <2>1. a \in Agents /\ a \in known
    BY <1>1 DEF HubInv, HubTypeOK, navVars
  <2>2. CASE g = f /\ a = s.agent /\ stage = "stored"
    BY <1>1, <1>3, <2>2 DEF Explained, f
  <2>3. CASE ~ (g = f /\ a = s.agent /\ stage = "stored")
    <3>1. server'[g][a] = server[g][a]
      BY <1>6, <2>1, <2>3
    <3>2. Explained(g, a) => Explained(g, a)'
      BY <1>1 DEF Explained
    <3> QED
      BY <1>1, <2>1, <3>1, <3>2 DEF HubInv, EditsInv, CopiesFollow
  <2> QED
    BY <2>2, <2>3
<1> QED
  BY <1>1, <1>7, <1>8, <1>9, <1>10, <1>11, SparksStay DEF HubInv, EditsInv, navVars

(* A save leaves; whatever was raced stays so. *)
LEMMA SaveGoes ==
  ASSUME HubInv, NEW s \in saves, saves' = saves \ {s}, UNCHANGED server, raced \subseteq raced'
  PROVE  SavesMatch' /\ SavesApart' /\ StoredLast'
  BY DEF HubInv, EditsInv, SavesMatch, SavesApart, StoredLast

LEMMA SaveLostKeeps ==
  ASSUME HubInv, NEW s \in saves, SaveLost(s)
  PROVE  HubInv'
<1> USE DEF SaveLost
<1>1. UNCHANGED <<navVars, copy, server, editor, made, sync, sparkVars>>
  BY DEF navVars
<1>2. FieldOf(s.editor) \in Fields /\ s.agent \in Agents
  BY FieldsOfEditors DEF HubInv, HubTypeOK, Saves
<1>3. HubTypeOK'
  BY <1>1, <1>2, SparksStay DEF HubInv, HubTypeOK, navVars
<1>4. CurrentFollows' /\ SavesMatch' /\ SavesApart' /\ StoredLast'
  BY <1>1, SaveGoes DEF HubInv, EditsInv, CurrentFollows, navVars
<1>5. CopiesFollow'
  <2> SUFFICES ASSUME NEW g \in Fields, NEW a \in known'
               PROVE  copy'[g][a] = server'[g][a] \/ Explained(g, a)'
    BY DEF CopiesFollow
  <2>1. a \in known /\ copy'[g][a] = copy[g][a] /\ server'[g][a] = server[g][a]
    BY <1>1 DEF navVars
  <2>2. CASE g = FieldOf(s.editor) /\ a = s.agent
    BY <2>2 DEF Explained
  <2>3. CASE ~ (g = FieldOf(s.editor) /\ a = s.agent)
    <3>1. Explained(g, a) => Explained(g, a)'
      BY <2>3 DEF Explained
    <3> QED
      BY <2>1, <3>1 DEF HubInv, EditsInv, CopiesFollow
  <2> QED
    BY <2>2, <2>3
<1> QED
  BY <1>1, <1>3, <1>4, <1>5, SparksStay DEF HubInv, EditsInv, navVars

LEMMA SaveAnswerKeeps ==
  ASSUME HubInv, NEW s \in saves, SaveAnswer(s)
  PROVE  HubInv'
<1> DEFINE f == FieldOf(s.editor)
<1>1. /\ UNCHANGED <<navVars, server, made, sync, sparkVars>>
      /\ saves' = saves \ {s}
  BY DEF SaveAnswer, navVars
<1>2. f \in Fields /\ s.agent \in Agents /\ s.text \in Texts
  BY FieldsOfEditors DEF HubInv, HubTypeOK, Saves
<1>3. copy \in [Fields -> [Agents -> Texts \cup {NoText}]] /\ current \in Agents \cup {NoAgent}
  BY DEF HubInv, HubTypeOK
<1>4. CASE s.stage # "stored"
  <2>1. UNCHANGED <<copy, editor, raced>>
    BY <1>4 DEF SaveAnswer
  <2>2. HubTypeOK'
    BY <1>1, <2>1, SparksStay DEF HubInv, HubTypeOK, navVars
  <2>3. CurrentFollows' /\ SavesMatch' /\ SavesApart' /\ StoredLast'
    BY <1>1, <2>1, SaveGoes DEF HubInv, EditsInv, CurrentFollows, navVars
  <2>4. CopiesFollow'
    <3> SUFFICES ASSUME NEW g \in Fields, NEW a \in known'
                 PROVE  copy'[g][a] = server'[g][a] \/ Explained(g, a)'
      BY DEF CopiesFollow
    <3>1. a \in known /\ copy'[g][a] = copy[g][a] /\ server'[g][a] = server[g][a]
      BY <1>1, <2>1 DEF navVars
    <3>2. Explained(g, a) => Explained(g, a)'
      BY <1>1, <1>4, <2>1 DEF Explained
    <3> QED
      BY <3>1, <3>2 DEF HubInv, EditsInv, CopiesFollow
  <2> QED
    BY <1>1, <2>2, <2>3, <2>4, SparksStay DEF HubInv, EditsInv, navVars
<1>5. CASE s.stage = "stored"
  <2>1. /\ copy' = IF current # NoAgent THEN [copy EXCEPT ![f][current] = s.text] ELSE copy
        /\ editor' = CloseAfter(s)
        /\ raced' = IF current = s.agent THEN raced
                    ELSE raced \cup ({f} \X ({s.agent, current} \ {NoAgent}))
    BY <1>5 DEF SaveAnswer
  <2> HIDE DEF f
  <2>2. /\ copy' \in [Fields -> [Agents -> Texts \cup {NoText}]]
        /\ current # NoAgent => copy'[f][current] = s.text
        /\ \A g \in Fields, a \in Agents : g # f \/ a # current => copy'[g][a] = copy[g][a]
    BY <1>2, <1>3, <2>1
  <2>3. /\ raced \subseteq raced' /\ raced' \subseteq raced \cup (Fields \X Agents)
        /\ current # s.agent => <<f, s.agent>> \in raced'
        /\ current # s.agent /\ current # NoAgent => <<f, current>> \in raced'
    BY <1>2, <1>3, <2>1
  <2>4. CurrentFollows' /\ editor' \in [Editors -> Agents \cup {NoAgent}]
    BY <1>1, <2>1 DEF HubInv, HubTypeOK, EditsInv, CurrentFollows, navVars, CloseAfter
  <2>5. HubTypeOK'
    BY <1>1, <2>2, <2>3, <2>4, SparksStay DEF HubInv, HubTypeOK, navVars
  <2>6. SavesMatch' /\ SavesApart' /\ StoredLast'
    BY <1>1, <2>3, SaveGoes
  <2>7. CopiesFollow'
    <3> SUFFICES ASSUME NEW g \in Fields, NEW a \in known'
                 PROVE  copy'[g][a] = server'[g][a] \/ Explained(g, a)'
      BY DEF CopiesFollow
    <3>1. a \in Agents /\ a \in known
      BY <1>1 DEF HubInv, HubTypeOK, navVars
    <3>2. CASE g = f /\ a = s.agent
      BY <1>1, <1>5, <2>2, <2>3, <3>1, <3>2
         DEF HubInv, EditsInv, StoredLast, Explained, f
    <3>3. CASE g = f /\ a = current /\ a # s.agent
      BY <2>3, <3>1, <3>3 DEF Explained
    <3>4. CASE g # f \/ (a # s.agent /\ a # current)
      <4>1. copy'[g][a] = copy[g][a] /\ server'[g][a] = server[g][a]
        BY <1>1, <2>2, <3>1, <3>4
      <4>2. Explained(g, a) => Explained(g, a)'
        BY <1>1, <2>3, <3>4 DEF Explained, f
      <4> QED
        BY <3>1, <4>1, <4>2 DEF HubInv, EditsInv, CopiesFollow
    <3> QED
      BY <3>2, <3>3, <3>4
  <2> QED
    BY <1>1, <2>4, <2>5, <2>6, <2>7, SparksStay DEF HubInv, EditsInv, navVars
<1> QED
  BY <1>4, <1>5

-----------------------------------------------------------------------------
(* Metadata *)

LEMMA SyncKeeps ==
  ASSUME HubInv, MetadataTick \/ ServerLists \/ SyncFails
  PROVE  HubInv'
<1> USE DEF MetadataTick, ServerLists, SyncFails
<1>1. UNCHANGED <<navVars, editVars, editor, sparkVars>>
  BY DEF navVars
<1>2. /\ sync \in [stage : {"none", "asked", "read"}, names : [Agents -> Texts]]
      /\ server["nickname"] \in [Agents -> Texts]
  BY DEF HubInv, HubTypeOK, Fields
<1>3. sync' \in [stage : {"none", "asked", "read"}, names : [Agents -> Texts]]
  BY <1>2
<1>4. HubTypeOK'
  BY <1>1, <1>3, SparksStay DEF HubInv, HubTypeOK, navVars, editVars
<1>5. EditsInv'
  BY <1>1, EditsStay DEF navVars, HubInv, EditsInv, CurrentFollows
<1> QED
  BY <1>1, <1>4, <1>5, SparksStay DEF HubInv, navVars

LEMMA SyncMetadataKeeps ==
  ASSUME HubInv, SyncMetadata
  PROVE  HubInv'
<1>1. /\ UNCHANGED <<route, current, hidden, server, editor, saves, made, sparkVars>>
      /\ known' = Agents
      /\ copy' = [copy EXCEPT !["nickname"] = sync.names]
      /\ sync' = [sync EXCEPT !.stage = "none"]
  BY DEF SyncMetadata
<1>2. /\ "nickname" \in Fields /\ "note" \in Fields
      /\ \A g \in Fields : g = "nickname" \/ g = "note"
      /\ \A e \in Editors : FieldOf(e) = "nickname" <=> e = "name"
  BY DEF Fields, Editors, FieldOf
<1>3. /\ raced' \subseteq Fields \X Agents
      \* what is no longer raced has no save on its way
      /\ \A g \in Fields, a \in Agents : <<g, a>> \in raced /\ <<g, a>> \notin raced' =>
           /\ g = "nickname"
           /\ \A s \in saves : s.agent # a \/ s.editor # "name"
      /\ \A a \in Agents :
           /\ sync.names[a] # server["nickname"][a] => <<"nickname", a>> \in raced'
           /\ a \notin known => <<"note", a>> \in raced'
  BY <1>2 DEF SyncMetadata, HubInv, HubTypeOK
<1>4. /\ copy' \in [Fields -> [Agents -> Texts \cup {NoText}]]
      /\ copy'["nickname"] = sync.names /\ copy'["note"] = copy["note"]
      /\ sync' \in [stage : {"none", "asked", "read"}, names : [Agents -> Texts]]
  BY <1>1, <1>2 DEF HubInv, HubTypeOK
<1>5. HubTypeOK'
  BY <1>1, <1>3, <1>4, SparksStay DEF HubInv, HubTypeOK
<1>6. CurrentFollows' /\ SavesMatch'
  BY <1>1 DEF HubInv, EditsInv, CurrentFollows, SavesMatch
<1>7. \A s \in saves : s.agent \in Agents /\ s.editor \in Editors /\ FieldOf(s.editor) \in Fields
  BY FieldsOfEditors DEF HubInv, HubTypeOK, Saves
<1>8. \A s \in saves : <<FieldOf(s.editor), s.agent>> \in raced =>
                         <<FieldOf(s.editor), s.agent>> \in raced'
  BY <1>2, <1>3, <1>7
<1>9. SavesApart' /\ StoredLast'
  BY <1>1, <1>8 DEF HubInv, EditsInv, SavesApart, StoredLast
<1>10. CopiesFollow'
  <2> SUFFICES ASSUME NEW g \in Fields, NEW a \in Agents
               PROVE  copy'[g][a] = server'[g][a] \/ Explained(g, a)'
    BY <1>1 DEF CopiesFollow
  <2>1. CASE g = "nickname"
    BY <1>1, <1>3, <1>4, <2>1 DEF Explained
  <2>2. CASE g = "note" /\ a \notin known
    BY <1>3, <2>2 DEF Explained
  <2>3. CASE g = "note" /\ a \in known
    BY <1>1, <1>2, <1>3, <1>4, <2>3 DEF HubInv, EditsInv, CopiesFollow, Explained
  <2> QED
    BY <1>2, <2>1, <2>2, <2>3
<1> QED
  BY <1>1, <1>5, <1>6, <1>9, <1>10, SparksStay DEF HubInv, EditsInv

-----------------------------------------------------------------------------
LEMMA HubStep ==
  ASSUME HubInv, [Next]_vars
  PROVE  HubInv'
<1>1. CASE UNCHANGED vars
  <2>1. UNCHANGED <<navVars, editVars, editor, sync, sparkVars>>
    BY <1>1 DEF vars, navVars
  <2>2. HubTypeOK'
    BY <2>1, SparksStay DEF HubInv, HubTypeOK, navVars, editVars
  <2>3. EditsInv'
    BY <2>1, EditsStay DEF navVars, HubInv, EditsInv, CurrentFollows
  <2> QED
    BY <2>1, <2>2, <2>3, SparksStay DEF HubInv, navVars
<1> QED
  BY <1>1, NavigateKeeps, HideKeeps, SparkKeeps, EditorKeeps, SaveEditKeeps, ServerSavesKeeps,
     SaveAnswerKeeps, SaveLostKeeps, SyncKeeps, SyncMetadataKeeps DEF Next
-----------------------------------------------------------------------------
LEMMA HubInvHolds == Spec => []HubInv
  BY HubInvInit, HubStep, PTL DEF Spec

\* The page's state has the stated types in every reachable state.
THEOREM HubTypesHold == Spec => []HubTypeOK
<1>1. HubInv => HubTypeOK
  BY DEF HubInv
<1> QED
  BY <1>1, HubInvHolds, PTL

\* Whatever is navigated, hidden, answered, lost or refreshed in between, what the
\* user types for an agent is sent for that agent, and the page's copy of a field
\* is the server's unless a save of it is on its way or was raced.
THEOREM EditsNeverStray == Spec => []EditsKeepTheirAgent
<1>1. HubInv => EditsGoToTheirAgent
  BY DEF HubInv, EditsInv, CurrentFollows, SavesMatch, EditsGoToTheirAgent
<1>2. HubInv => CopiesDivergeByRace
  BY DEF HubInv, EditsInv, CopiesFollow, Explained, CopiesDivergeByRace
<1>3. HubInv => EditsKeepTheirAgent
  BY <1>1, <1>2 DEF EditsKeepTheirAgent
<1> QED
  BY <1>3, HubInvHolds, PTL

\* No tab switch and no navigation leaves a card of the visible overview without
\* its sparkline, its timer, its request or a network error.
THEOREM NoSparklineForgotten == Spec => []SparklinesPending
<1>1. HubInv => SparklinesPending
  BY DEF HubInv
<1> QED
  BY <1>1, HubInvHolds, PTL
=============================================================================
