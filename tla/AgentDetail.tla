------------------------------ MODULE AgentDetail -----------------------------
(***************************************************************************)
(* A chart on an agent's page of the React panel (MetricChart of           *)
(* AgentDetail.tsx) with the choice of its range.  Each change of agent or *)
(* range clears the chart and fetches its series anew; an earlier fetch    *)
(* goes on, and its answer is shown whenever it comes.                     *)
(*                                                                         *)
(* The editors of the same page: the nickname, the note in the banner, and *)
(* a long note below it.  A link from one agent to another keeps the       *)
(* editors mounted: a note editor takes over the other note when the two   *)
(* differ, the nickname editor keeps what was typed.  An answer closes the *)
(* editor that is open by then.                                            *)
(***************************************************************************)
EXTENDS Naturals, Sequences, FiniteSets, SequencesExt

CONSTANTS Boxes,      \* agents
          Spans,      \* quick ranges
          Spells,     \* custom ranges
          NoSpell,    \* the custom range when there is none
          NoView,     \* what an empty chart shows
          MaxAsks     \* bound: fetches under way at once

ASSUME DetailChartAssumption ==
  /\ NoSpell \notin Spells /\ MaxAsks \in Nat \ {0}
  /\ NoView \notin [box : Boxes, span : Spans \cup Spells]

VARIABLES box,         \* the agent whose page is open
          span,        \* activeHours
          spell,       \* customRange
          picking,     \* the dropdown of the time picker is open
          series,      \* data: what it was fetched for, and whose live points it has
          spinning,    \* loading
          fetches,     \* views asked for and not answered, the latest last
          latest,      \* how the latest fetch stands (history variable)
          recently     \* views asked for since nothing was under way (history variable)

detailChartVars == <<box, span, spell, picking, series, spinning, fetches, latest, recently>>

Views    == [box : Boxes, span : Spans \cup Spells]
Selected == [box |-> box, span |-> IF spell = NoSpell THEN span ELSE spell]
Blank    == [view |-> NoView, live |-> {}]

\* What the card renders in place of the chart.
Rendered == IF spinning THEN "spinner" ELSE IF series.view = NoView THEN "No data" ELSE "chart"

DetailChartInit ==
  /\ box \in Boxes /\ span \in Spans
  /\ spell = NoSpell /\ picking = FALSE
  /\ series = Blank /\ spinning = TRUE
  /\ fetches = <<[box |-> box, span |-> span]>> /\ latest = "pending"
  /\ recently = {[box |-> box, span |-> span]}

\* Mutant of Fetch: the points of before stay until the answer comes.
FetchKeepingPoints ==
  /\ spinning' = TRUE
  /\ UNCHANGED series
  /\ fetches' = Append(fetches, Selected')
  /\ latest' = "pending"
  /\ recently' = (IF fetches = <<>> THEN {} ELSE recently) \cup {Selected'}

\* The effect of MetricChart on a change of agent or range.
Fetch ==
  /\ spinning' = TRUE
  /\ series' = Blank
  /\ fetches' = Append(fetches, Selected')
  /\ latest' = "pending"
  /\ recently' = (IF fetches = <<>> THEN {} ELSE recently) \cup {Selected'}

MayFetch == Len(fetches) < MaxAsks

\* A link to another agent: the page and its range stay mounted.
VisitBox(b) ==
  /\ MayFetch /\ b # box
  /\ box' = b
  /\ UNCHANGED <<span, spell, picking>>
  /\ Fetch

\* Away from the agent's page and back: everything but activeHours starts anew.
Revisit(b) ==
  /\ box' = b
  /\ UNCHANGED span
  /\ spell' = NoSpell /\ picking' = FALSE
  /\ series' = Blank /\ spinning' = TRUE
  /\ fetches' = <<Selected'>> /\ latest' = "pending" /\ recently' = {Selected'}

TogglePicker ==
  /\ picking' = ~picking
  /\ UNCHANGED <<box, span, spell, series, spinning, fetches, latest, recently>>

\* handleHoursChange: a range that was selected already fetches nothing.
HoursChange(h) ==
  /\ MayFetch /\ picking
  /\ span' = h /\ spell' = NoSpell /\ picking' = FALSE
  /\ UNCHANGED box
  /\ IF span = h /\ spell = NoSpell
     THEN UNCHANGED <<series, spinning, fetches, latest, recently>>
     ELSE Fetch

\* handleApplyCustom, with dates in order: the range is a new object, so that the
\* same dates fetch again.
ApplyCustom(s) ==
  /\ MayFetch /\ picking
  /\ spell' = s /\ picking' = FALSE
  /\ UNCHANGED <<box, span>>
  /\ Fetch

ClearCustom ==
  /\ MayFetch /\ picking /\ spell # NoSpell
  /\ spell' = NoSpell /\ picking' = FALSE
  /\ UNCHANGED <<box, span>>
  /\ Fetch

\* onZoom, dragged on a chart that is there to drag on.
DragZoom(s) ==
  /\ MayFetch /\ Rendered = "chart"
  /\ spell' = s
  /\ UNCHANGED <<box, span, picking>>
  /\ Fetch

\* Promise.all: a fetch that fails leaves its series empty, an answer replaces what
\* the chart shows, whichever view it was asked for.
Answered(i, found) ==
  /\ series' = [view |-> IF found THEN fetches[i] ELSE NoView, live |-> {}]
  /\ spinning' = FALSE
  /\ fetches' = RemoveAt(fetches, i)
  /\ latest' = IF latest = "pending" THEN IF i = Len(fetches) THEN "shown" ELSE latest
               ELSE "overtaken"
  /\ UNCHANGED <<box, span, spell, picking, recently>>

\* A frame with a reading of the agent; a chart that loads, is empty or has a custom
\* range takes none.
LiveReading ==
  /\ Rendered = "chart" /\ spell = NoSpell
  /\ series' = [series EXCEPT !.live = @ \cup {box}]
  /\ UNCHANGED <<box, span, spell, picking, spinning, fetches, latest, recently>>

DetailChartNext ==
  \/ \E b \in Boxes : VisitBox(b) \/ Revisit(b)
  \/ TogglePicker \/ ClearCustom \/ LiveReading
  \/ \E h \in Spans : HoursChange(h)
  \/ \E s \in Spells : ApplyCustom(s) \/ DragZoom(s)
  \/ \E i \in DOMAIN fetches, found \in BOOLEAN : Answered(i, found)

DetailChartSpec == DetailChartInit /\ [][DetailChartNext]_detailChartVars

-----------------------------------------------------------------------------
(* Type invariant and properties *)

DetailChartTypeOK ==
  /\ box \in Boxes /\ span \in Spans /\ spell \in Spells \cup {NoSpell}
  /\ picking \in BOOLEAN /\ spinning \in BOOLEAN
  /\ series \in [view : Views \cup {NoView}, live : SUBSET Boxes]
  /\ fetches \in Seq(Views) /\ Len(fetches) <= MaxAsks
  /\ latest \in {"pending", "shown", "overtaken"} /\ recently \subseteq Views

\* The chart never has live points of another agent than the one whose page is open,
\* and none beside a custom range.  When nothing is under way the spinner is gone, and
\* the chart shows what is selected, or nothing if a fetch failed, as long as the answer
\* to the latest fetch came last.  The code does not make it come last: an older answer
\* that comes after it stays, until the next change.  It can only be that of a view
\* which was asked for since the visitor last waited for all answers, so that one who
\* waits for each never sees another view than the selected one.
SettledChartShowsSelection ==
  /\ series.live \subseteq {box}
  /\ spell # NoSpell => series.live = {}
  /\ fetches = <<>> =>
       /\ ~spinning
       /\ series.view \in recently \cup {NoView}
       /\ latest # "overtaken" => series.view \in {Selected, NoView}

-----------------------------------------------------------------------------
(* The editors *)

CONSTANTS Hosted,     \* agents
          Brief,      \* notes of at most forty characters and one line
          Lengthy,    \* notes that are longer
          Called,     \* nicknames
          MaxPuts     \* bound: requests under way at once

ASSUME DetailEditorsAssumption ==
  /\ Brief \cap Lengthy = {} /\ MaxPuts \in Nat \ {0}

VARIABLES opened,     \* the agent whose page is open
          kept,       \* note and nickname of every agent in the provider's list
          drafts,     \* the three of them: editing, value
          author,     \* the agent whose page the value was read or typed on
          twins,      \* whether the page was left for an agent with the same note
          puts        \* requests under way

editorVars == <<opened, kept, drafts, author, twins, puts>>

Notes   == Brief \cup Lengthy
Editors == {"nickname", "inline", "expanded"}
Field(e)       == IF e = "nickname" THEN "nickname" ELSE "note"
ValueOf(k, a, e) == k[a][Field(e)]
Draft(k, a, e) == [editing |-> FALSE, value |-> ValueOf(k, a, e)]

\* What is rendered: a long note has its own section, and the banner links to it in
\* place of its editor, which keeps its state.
Shown(e) == \/ e = "nickname"
            \/ e = "inline" /\ kept[opened].note \in Brief
            \/ e = "expanded" /\ kept[opened].note \in Lengthy

\* The field of the nickname; Enter saves while an earlier request is under way.
NicknameField == IF drafts["nickname"].editing THEN {"Type", "Save", "Cancel"} ELSE {"Edit"}

\* The field in the banner.
InlineField ==
  IF ~Shown("inline") THEN {}
  ELSE IF drafts["inline"].editing THEN {"Type", "Save", "Cancel"} ELSE {"Edit"}

\* The section below the banner: its button is disabled during a request.
ExpandedField ==
  IF ~Shown("expanded") THEN {}
  ELSE IF ~drafts["expanded"].editing THEN {"Edit"}
  ELSE {"Type", "Cancel"}
         \cup (IF \E p \in puts : p.by = "expanded" /\ p.mounted THEN {} ELSE {"Save"})

Offers(e) == CASE e = "nickname" -> NicknameField
               [] e = "inline"   -> InlineField
               [] e = "expanded" -> ExpandedField

EditorsInit ==
  /\ opened \in Hosted
  /\ kept \in [Hosted -> [note : Notes, nickname : Called]]
  /\ drafts = [e \in Editors |-> Draft(kept, opened, e)]
  /\ author = [e \in Editors |-> opened]
  /\ twins = FALSE
  /\ puts = {}

\* What a change of the list or of the agent does to the editors: the effects on
\* agent.note give both note editors the note that is shown now, if it is another;
\* the section of a long note goes when the note is short, and comes as new.
Synced(k, a) ==
  LET old == kept[opened].note  new == k[a].note
      \* Those whose value is set.
      Set == (IF new # old THEN {"inline", "expanded"} ELSE {})
      Anew == IF (old \in Brief) # (new \in Brief) THEN {"expanded"} ELSE {}
  IN /\ drafts' = [e \in Editors |-> CASE e \in Anew -> Draft(k, a, e)
                                        [] e \in Set \ Anew -> [drafts[e] EXCEPT !.value = new]
                                        [] OTHER -> drafts[e]]
     /\ author' = [e \in Editors |-> IF e \in Set THEN a ELSE author[e]]

Unmounted(by) == {IF p.by \in by THEN [p EXCEPT !.mounted = FALSE] ELSE p : p \in puts}

\* A link of the sidebar to another agent.
VisitAgent(a) ==
  /\ a # opened
  /\ opened' = a
  /\ Synced(kept, a)
  /\ twins' = (kept[a].note = kept[opened].note)
  /\ puts' = Unmounted(IF kept[a].note \in Brief THEN {"expanded"} ELSE {})
  /\ UNCHANGED kept

\* To the hub and to an agent's page again: all three are new.
LeaveAndVisit(a) ==
  /\ opened' = a
  /\ drafts' = [e \in Editors |-> Draft(kept, a, e)]
  /\ author' = [e \in Editors |-> a]
  /\ twins' = FALSE
  /\ puts' = Unmounted(Editors)
  /\ UNCHANGED kept

\* startEdit of the nickname reads it anew; the note editors open as they are.
StartEdit(e) ==
  /\ "Edit" \in Offers(e)
  /\ IF e = "nickname"
     THEN /\ drafts' = [drafts EXCEPT ![e] = [Draft(kept, opened, e) EXCEPT !.editing = TRUE]]
          /\ author' = [author EXCEPT ![e] = opened]
     ELSE /\ drafts' = [drafts EXCEPT ![e].editing = TRUE]
          /\ UNCHANGED author
  /\ UNCHANGED <<opened, kept, twins, puts>>

TypeText(e, t) ==
  /\ "Type" \in Offers(e)
  /\ drafts' = [drafts EXCEPT ![e].value = t]
  /\ author' = [author EXCEPT ![e] = opened]
  /\ UNCHANGED <<opened, kept, twins, puts>>

\* The nickname and a long note are reset; a note in the banner keeps its text.
CancelEdit(e) ==
  /\ "Cancel" \in Offers(e)
  /\ IF e = "inline"
     THEN drafts' = [drafts EXCEPT ![e].editing = FALSE] /\ UNCHANGED author
     ELSE /\ drafts' = [drafts EXCEPT ![e] = Draft(kept, opened, e)]
          /\ author' = [author EXCEPT ![e] = opened]
  /\ UNCHANGED <<opened, kept, twins, puts>>

\* save and handleSave: a nickname that is the agent's own is not sent.
Save(e) ==
  /\ "Save" \in Offers(e)
  /\ ~(e = "nickname" /\ drafts[e].value = kept[opened].nickname)
  /\ Cardinality(puts) < MaxPuts
  /\ puts' = puts \cup {[by |-> e, of |-> opened, value |-> drafts[e].value,
                          author |-> author[e], twins |-> twins, mounted |-> TRUE]}
  /\ UNCHANGED <<opened, kept, drafts, author, twins>>

\* onSaved: the list has the new value, and the editor is closed.
PutSaved(p) ==
  LET k == [kept EXCEPT ![p.of][Field(p.by)] = p.value]
      new == k[opened].note
      Anew == IF (kept[opened].note \in Brief) # (new \in Brief) THEN {"expanded"} ELSE {}
      Set == IF new # kept[opened].note THEN {"inline", "expanded"} ELSE {}
      Close(e, f) == IF e = p.by /\ p.mounted THEN [f EXCEPT !.editing = FALSE] ELSE f
  IN /\ kept' = k
     /\ drafts' = [e \in Editors |->
          IF e \in Anew THEN Draft(k, opened, e)
          ELSE Close(e, IF e \in Set THEN [drafts[e] EXCEPT !.value = new] ELSE drafts[e])]
     /\ author' = [e \in Editors |-> IF e \in Set THEN opened ELSE author[e]]
     /\ puts' = (IF Anew = {} THEN puts ELSE Unmounted(Anew)) \ {p, [p EXCEPT !.mounted = FALSE]}
     /\ UNCHANGED <<opened, twins>>

PutFails(p) ==
  /\ puts' = puts \ {p}
  /\ UNCHANGED <<opened, kept, drafts, author, twins>>

\* A poll finds what another administrator wrote.
ListChanges(a, n) ==
  LET k == [kept EXCEPT ![a].note = n] IN
  /\ kept[a].note # n
  /\ kept' = k
  /\ Synced(k, opened)
  /\ puts' = IF k[opened].note \in Brief THEN Unmounted({"expanded"}) ELSE puts
  /\ UNCHANGED <<opened, twins>>

EditorsNext ==
  \/ \E a \in Hosted : VisitAgent(a) \/ LeaveAndVisit(a)
  \/ \E e \in Editors : StartEdit(e) \/ CancelEdit(e) \/ Save(e)
  \/ \E t \in Called : TypeText("nickname", t)
  \/ \E e \in {"inline", "expanded"}, t \in Notes : TypeText(e, t)
  \/ \E p \in puts : PutSaved(p) \/ PutFails(p)
  \/ \E a \in Hosted, n \in Notes : ListChanges(a, n)

EditorsSpec == EditorsInit /\ [][EditorsNext]_editorVars

-----------------------------------------------------------------------------
(* Type invariant and properties *)

EditorsTypeOK ==
  /\ opened \in Hosted
  /\ kept \in [Hosted -> [note : Notes, nickname : Called]]
  /\ drafts \in [Editors -> [editing : BOOLEAN, value : Notes \cup Called]]
  /\ author \in [Editors -> Hosted] /\ twins \in BOOLEAN
  /\ puts \subseteq [by : Editors, of : Hosted, value : Notes \cup Called,
                     author : Hosted, twins : BOOLEAN, mounted : BOOLEAN]

\* A note is written to the agent on whose page it was typed, whatever was switched,
\* polled and answered meanwhile; except that an editor which was left open goes over
\* to an agent with the same note, two agents without a note among them, and that the
\* nickname's always does.
NotesReachTheirAgent ==
  \A p \in puts : p.author # p.of => p.by = "nickname" \/ p.twins
=============================================================================
