---------------------------- MODULE DashboardForm -----------------------------
(***************************************************************************)
(* The order of the servers in the form of a status page                   *)
(* (web/static/admin/js/dashboard_edit.js) and what the server makes of    *)
(* the submitted form.  The order lives in three places: the script's      *)
(* array, the rows of the Order list, which dragging moves around first,   *)
(* and the hidden inputs of the form.                                      *)
(***************************************************************************)
EXTENDS Naturals, Sequences, FiniteSets, SequencesExt

CONSTANTS Servers,   \* the rows of the form, one for each available agent
          Rows,      \* Servers in the order of the rows
          ByName,    \* and in the order of their nicknames
          NoServer

ASSUME DashboardFormAssumption ==
  /\ IsFiniteSet(Servers)
  /\ {ByName, Rows} \subseteq SetToSeqs(Servers)
  /\ NoServer \notin Servers

VARIABLES checked,    \* servers whose box is checked
          shownRows,  \* rows the search leaves visible
          order,      \* selectedAgentsOrder
          list,       \* the Order list as the document has it
          inputs,     \* the hidden agents_order inputs
          dragged,    \* isDragged
          dragging    \* draggedItem, or NoServer

orderVars == <<checked, shownRows, order, list, inputs, dragged, dragging>>

\* The page is rendered with an order for the boxes it checks.
OrderInit ==
  /\ checked \in SUBSET Servers
  /\ shownRows = Servers
  /\ order \in SetToSeqs(checked)
  /\ list = IF Len(order) > 1 THEN order ELSE <<>>
  /\ inputs = order
  /\ dragged \in BOOLEAN
  /\ dragging = NoServer

\* The entries of s at some of its places, in their order: the k-th is the one with
\* k of the places up to it.
EntriesAt(s, places) ==
  LET nth(k) == CHOOSE i \in places : Cardinality({j \in places : j <= i}) = k
  IN  [k \in 1 .. Cardinality(places) |-> s[nth(k)]]
Filtered(s, S) == EntriesAt(s, {i \in DOMAIN s : s[i] \in S})

\* Every checked box gets a place, at the end and in the order of the rows.
WithMissing(s, boxes) == s \o Filtered(Rows, boxes \ ToSet(s))

\* updateReorderSection: the list is drawn for two servers or more and hidden
\* below that; the inputs follow the array either way.
Redraw(s) ==
  /\ order' = s
  /\ inputs' = s
  /\ list' = IF Len(s) > 1 THEN s ELSE <<>>

CheckboxChange(x) ==
  /\ dragging = NoServer
  /\ checked' = IF x \in checked THEN checked \ {x} ELSE checked \cup {x}
  /\ Redraw(Filtered(WithMissing(order, checked'), (Servers \ {x}) \cup checked'))
  /\ UNCHANGED <<shownRows, dragged, dragging>>

\* filterAgents
FilterRows ==
  /\ dragging = NoServer
  /\ shownRows' \in SUBSET Servers
  /\ UNCHANGED <<checked, order, list, inputs, dragged, dragging>>

\* toggleSelectAll: checks the visible rows, or unchecks them when all are.
ToggleSelectAll ==
  /\ dragging = NoServer
  /\ LET all == shownRows \subseteq checked IN
       checked' = IF all THEN checked \ shownRows ELSE checked \cup shownRows
  /\ IF shownRows = {} THEN UNCHANGED <<order, list, inputs>>
     ELSE Redraw(Filtered(WithMissing(order, checked'), checked'))
  /\ UNCHANGED <<shownRows, dragged, dragging>>

DragStart(x) ==
  /\ dragging = NoServer
  /\ Len(order) > 1 /\ Contains(list, x)
  /\ dragging' = x
  /\ UNCHANGED <<checked, shownRows, order, list, inputs, dragged>>

\* dragover: the row moves before the one the pointer is above, or to the end.
DragOver(i) ==
  /\ dragging # NoServer
  /\ LET rest == Filtered(list, Servers \ {dragging}) IN
       /\ i \in 1 .. Len(rest) + 1
       /\ list' = InsertAt(rest, i, dragging)
  /\ UNCHANGED <<checked, shownRows, order, inputs, dragged, dragging>>

\* Mutant of FinishDrag: the drop numbers the rows again and no more.
FinishDragBadges ==
  /\ dragging # NoServer
  /\ dragging' = NoServer
  /\ UNCHANGED <<checked, shownRows, order, list, inputs, dragged>>

\* drop or dragend, whichever comes first: the array takes the rows' order.
FinishDrag ==
  /\ dragging # NoServer
  /\ dragging' = NoServer
  /\ dragged' = (dragged \/ list # order)
  /\ Redraw(list)
  /\ UNCHANGED <<checked, shownRows>>

\* The up and down buttons of a row.
Move(x, by) ==
  /\ dragging = NoServer
  /\ Len(order) > 1 /\ Contains(list, x) /\ Contains(order, x)
  /\ LET from == CHOOSE i \in DOMAIN order : order[i] = x
         to   == from + by
     IN  /\ to \in DOMAIN order
         /\ Redraw(InsertAt(RemoveAt(order, from), to, x))
  /\ dragged' = TRUE
  /\ UNCHANGED <<checked, shownRows, dragging>>

\* Reset to alphabetical is offered for a list that was moved.
ResetOrder ==
  /\ dragging = NoServer
  /\ dragged /\ Len(order) > 1
  /\ Redraw(Filtered(ByName, ToSet(order)))
  /\ dragged' = FALSE
  /\ UNCHANGED <<checked, shownRows, dragging>>

OrderNext ==
  \/ \E x \in Servers : CheckboxChange(x) \/ DragStart(x) \/ Move(x, 1) \/ Move(x, 0 - 1)
  \/ FilterRows \/ ToggleSelectAll
  \/ \E i \in 1 .. Len(list) + 1 : DragOver(i)
  \/ FinishDrag
  \/ ResetOrder

\* What the form sends: the submit handler fills in missing boxes first.
Submitted == WithMissing(order, checked)

\* parseAgentsOrder: the order without servers that are not selected and without
\* repetitions, then the selected servers it leaves out.
WithoutRepeats(s) == EntriesAt(s, {i \in DOMAIN s : \A j \in DOMAIN s : s[j] = s[i] => i <= j})
ParseAgentsOrder(s, boxes) == WithMissing(WithoutRepeats(Filtered(s, boxes)), boxes)

\* Whatever was checked, filtered, dragged, moved and reset, submitting the form
\* saves each checked server once and no other, and visitors get the order that
\* the Order list shows, which is hidden for fewer than two.
SavesWhatIsShown ==
  dragging = NoServer =>
    LET saved == ParseAgentsOrder(Submitted, checked) IN
      /\ ToSet(saved) = checked /\ Len(saved) = Len(WithoutRepeats(saved))
      /\ inputs = order
      /\ Len(order) > 1 => list = saved
=============================================================================
