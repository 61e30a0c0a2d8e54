---------------------------- MODULE StatusPageForm ----------------------------
(***************************************************************************)
(* The status pages in the React panel: their list (DashboardsPanel.tsx),  *)
(* the form of one (DashboardEditView.tsx) and of a new one                *)
(* (DashboardCreateView.tsx), and the fields of both                       *)
(* (DashboardFormFields.tsx): which agents are on the page, in an order    *)
(* that is dragged, and what its visitors may see.  A page is changed here *)
(* only, and a pointer that drags does nothing else.  The server keeps the *)
(* agents of a page, and has an order of its own for them unless it was    *)
(* given one, so a page may be read in any order.                          *)
(***************************************************************************)
EXTENDS Naturals, Sequences, FiniteSets, SequencesExt

CONSTANTS StatusPages, NewPage, NoPageView,
          PageHosts,        \* agents
          Unset,         \* of a page that does not exist
          NoHost,        \* an undefined entry of the order
          MaxViews       \* bound: loads of forms under way at once

ASSUME StatusPageAssumption ==
  /\ {NewPage, NoPageView} \cap StatusPages = {} /\ NewPage # NoPageView
  /\ IsFiniteSet(PageHosts) /\ NoHost \notin PageHosts /\ MaxViews \in Nat \ {0}

VARIABLES storedPages,  \* the page whose access rules each page of the server has
          pageAsking,   \* the page whose removal is asked about
          viewed,       \* the form of the route
          viewLoading,  \* loading
          viewAsks,     \* what this visit asked for, the latest last
          pageOf,       \* dashboardId: the page whose fields are shown
          aclOf,        \* the page whose access rules the fields hold
          hostsRead,    \* availableAgents have come
          chosen,       \* keys of selectedAgents
          placed,       \* selectedAgentsOrder
          dragAt,       \* draggedIndex or touchStartIndex, 0 when null
          pagePut,      \* the saved form that is under way
          spoiled,      \* a page was read while a row was dragged (history variable)
          inherits      \* pages without rules that were read after another page
                        \* (history variable)

fieldVs        == <<pageOf, aclOf, hostsRead, chosen, placed, dragAt, spoiled>>
statusPageVars == <<storedPages, pageAsking, viewed, viewLoading, viewAsks, fieldVs,
                    pagePut, inherits>>

\* A page may have no rules for its visitors, who then see nothing.
NoRules == NewPage
Acls    == StatusPages \cup {NoRules}
NoPut   == [to |-> NoPageView, acl |-> NoRules, hosts |-> {}]

EmptyFields ==
  /\ pageOf' = NewPage /\ aclOf' = NoRules /\ hostsRead' = FALSE
  /\ chosen' = {} /\ placed' = <<>> /\ dragAt' = 0 /\ spoiled' = FALSE

StatusPagesInit ==
  /\ storedPages \in [StatusPages -> Acls \cup {Unset}]
  /\ \A p \in StatusPages : storedPages[p] \in {p, NoRules, Unset}
  /\ pageAsking = NoPageView
  /\ viewed = NoPageView /\ viewLoading = TRUE /\ viewAsks = <<>>
  /\ pageOf = NewPage /\ aclOf = NoRules /\ hostsRead = FALSE
  /\ chosen = {} /\ placed = <<>> /\ dragAt = 0 /\ spoiled = FALSE
  /\ pagePut = NoPut /\ inherits = {}

\* What the list, read when it is opened, and the dialog over it offer.
ListOffers == IF viewed # NoPageView THEN {}
              ELSE IF pageAsking # NoPageView THEN {"Delete Dashboard"}
              ELSE {"New Page"} \cup {p \in StatusPages : storedPages[p] # Unset}

AskRemovePage(p) ==
  /\ p \in ListOffers
  /\ pageAsking' = p
  /\ UNCHANGED <<storedPages, viewed, viewLoading, viewAsks, fieldVs, pagePut, inherits>>

\* The page is removed; or it cannot be, or the dialog was cancelled.
RemoveAnswered(gone) ==
  /\ "Delete Dashboard" \in ListOffers
  /\ storedPages' = IF gone THEN [storedPages EXCEPT ![pageAsking] = Unset] ELSE storedPages
  /\ pageAsking' = NoPageView
  /\ UNCHANGED <<viewed, viewLoading, viewAsks, fieldVs, pagePut, inherits>>

Enter(v) ==
  /\ viewed' = v /\ viewLoading' = TRUE /\ viewAsks' = <<v>>
  /\ EmptyFields
  /\ pageAsking' = NoPageView
  /\ UNCHANGED <<storedPages, pagePut, inherits>>

EditPage(p) == p \in ListOffers /\ Enter(p)
AddPage     == "New Page" \in ListOffers /\ Enter(NewPage)

ToList ==
  /\ viewed' = NoPageView /\ viewLoading' = TRUE /\ viewAsks' = <<>>
  /\ EmptyFields

\* The arrow, Cancel or the browser's own button; a request is not cancelled.
LeavePage ==
  /\ viewed # NoPageView
  /\ ToList
  /\ UNCHANGED <<storedPages, pageAsking, pagePut, inherits>>

\* The browser's history goes from one page's form to another's, which is the same
\* instance with its fields.
MoveToPage(p) ==
  /\ viewed \in StatusPages /\ p \in StatusPages \ {viewed}
  /\ Len(viewAsks) < MaxViews
  /\ viewed' = p /\ viewAsks' = Append(viewAsks, p)
  /\ UNCHANGED <<storedPages, pageAsking, viewLoading, fieldVs, pagePut, inherits>>

\* The page and the agents: the fields are those of the page that came, whatever the
\* route is by then, except for the rules of a page that has none.  Which agents a page
\* has, if any are left, is open: another administrator may have chosen them.
PageRead(i) ==
  LET p == viewAsks[i] IN
  /\ p \in StatusPages /\ storedPages[p] # Unset
  /\ pageOf' = p
  /\ aclOf' = IF storedPages[p] = NoRules THEN aclOf ELSE storedPages[p]
  /\ inherits' = IF storedPages[p] = NoRules /\ aclOf \notin {p, NoRules}
                 THEN inherits \cup {p} ELSE inherits
  /\ chosen' \in SUBSET PageHosts /\ placed' \in SetToSeqs(chosen')
  /\ hostsRead' = TRUE /\ viewLoading' = FALSE
  /\ spoiled' = (spoiled \/ dragAt # 0)
  /\ viewAsks' = RemoveAt(viewAsks, i)
  /\ UNCHANGED <<storedPages, pageAsking, viewed, dragAt, pagePut>>

\* The agents of a new page.
HostsRead(i) ==
  /\ viewAsks[i] = NewPage
  /\ hostsRead' = TRUE /\ viewLoading' = FALSE
  /\ viewAsks' = RemoveAt(viewAsks, i)
  /\ UNCHANGED <<storedPages, pageAsking, viewed, pageOf, aclOf, chosen, placed,
                 dragAt, spoiled, pagePut, inherits>>

\* An error is shown above the fields, which stay.
ReadFails(i) ==
  /\ viewLoading' = FALSE
  /\ viewAsks' = RemoveAt(viewAsks, i)
  /\ UNCHANGED <<storedPages, pageAsking, viewed, fieldVs, pagePut, inherits>>

\* The form of a page waits for it behind a spinner; that of a new one does not.
PageFields == IF viewed = NewPage THEN TRUE ELSE viewed # NoPageView /\ ~viewLoading
HostRows   == IF PageFields /\ hostsRead /\ dragAt = 0 THEN PageHosts ELSE {}
OrderRows  == IF PageFields THEN DOMAIN placed ELSE {}

PutFields(hosts, order) ==
  /\ chosen' = hosts /\ placed' = order
  /\ UNCHANGED <<storedPages, pageAsking, viewed, viewLoading, viewAsks, pageOf, aclOf,
                 hostsRead, spoiled, pagePut, inherits>>

\* The entries without those of S, in their order: filter, by the number of the indices
\* that stay up to one.
Without(s, S) ==
  LET stay   == {i \in DOMAIN s : s[i] \notin S}
      nth(k) == CHOOSE i \in stay : Cardinality({j \in stay : j <= i}) = k
  IN  [k \in 1 .. Cardinality(stay) |-> s[nth(k)]]

\* toggleAgent: two states that are kept in step.
ToggleHost(h) ==
  /\ h \in HostRows
  /\ IF h \in chosen
     THEN PutFields(chosen \ {h}, Without(placed, {h}))
     ELSE PutFields(chosen \cup {h}, Append(placed, h))
  /\ UNCHANGED dragAt

\* handleSelectAllFiltered, of the agents that a search finds.
SelectAllFound(found) ==
  /\ found # {} /\ found \subseteq HostRows
  /\ IF found \subseteq chosen
     THEN PutFields(chosen \ found, Without(placed, found))
     ELSE \E added \in SetToSeqs(found \ chosen) : PutFields(chosen \cup found, placed \o added)
  /\ UNCHANGED dragAt

DragRow(i) ==
  /\ dragAt = 0 /\ i \in OrderRows
  /\ dragAt' = i
  /\ PutFields(chosen, placed)

\* handleDragOver and handleTouchMove: the entry at the remembered index, which a list
\* that has become shorter does not have.
DragTo(i) ==
  /\ dragAt # 0 /\ i \in OrderRows \ {dragAt}
  /\ LET held == dragAt \in DOMAIN placed
         row  == IF held THEN placed[dragAt] ELSE NoHost
         rest == IF held THEN RemoveAt(placed, dragAt) ELSE placed
     IN  PutFields(chosen, InsertAt(rest, i, row))
  /\ dragAt' = i

DropRow ==
  /\ dragAt # 0
  /\ dragAt' = 0
  /\ PutFields(chosen, placed)

\* resetToAlphabetical: by the aliases, which may be in any order.
ResetPlaces ==
  /\ dragAt = 0 /\ OrderRows # {}
  /\ \E s \in SetToSeqs(DOMAIN placed) : PutFields(chosen, [i \in DOMAIN placed |-> placed[s[i]]])
  /\ UNCHANGED dragAt

\* Mutant of SubmitPage: to the page of the route.
SubmitPageOfRoute ==
  /\ PageFields /\ dragAt = 0
  /\ pagePut = NoPut /\ placed # <<>>
  /\ pagePut' = [to |-> viewed, acl |-> aclOf, hosts |-> ToSet(placed)]
  /\ UNCHANGED <<storedPages, pageAsking, viewed, viewLoading, viewAsks, fieldVs, inherits>>

\* handleSubmit of either view, one request at a time: to the page whose fields are
\* shown, or for a new page.
SubmitPage ==
  /\ PageFields /\ dragAt = 0
  /\ pagePut = NoPut /\ placed # <<>>
  /\ pagePut' = [to |-> pageOf, acl |-> aclOf, hosts |-> ToSet(placed)]
  /\ UNCHANGED <<storedPages, pageAsking, viewed, viewLoading, viewAsks, fieldVs, inherits>>

\* It is saved, and the user is back at the list from wherever that was.
PageSaved ==
  /\ pagePut # NoPut
  /\ \E p \in StatusPages :
       /\ IF pagePut.to = NewPage THEN storedPages[p] = Unset
          ELSE pagePut.to = p /\ storedPages[p] # Unset
       /\ pagePut.hosts \subseteq PageHosts
       /\ storedPages' = [storedPages EXCEPT ![p] = IF pagePut.to = NewPage THEN p ELSE pagePut.acl]
  /\ pagePut' = NoPut
  /\ ToList
  /\ UNCHANGED <<pageAsking, inherits>>

SaveFails ==
  /\ pagePut # NoPut
  /\ pagePut' = NoPut
  /\ UNCHANGED <<storedPages, pageAsking, viewed, viewLoading, viewAsks, fieldVs, inherits>>

\* Delete of the form, confirmed.
RemovePage ==
  /\ viewed \in StatusPages /\ PageFields /\ pageOf \in StatusPages
  /\ storedPages[pageOf] # Unset
  /\ storedPages' = [storedPages EXCEPT ![pageOf] = Unset]
  /\ ToList
  /\ UNCHANGED <<pageAsking, pagePut, inherits>>

StatusPagesNext ==
  \/ AddPage \/ LeavePage \/ DropRow \/ ResetPlaces
  \/ SubmitPage \/ PageSaved \/ SaveFails \/ RemovePage
  \/ \E p \in StatusPages : AskRemovePage(p) \/ EditPage(p) \/ MoveToPage(p)
  \/ \E gone \in BOOLEAN : RemoveAnswered(gone)
  \/ \E i \in DOMAIN viewAsks : PageRead(i) \/ HostsRead(i) \/ ReadFails(i)
  \/ \E H \in SUBSET PageHosts : SelectAllFound(H)
  \/ \E h \in PageHosts : ToggleHost(h)
  \/ \E i \in OrderRows : DragRow(i) \/ DragTo(i)

StatusPagesSpec == StatusPagesInit /\ [][StatusPagesNext]_statusPageVars

-----------------------------------------------------------------------------
(* Property *)

\* A page is only written with its own fields, wherever the history took the form in
\* between: the rules its visitors get are its own, unless it had none and was read
\* into a form that showed another page's, and it is never saved without an agent.  The
\* order holds each chosen agent once, unless it was read again under a drag.
StatusPagesKeepTheirOwn ==
  /\ \A p \in StatusPages \ inherits : storedPages[p] \in {p, NoRules, Unset}
  /\ pagePut # NoPut => pagePut.hosts # {}
  /\ ~spoiled => /\ ToSet(placed) = chosen
                 /\ Cardinality(chosen) = Len(placed)
=============================================================================
