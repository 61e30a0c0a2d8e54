----------------------------- MODULE NetworkList -----------------------------
(***************************************************************************)
(* The list of network monitors (web/src/js/components/network_monitors):  *)
(* one page of the monitors that pass the filters, loaded over HTTP, kept  *)
(* up to date by the network readings of the telemetry feed and by a poll  *)
(* that takes over when the feed is quiet or was opened again.  An aborted *)
(* request has no effect any more and is forgotten here.                   *)
(***************************************************************************)
EXTENDS Naturals, FiniteSets

CONSTANTS Monitors,   \* monitor IDs, in the order of the list
          Permanent,  \* bound: those that always exist
          ListFilters, \* what the filters can be set to: the monitors they let through
          Limit,      \* monitors on a page
          MaxListPage, \* bound: pages the visitor can run to
          NoSnapshot  \* no reading has arrived

ASSUME NetworkListAssumption ==
  /\ Monitors \subseteq Nat /\ IsFiniteSet(Monitors)
  /\ Permanent \subseteq Monitors /\ ListFilters \subseteq SUBSET Monitors
  /\ Limit \in Nat \ {0} /\ MaxListPage \in Nat \ {0}
  /\ \A S \in SUBSET Monitors : S # NoSnapshot

VARIABLES
  server,      \* the monitors that exist
  visible,     \* visible()
  listFilter,  \* what the filter controls say
  searching,   \* the search debounce timer is set
  listPage,    \* s.page
  rows,        \* s.rows and s.total, with the filter and page they were asked for
  label,       \* page and total at the last render, which enable the paging buttons
  request,     \* pending.list
  message,     \* ui.message: "none", "retry" or "other"
  membership,  \* live.membership
  reconciled,  \* live.generation is the feed's
  feed,        \* the feed's socket: "down", "opening" or "up"
  missed       \* bookkeeping: the monitors changed twice between two readings, or
               \* before the first, and no list request was answered since

listVars == <<rows, label, request, message>>
controls == <<visible, listFilter, searching, listPage>>
feedVars == <<membership, reconciled, feed>>
monitorListVars == <<server, controls, listVars, feedVars, missed>>

PageOf(S, p) ==
  {m \in S : LET before == Cardinality({n \in S : n < m})
             IN  (p - 1) * Limit <= before /\ before < p * Limit}

Answer(f, p, S) == [filter |-> f, page |-> p, items |-> PageOf(S \cap f, p),
                    total |-> Cardinality(S \cap f)]
BlankList == [filter |-> {}, page |-> 1, items |-> {}, total |-> 0]
NoRequest == [stage |-> "none", answer |-> BlankList]

\* begin('list').  The server answers a page below 1 with page 1.
Ask(f, p) == [stage |-> "sent", answer |-> [BlankList EXCEPT
                !.filter = f, !.page = IF p < 1 THEN 1 ELSE p]]

\* renderList: the paging buttons follow the page and the total.
RenderList == label' = [page |-> listPage, total |-> rows.total]

ListInit ==
  /\ server \in {S \in SUBSET Monitors : Permanent \subseteq S}
  /\ visible = TRUE /\ listFilter \in ListFilters /\ searching = FALSE /\ listPage = 1
  /\ rows = BlankList /\ label = [page |-> 1, total |-> 0]
  /\ request = Ask(listFilter, 1)
  /\ message = "none"
  /\ membership = NoSnapshot /\ reconciled = TRUE /\ feed = "opening"
  /\ missed = FALSE

-----------------------------------------------------------------------------
(* Loading the list *)

\* The request that refreshList puts in force; it does nothing while hidden.
RefreshList(f, p) == Ask(f, p)

\* External: the server reads the page.
ServerReads ==
  /\ request.stage = "sent"
  /\ request' = [stage |-> "read", answer |->
                   Answer(request.answer.filter, request.answer.page, server)]
  /\ missed' = FALSE
  /\ UNCHANGED <<server, controls, rows, label, message, feedVars>>

LastPage(total) == IF total = 0 THEN 1 ELSE (total + Limit - 1) \div Limit

\* Mutant of BeyondEnd: the page that a deletion has just emptied is taken for the last.
BeyondEndLate(total) == listPage > 1 /\ (listPage - 1) * Limit > total

BeyondEnd(total) == listPage > 1 /\ (listPage - 1) * Limit >= total

\* The answer replaces the rows.  A page beyond the end is asked for again, for
\* the last one, before anything is rendered.
PageAnswer ==
  /\ request.stage = "read"
  /\ rows' = request.answer
  /\ IF BeyondEnd(request.answer.total)
     THEN /\ listPage' = LastPage(request.answer.total)
          /\ request' = RefreshList(listFilter, LastPage(request.answer.total))
          /\ UNCHANGED <<label, message>>
     ELSE /\ request' = NoRequest
          /\ message' = "none"
          /\ label' = [page |-> listPage, total |-> request.answer.total]
          /\ UNCHANGED listPage
  /\ UNCHANGED <<server, visible, listFilter, searching, feedVars, missed>>

\* The rows stay, and the message offers to retry.
ListFails ==
  /\ request.stage # "none"
  /\ request' = NoRequest
  /\ message' = "retry"
  /\ UNCHANGED <<server, controls, rows, label, feedVars, missed>>

-----------------------------------------------------------------------------
(* The controls *)

\* refreshAll: the Refresh button, the Retry button, a saved or changed monitor.
RefreshAll ==
  /\ visible
  /\ request' = RefreshList(listFilter, listPage)
  /\ UNCHANGED <<server, controls, rows, label, message, feedVars, missed>>

\* mutate fails: its message takes the place of the one that was there.
MutateFails ==
  /\ message' = "other"
  /\ UNCHANGED <<server, controls, rows, label, request, feedVars, missed>>

\* Typing in the search field changes what the next request asks for at once,
\* and the page only when the timer runs out.
Search(f) ==
  /\ visible
  /\ listFilter' = f
  /\ searching' = TRUE
  /\ UNCHANGED <<server, visible, listPage, listVars, feedVars, missed>>

\* filtersChanged, from another filter or from the timer of the search, which goes on
\* while another filter changes.
FiltersChanged(f) ==
  /\ visible
  /\ \/ searching /\ f = listFilter /\ searching' = FALSE
     \/ UNCHANGED searching
  /\ listFilter' = f
  /\ listPage' = 1
  /\ request' = RefreshList(f, 1)
  /\ UNCHANGED <<server, visible, rows, label, message, feedVars, missed>>

\* saveDialog, answered: to the first page, which a hidden list does not ask for.
MonitorSaved ==
  /\ listPage' = 1
  /\ request' = IF visible THEN RefreshList(listFilter, 1) ELSE request
  /\ UNCHANGED <<server, visible, listFilter, searching, rows, label, message, feedVars, missed>>

\* Previous and Next, enabled as of the last render: pressed again before the
\* answer they can run past either end, to page 0 too.
TurnList(p) ==
  /\ visible
  /\ \/ p = listPage + 1 /\ label.page * Limit < label.total
     \/ p + 1 = listPage /\ label.page > 1
  /\ p \in 0 .. MaxListPage
  /\ listPage' = p
  /\ request' = RefreshList(listFilter, p)
  /\ UNCHANGED <<server, visible, listFilter, searching, rows, label, message, feedVars,
                 missed>>

\* visibilitychange, the toggle of a drawer, activate.
Appear ==
  /\ ~visible
  /\ visible' = TRUE
  /\ request' = RefreshList(listFilter, listPage)
  /\ UNCHANGED <<server, listFilter, searching, listPage, rows, label, message, feedVars, missed>>

\* suspend
Disappear ==
  /\ visible
  /\ visible' = FALSE
  /\ searching' = FALSE
  /\ request' = NoRequest
  /\ UNCHANGED <<server, listFilter, listPage, rows, label, message, feedVars, missed>>

\* setNode: the drawer of another server, closed and empty; the text of its
\* last list, buttons and message stay.
SetListNode(f) ==
  /\ visible' = FALSE /\ searching' = FALSE
  /\ listFilter' = f /\ listPage' = 1
  /\ rows' = [rows EXCEPT !.items = {}]
  /\ request' = NoRequest
  /\ UNCHANGED <<server, label, message, feedVars, missed>>

-----------------------------------------------------------------------------
(* The feed and the poll *)

FeedOpens ==
  /\ feed = "opening"
  /\ feed' = "up" /\ reconciled' = FALSE
  /\ request' = IF visible THEN RefreshList(listFilter, listPage) ELSE request
  /\ UNCHANGED <<server, controls, rows, label, message, membership, missed>>

FeedCloses ==
  /\ feed # "down"
  /\ feed' = "down"
  /\ UNCHANGED <<server, controls, listVars, membership, reconciled, missed>>

FeedReconnects ==
  /\ feed = "down"
  /\ feed' = "opening"
  /\ UNCHANGED <<server, controls, listVars, membership, reconciled, missed>>

\* Mutant of NetworkPulse: the membership is recorded only where it is shown.
NetworkPulseForgetful ==
  /\ feed = "up"
  /\ membership' = server
  /\ IF visible THEN RenderList ELSE UNCHANGED label
  /\ UNCHANGED <<server, controls, rows, request, message, reconciled, feed, missed>>

\* A network reading: the list is rendered again, and asked for again if the
\* monitors are not those of the reading before, which was seen while hidden too.
NetworkPulse ==
  /\ feed = "up"
  /\ membership' = server
  /\ IF visible
     THEN /\ RenderList
          /\ request' = IF membership \notin {NoSnapshot, server}
                        THEN RefreshList(listFilter, listPage) ELSE request
     ELSE UNCHANGED <<label, request>>
  /\ UNCHANGED <<server, controls, rows, message, reconciled, feed, missed>>

\* The poll asks again when the feed is down, quiet, or not the one the last
\* poll saw.  quiet: the last reading is older than 45 s.
Poll(quiet) ==
  /\ visible
  /\ membership = NoSnapshot => quiet
  /\ request' = IF feed # "up" \/ quiet \/ ~reconciled
                THEN RefreshList(listFilter, listPage) ELSE request
  /\ reconciled' = TRUE
  /\ UNCHANGED <<server, controls, rows, label, message, membership, feed, missed>>

\* External: monitors are added, removed or paused, here or elsewhere.
MonitorsChange(S) ==
  /\ Permanent \subseteq S
  /\ server' = S
  /\ missed' = (missed \/ (membership # server /\ S # server))
  /\ UNCHANGED <<controls, listVars, feedVars>>

-----------------------------------------------------------------------------
ListNext ==
  \/ ServerReads \/ PageAnswer \/ ListFails
  \/ RefreshAll \/ MutateFails \/ MonitorSaved
  \/ \E f \in ListFilters : Search(f) \/ FiltersChanged(f) \/ SetListNode(f)
  \/ \E p \in 0 .. MaxListPage : TurnList(p)
  \/ Appear \/ Disappear
  \/ FeedOpens \/ FeedCloses \/ FeedReconnects \/ NetworkPulse
  \/ \E quiet \in BOOLEAN : Poll(quiet)
  \/ \E S \in SUBSET Monitors : MonitorsChange(S)

ListSpec == ListInit /\ [][ListNext]_monitorListVars

-----------------------------------------------------------------------------
(* Properties *)

\* Types of the list's state.
ListTypeOK ==
  /\ server \in SUBSET Monitors
  /\ visible \in BOOLEAN /\ listFilter \in ListFilters /\ searching \in BOOLEAN
  /\ listPage \in 0 .. MaxListPage
  /\ rows \in [filter : ListFilters \cup {{}}, page : Nat, items : SUBSET Monitors, total : Nat]
  /\ label \in [page : Nat, total : Nat]
  /\ request \in [stage : {"none", "sent", "read"},
                  answer : [filter : ListFilters \cup {{}}, page : Nat,
                            items : SUBSET Monitors, total : Nat]]
  /\ message \in {"none", "retry", "other"}
  /\ membership \in (SUBSET Monitors) \cup {NoSnapshot}
  /\ missed \in BOOLEAN
  /\ reconciled \in BOOLEAN /\ feed \in {"down", "opening", "up"}

\* A list that waits for nothing and says nothing shows the rows of the current filters
\* and of the page whose number and total it prints, and that page is not beyond the end.
\* It may be before the beginning: Previous pressed again before the answer reaches page
\* 0, and the code does not come back from it as it does from a page beyond the end.
\* Then the rows are those of the first page, under the range of page 0.
SettledListShowsPage ==
  visible /\ request.stage = "none" /\ message = "none" /\ ~searching =>
    /\ rows.filter = listFilter
    /\ rows.page = listPage \/ (listPage = 0 /\ rows.page = 1)
    /\ label = [page |-> listPage, total |-> rows.total]
    /\ listPage > 1 => rows.items # {}

\* Once a reading has carried the monitors there are, a list that is visible, waits
\* for nothing and says nothing shows those that exist, however pulses, polls, list
\* requests and hidden spells fell.  One case is left out because the code has no
\* answer to it: an answer that saw monitors no reading ever carried, because they
\* changed again before the next one, or before the first.
SettledListIsCurrent ==
  /\ visible /\ request.stage = "none" /\ message = "none" /\ ~searching
  /\ membership = server /\ ~missed
  => rows = Answer(listFilter, rows.page, server)
=============================================================================
