----------------------------- MODULE EventHistory -----------------------------
(***************************************************************************)
(* The recent events of the React panel's alerts page (AlertsPanel.tsx): a *)
(* page of a search and a status.  Whatever changes one of them asks for   *)
(* the events again, no request is cancelled, and every answer sets the    *)
(* rows and the page number both, which may ask once more.                 *)
(***************************************************************************)
EXTENDS Naturals, Sequences, SequencesExt

CONSTANTS Queries,     \* texts of the search field, NoQuery among them
          NoQuery,
          Standings,   \* all, firing, resolved
          LastEventPage, \* bound: pages the server may have
          NoneGot,     \* what is shown before the first answer
          MaxQueried   \* bound: requests under way at once

ASSUME EventHistoryAssumption ==
  /\ NoQuery \in Queries /\ Standings # {}
  /\ LastEventPage \in Nat \ {0} /\ MaxQueried \in Nat \ {0}

VARIABLES typing,      \* searchInputValue
          search,      \* historySearch, the text after the debounce
          debouncing,  \* the timer of the search runs
          standing,    \* historyStatus
          onPage,      \* page
          loadingEvents,    \* isHistoryLoading
          gotEvents,   \* history: what it was asked for
          pageCount,   \* totalPages of it
          asked,       \* requests under way, in the order they were made
          newest,      \* how the newest request stands (history variable)
          queried,     \* searches and statuses asked for since nothing was under way
                       \* (history variable)
          askFailed,   \* a request failed since the last answer (history variable)
          resending    \* selections a retry under way was clicked in

eventListVars == <<typing, search, debouncing, standing, onPage, loadingEvents, gotEvents,
                   pageCount, asked, newest, queried, askFailed, resending>>

Selections == [page : 1 .. LastEventPage, query : Queries, status : Standings]
Picked     == [page |-> onPage, query |-> search, status |-> standing]
Lists      == [query : Queries, status : Standings]
ListOf(sel) == [query |-> sel.query, status |-> sel.status]

EventsInit ==
  /\ typing = NoQuery /\ search = NoQuery /\ debouncing = TRUE
  /\ standing = CHOOSE s \in Standings : TRUE
  /\ onPage = 1
  /\ loadingEvents = TRUE /\ gotEvents = NoneGot /\ pageCount = 0
  /\ asked = <<[page |-> onPage, query |-> search, status |-> standing]>>
  /\ newest = "pending" /\ askFailed = FALSE
  /\ queried = {[query |-> search, status |-> standing]}
  /\ resending = {}

MayAsk == Len(asked) < MaxQueried

\* The searches and statuses asked for with sel, beside the requests rest under way.
Queried(rest, sel) == (IF rest = <<>> THEN {} ELSE queried) \cup {ListOf(sel)}

\* fetchHistory
AskEvents(sel) ==
  /\ loadingEvents' = TRUE
  /\ asked' = Append(asked, sel) /\ queried' = Queried(asked, sel)
  /\ newest' = "pending"

\* The effect on page, search and status: it asks if one of them is another now.
AskIfChanged ==
  IF Picked' # Picked THEN AskEvents(Picked') ELSE UNCHANGED <<loadingEvents, asked, newest, queried>>

\* The toolbar: the search field and the three statuses, never disabled.
SearchChange(q) ==
  /\ MayAsk /\ q # typing
  /\ typing' = q /\ debouncing' = TRUE /\ onPage' = 1
  /\ UNCHANGED <<search, standing>>
  /\ AskIfChanged
  /\ UNCHANGED <<gotEvents, pageCount, askFailed, resending>>

StatusChange(s) ==
  /\ MayAsk
  /\ standing' = s /\ onPage' = 1
  /\ UNCHANGED search
  /\ AskIfChanged
  /\ UNCHANGED <<typing, debouncing, gotEvents, pageCount, askFailed, resending>>

Debounced ==
  /\ MayAsk /\ debouncing
  /\ debouncing' = FALSE /\ search' = typing
  /\ UNCHANGED <<onPage, standing>>
  /\ AskIfChanged
  /\ UNCHANGED <<typing, gotEvents, pageCount, askFailed, resending>>

\* The rows are there, or "No Events Found" is: an empty page has no paging either.
RowsShown == gotEvents # NoneGot /\ gotEvents.page <= pageCount

\* The buttons of the paging: one per page, but none while a request is thought to be
\* under way; the first answer of several ends that.
PageButtons == IF RowsShown /\ pageCount > 1 /\ ~loadingEvents THEN 1 .. pageCount ELSE {}

GoToPage(p) ==
  /\ MayAsk /\ p \in PageButtons
  /\ onPage' = p
  /\ UNCHANGED <<search, standing>>
  /\ AskIfChanged
  /\ UNCHANGED <<typing, debouncing, gotEvents, pageCount, askFailed, resending>>

\* How the newest request stands after the answer of request i.
Stands(i) == CASE newest = "outdated" -> newest
               [] newest = "pending"  -> IF i = Len(asked) THEN "shown" ELSE "pending"
               [] OTHER -> "overtaken"

\* Mutant of EventsAnswered: the answer brings rows, the page number is the click's.
EventsAnsweredKeepPage(i, n) ==
  /\ gotEvents' = asked[i] /\ pageCount' = n
  /\ askFailed' = FALSE /\ loadingEvents' = FALSE
  /\ asked' = RemoveAt(asked, i)
  /\ newest' = Stands(i)
  /\ UNCHANGED <<typing, search, debouncing, standing, onPage, queried, resending>>

\* An answer shows its rows and its page; if that is another page than the selected
\* one, the effect asks for it with the search and the status of now.
EventsAnswered(i, n) ==
  LET ans == asked[i]
      rest == RemoveAt(asked, i)
      again == ans.page # onPage
      next == [Picked EXCEPT !.page = ans.page]
  IN /\ gotEvents' = ans /\ onPage' = ans.page /\ pageCount' = n
     /\ askFailed' = FALSE
     /\ loadingEvents' = again
     /\ asked' = IF again THEN Append(rest, next) ELSE rest
     /\ queried' = IF again THEN Queried(rest, next) ELSE queried
     /\ newest' = IF again THEN "pending" ELSE Stands(i)
     /\ UNCHANGED <<typing, search, debouncing, standing, resending>>

EventsFail(i) ==
  /\ asked' = RemoveAt(asked, i)
  /\ loadingEvents' = FALSE
  /\ askFailed' = TRUE
  /\ newest' = IF i = Len(asked) /\ newest = "pending" THEN "failed" ELSE newest
  /\ UNCHANGED <<typing, search, debouncing, standing, onPage, gotEvents, pageCount, queried,
                 resending>>

\* handleRetry, of a row whose delivery failed: it refreshes the selection it was
\* clicked in, whatever is selected when the retry is answered.
RetryDelivery ==
  /\ RowsShown /\ resending = {}
  /\ resending' = {Picked}
  /\ UNCHANGED <<typing, search, debouncing, standing, onPage, loadingEvents, gotEvents, pageCount,
                 asked, newest, queried, askFailed>>

RetryAnswered(sel) ==
  /\ MayAsk /\ sel \in resending
  /\ resending' = resending \ {sel}
  /\ loadingEvents' = TRUE /\ asked' = Append(asked, sel) /\ queried' = Queried(asked, sel)
  /\ newest' = IF sel.query = search /\ sel.status = standing THEN "pending" ELSE "outdated"
  /\ UNCHANGED <<typing, search, debouncing, standing, onPage, gotEvents, pageCount, askFailed>>

RetryFails(sel) ==
  /\ sel \in resending
  /\ resending' = resending \ {sel}
  /\ UNCHANGED <<typing, search, debouncing, standing, onPage, loadingEvents, gotEvents, pageCount,
                 asked, newest, queried, askFailed>>

EventsNext ==
  \/ Debounced \/ RetryDelivery
  \/ \E q \in Queries : SearchChange(q)
  \/ \E s \in Standings : StatusChange(s)
  \/ \E p \in 1 .. LastEventPage : GoToPage(p)
  \/ \E i \in DOMAIN asked : EventsFail(i) \/ \E n \in 0 .. LastEventPage : EventsAnswered(i, n)
  \/ \E sel \in resending : RetryAnswered(sel) \/ RetryFails(sel)

EventsSpec == EventsInit /\ [][EventsNext]_eventListVars

-----------------------------------------------------------------------------
(* Type invariant and properties *)

EventsTypeOK ==
  /\ typing \in Queries /\ search \in Queries /\ debouncing \in BOOLEAN
  /\ standing \in Standings /\ onPage \in 1 .. LastEventPage
  /\ loadingEvents \in BOOLEAN
  /\ gotEvents \in Selections \cup {NoneGot} /\ pageCount \in 0 .. LastEventPage
  /\ asked \in Seq(Selections) /\ Len(asked) <= MaxQueried
  /\ newest \in {"pending", "shown", "overtaken", "outdated", "failed"}
  /\ queried \subseteq Lists /\ askFailed \in BOOLEAN
  /\ resending \subseteq Selections

\* When every request has ended the rows are those of the page the paging shows, even
\* if answers overtook each other, unless one failed since.  They are those of the search
\* and the status too, if the newest request was answered last.  The code does not make
\* it: rows of an answer that overtook it, or of a row's retry that was clicked under
\* another search or status, stay; but these too are of a search and a status asked for
\* since nothing was under way, unless a request failed.
SettledEventsShowSelection ==
  asked = <<>> =>
    /\ ~loadingEvents
    /\ ~askFailed => gotEvents.page = onPage /\ ListOf(gotEvents) \in queried
    /\ newest = "shown" => ListOf(gotEvents) = [query |-> search, status |-> standing]
=============================================================================
