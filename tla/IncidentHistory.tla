--------------------------- MODULE IncidentHistory ----------------------------
(***************************************************************************)
(* The incident history of the panel (static/admin/js/incident_history.js) *)
(* as the alerts page and the detail of an agent mount it.  One abort      *)
(* controller covers the list, the events of expanded incidents, the       *)
(* summary and the retry of a notification: whatever starts a load cuts    *)
(* off everything else that is on its way.  One incident with one failed   *)
(* notification stands for the rows of a page.                             *)
(***************************************************************************)
EXTENDS Naturals, FiniteSets

CONSTANTS Filters,   \* status, query, page size and node of the filter bar
          Nodes,     \* agents whose detail may mount the history
          NoNode,
          MaxPage,   \* bound: pages the server has
          NoKey      \* no load, or nothing shown

ASSUME IncidentHistoryAssumption == NoNode \notin Nodes /\ MaxPage \in Nat \ {0}

VARIABLES nodeMode,    \* mounted in the detail of agents, not on the alerts page
          page, filter, node, parentOpen, active, hidden,
          total,       \* totalPages as the page knows it
          load,        \* what the load in force waits for, and what it asked for
          loading,     \* its buttons are disabled
          aborted,     \* the controller was aborted and no load has begun since
          shown,       \* the selection whose rows the list shows
          failed,      \* the message offers Retry
          expanded,    \* the incident is open
          events,      \* its events: status as read, and the retry button
          fetching,    \* events asked for by the user: status as read so far
          post,        \* the retry request
          retrying,    \* the event is in the set of that name
          pages, status  \* at the server: pages, and the notification's status

viewVars   == <<nodeMode, page, filter, node, parentOpen, active, hidden>>
eventVars  == <<expanded, events, fetching>>
postVars   == <<post, retrying>>
serverVars == <<pages, status>>
vars == <<viewVars, total, load, loading, aborted, shown, failed, eventVars,
          postVars, serverVars>>

Keys     == [page : 1 .. MaxPage, filter : Filters, node : Nodes \cup {NoNode}]
Statuses == {"failed", "queued", "success"}
NoEvents == [status |-> "none", button |-> "none"]
Idle     == [stage |-> "none", key |-> NoKey]
Key      == [page |-> page, filter |-> filter, node |-> node]

Visible == active /\ ~hidden /\ (nodeMode => node # NoNode /\ parentOpen)

Init ==
  /\ nodeMode \in BOOLEAN
  /\ page = 1 /\ filter \in Filters /\ node = NoNode /\ parentOpen = FALSE
  /\ active = TRUE /\ hidden = FALSE
  /\ total = 0
  /\ load = IF nodeMode THEN Idle ELSE [stage |-> "list", key |-> Key]
  /\ loading = ~nodeMode /\ aborted = nodeMode
  /\ shown = NoKey /\ failed = FALSE
  /\ expanded = FALSE /\ events = NoEvents /\ fetching = "none"
  /\ post = "none" /\ retrying = FALSE
  /\ pages \in 0 .. MaxPage /\ status = "failed"

-----------------------------------------------------------------------------
(* Loads *)

\* Aborting the controller rejects the events and the retry under way, and ends
\* the retry that waits for a load; the button that was pressed stays as it is,
\* and what the server got of the retry stays done.
AbortRequests ==
  /\ fetching' = "none"
  /\ post' = "none" /\ retrying' = FALSE

BeginLoad(key) ==
  /\ load' = [stage |-> "list", key |-> key]
  /\ loading' = TRUE /\ aborted' = FALSE /\ failed' = FALSE
  /\ AbortRequests

\* load(): nothing in a closed panel, even when a button or a timer asks.
LoadList(key) ==
  IF nodeMode /\ (key.node = NoNode \/ ~parentOpen')
  THEN UNCHANGED <<load, loading, aborted, failed, fetching, postVars>>
  ELSE BeginLoad(key)

GiveUp ==
  /\ load' = Idle /\ loading' = FALSE /\ aborted' = TRUE
  /\ AbortRequests

\* Rows that are what they were are left alone; others are drawn without events.
DrawRows ==
  \/ events' = NoEvents
  \/ shown = load.key /\ UNCHANGED events

\* The list's answer: a page beyond the end asks for the last one instead.
ListAnswer ==
  /\ load.stage = "list"
  /\ total' = pages
  /\ IF pages > 0 /\ page > pages
     THEN /\ page' = pages
          /\ load' = [load EXCEPT !.key.page = pages]
          /\ fetching' = "none" /\ post' = "none"
          /\ retrying' = (retrying /\ post = "none")
          /\ UNCHANGED <<loading, aborted, failed, shown, events>>
     ELSE /\ page' = IF pages = 0 THEN 1 ELSE page
          /\ shown' = [load.key EXCEPT !.page = page']
          /\ DrawRows
          /\ loading' = FALSE /\ failed' = FALSE
          /\ load' = [load EXCEPT !.stage = IF expanded THEN "events" ELSE "summary"]
          /\ UNCHANGED <<aborted, fetching, postVars>>
  /\ UNCHANGED <<nodeMode, filter, node, parentOpen, active, hidden, expanded, serverVars>>

\* The events as the server has them; one that failed has a retry button, which
\* is disabled while its retry is under way.
DrawEvents(read) ==
  events' = [status |-> read,
             button |-> IF read # "failed" THEN "none"
                        ELSE IF retrying THEN "disabled" ELSE "ready"]

\* The load goes on with the events of the open incident, then the summary; on
\* the detail of an agent there is no summary.
EventsLoaded ==
  /\ load.stage = "events"
  /\ IF expanded THEN DrawEvents(status) ELSE UNCHANGED events
  /\ load' = [load EXCEPT !.stage = "summary"]
  /\ UNCHANGED <<viewVars, total, loading, aborted, shown, failed, expanded, fetching,
                 postVars, serverVars>>

\* The retry that waited for the load is over.
EndRetry == retrying' = (post # "none")

SummaryLoaded(ok) ==
  /\ load.stage = "summary"
  /\ failed' = (failed \/ (~ok /\ ~nodeMode))
  /\ load' = Idle
  /\ EndRetry
  /\ UNCHANGED <<viewVars, total, loading, aborted, shown, eventVars, post, serverVars>>

\* The list could not be loaded, or the events; the latter say so themselves.
LoadFails ==
  \/ /\ load.stage = "list"
     /\ load' = Idle /\ loading' = FALSE /\ failed' = TRUE
     /\ EndRetry
     /\ UNCHANGED <<viewVars, total, aborted, shown, eventVars, post, serverVars>>
  \/ /\ load.stage = "events"
     /\ load' = [load EXCEPT !.stage = "summary"]
     /\ events' = IF expanded THEN NoEvents ELSE events
     /\ UNCHANGED <<viewVars, total, loading, aborted, shown, failed, expanded, fetching,
                    postVars, serverVars>>

-----------------------------------------------------------------------------
(* What starts a load *)

\* The 1 s timer: every 30 s, or 3 s while a delivery is under way.
TimerRefresh ==
  /\ Visible /\ ~loading
  /\ UNCHANGED <<viewVars, total, shown, expanded, events, serverVars>>
  /\ LoadList(Key)

\* A new filter starts at the first page with every incident closed; the delay
\* of the search may end when the page is hidden or the panel is closed.
ChangeFilter(f) ==
  /\ filter' = f /\ page' = 1
  /\ UNCHANGED <<nodeMode, node, parentOpen, active, hidden>>
  /\ expanded' = FALSE
  /\ LoadList(Key')
  /\ UNCHANGED <<total, shown, events, serverVars>>

\* Mutant of Turn: the page is turned and the list is left to the timer.
TurnOnly(to) ==
  /\ Visible /\ ~loading
  /\ to \in {page - 1, page + 1} /\ 1 <= to /\ to <= (IF to < page THEN to ELSE total)
  /\ page' = to
  /\ expanded' = FALSE
  /\ UNCHANGED <<load, loading, aborted, failed, fetching, postVars, nodeMode, filter, node,
                 parentOpen, active, hidden, total, shown, events, serverVars>>

\* Previous and next are disabled while the list is loading, and no longer.
Turn(to) ==
  /\ Visible /\ ~loading
  /\ to \in {page - 1, page + 1} /\ 1 <= to /\ to <= (IF to < page THEN to ELSE total)
  /\ page' = to
  /\ UNCHANGED <<nodeMode, filter, node, parentOpen, active, hidden>>
  /\ expanded' = FALSE
  /\ LoadList(Key')
  /\ UNCHANGED <<total, shown, events, serverVars>>

\* Refresh, or the message's Retry.
Refresh ==
  /\ Visible
  /\ ~loading \/ failed
  /\ UNCHANGED <<viewVars, total, shown, expanded, events, serverVars>>
  /\ LoadList(Key)

Hide ==
  /\ ~hidden
  /\ hidden' = TRUE
  /\ GiveUp
  /\ UNCHANGED <<nodeMode, page, filter, node, parentOpen, active, total, shown, failed, expanded,
                 events, serverVars>>

\* What hiding the tab cut off is loaded again.
Unhide ==
  /\ hidden
  /\ hidden' = FALSE
  /\ UNCHANGED <<nodeMode, page, filter, node, parentOpen, active>>
  /\ IF Visible' THEN LoadList(Key)
     ELSE UNCHANGED <<load, loading, aborted, failed, fetching, postVars>>
  /\ UNCHANGED <<total, shown, expanded, events, serverVars>>

\* The panel's views are switched: deactivate and activate.
Deactivate ==
  /\ active
  /\ active' = FALSE
  /\ GiveUp
  /\ UNCHANGED <<nodeMode, page, filter, node, parentOpen, hidden, total, shown, failed, expanded,
                 events, serverVars>>

Activate ==
  /\ active' = TRUE
  /\ UNCHANGED <<nodeMode, page, filter, node, parentOpen, hidden>>
  /\ IF Visible' THEN LoadList(Key)
     ELSE UNCHANGED <<load, loading, aborted, failed, fetching, postVars>>
  /\ UNCHANGED <<total, shown, expanded, events, serverVars>>

\* setNode: the detail shows another agent; the panel starts closed and empty.
SetNode(n) ==
  /\ nodeMode
  /\ node' = n /\ parentOpen' = FALSE
  /\ page' = 1 /\ filter' \in Filters
  /\ GiveUp
  /\ total' = 0 /\ shown' = NoKey /\ failed' = FALSE
  /\ expanded' = FALSE /\ events' = NoEvents
  /\ UNCHANGED <<nodeMode, active, hidden, serverVars>>

\* Opening the panel loads; closing it aborts, and leaves its buttons as they are.
TogglePanel ==
  /\ nodeMode /\ node # NoNode /\ ~hidden /\ active
  /\ parentOpen' = ~parentOpen
  /\ UNCHANGED <<nodeMode, page, filter, node, active, hidden>>
  /\ IF parentOpen'
     THEN LoadList(Key)
     ELSE /\ load' = Idle /\ aborted' = TRUE /\ AbortRequests
          /\ UNCHANGED <<loading, failed>>
  /\ UNCHANGED <<total, shown, expanded, events, serverVars>>

-----------------------------------------------------------------------------
(* Events and retries *)

\* Opening an incident asks for its events once; a tab that has aborted its
\* controller asks for none.
ToggleIncident ==
  /\ Visible /\ shown # NoKey
  /\ expanded' = ~expanded
  /\ fetching' = IF ~expanded /\ events = NoEvents /\ ~aborted THEN "sent" ELSE fetching
  /\ UNCHANGED <<viewVars, total, load, loading, aborted, shown, failed, events, postVars,
                 serverVars>>

\* Load more events, or Retry after a failure.
MoreEvents ==
  /\ Visible /\ expanded /\ ~aborted /\ fetching = "none"
  /\ fetching' = "sent"
  /\ UNCHANGED <<viewVars, total, load, loading, aborted, shown, failed, expanded, events,
                 postVars, serverVars>>

\* External: the server reads the events for the answer.
EventsRead ==
  /\ fetching = "sent"
  /\ fetching' = status
  /\ UNCHANGED <<viewVars, total, load, loading, aborted, shown, failed, expanded, events,
                 postVars, serverVars>>

\* The answer is drawn, however old.
EventsAnswer ==
  /\ fetching \in Statuses
  /\ DrawEvents(fetching)
  /\ fetching' = "none"
  /\ UNCHANGED <<viewVars, total, load, loading, aborted, shown, failed, expanded, postVars,
                 serverVars>>

\* The button of a failed notification; an unknown one asks first.
PressRetry ==
  /\ Visible /\ expanded /\ events.button = "ready" /\ ~retrying
  /\ events' = [events EXCEPT !.button = "queueing"]
  /\ post' = "sent" /\ retrying' = TRUE
  /\ UNCHANGED <<viewVars, total, load, loading, aborted, shown, failed, expanded, fetching,
                 serverVars>>

\* External: the server queues the retry, or refuses it.
ServerRetries ==
  /\ post = "sent"
  /\ \/ status = "failed" /\ status' = "queued" /\ post' = "queued"
     \/ post' = "refused" /\ UNCHANGED status
  /\ UNCHANGED <<viewVars, total, load, loading, aborted, shown, failed, eventVars, retrying,
                 pages>>

\* A retry that was queued loads the list again, and counts until that is done.
RetryQueued ==
  /\ post = "queued"
  /\ load' = [stage |-> "list", key |-> Key]
  /\ loading' = TRUE /\ aborted' = FALSE /\ failed' = FALSE
  /\ fetching' = "none"
  /\ post' = "none" /\ retrying' = TRUE
  /\ UNCHANGED <<viewVars, total, shown, expanded, events, serverVars>>

\* One that was refused enables the button it was pressed on, unless the events
\* were drawn again since.
RetryRefused ==
  /\ post = "refused"
  /\ post' = "none" /\ retrying' = FALSE
  /\ events' = IF events.button = "queueing" THEN [events EXCEPT !.button = "ready"]
               ELSE events
  /\ UNCHANGED <<viewVars, total, load, loading, aborted, shown, failed, expanded, fetching,
                 serverVars>>

\* External: the delivery ends, or its retry fails again; incidents come and go.
DeliveryEnds ==
  /\ status = "queued"
  /\ status' \in {"failed", "success"}
  /\ UNCHANGED <<viewVars, total, load, loading, aborted, shown, failed, eventVars, postVars,
                 pages>>

IncidentsChange ==
  /\ pages' \in 0 .. MaxPage
  /\ UNCHANGED <<viewVars, total, load, loading, aborted, shown, failed, eventVars, postVars,
                 status>>

-----------------------------------------------------------------------------
User ==
  \/ \E f \in Filters : ChangeFilter(f)
  \/ \E to \in 1 .. MaxPage : Turn(to)
  \/ Refresh
  \/ Hide \/ Unhide \/ Deactivate \/ Activate
  \/ \E n \in Nodes : SetNode(n)
  \/ TogglePanel \/ ToggleIncident \/ MoreEvents \/ PressRetry

Answers ==
  \/ ListAnswer \/ EventsLoaded \/ LoadFails
  \/ \E ok \in BOOLEAN : SummaryLoaded(ok)
  \/ EventsRead \/ EventsAnswer
  \/ ServerRetries \/ RetryQueued \/ RetryRefused

Next == User \/ Answers \/ TimerRefresh \/ DeliveryEnds \/ IncidentsChange

Spec == Init /\ [][Next]_vars

\* The timer keeps running; requests are answered, and the answers of events
\* and summary time and again sooner than the timer cuts them off.
Fairness ==
  /\ WF_vars(TimerRefresh)
  /\ WF_vars(ListAnswer) /\ SF_vars(EventsLoaded)
  /\ SF_vars(\E ok \in BOOLEAN : SummaryLoaded(ok))
  /\ SF_vars(EventsRead) /\ SF_vars(EventsAnswer)
  /\ WF_vars(ServerRetries) /\ WF_vars(RetryQueued) /\ WF_vars(RetryRefused)

FairSpec == Spec /\ Fairness

-----------------------------------------------------------------------------
(* Properties *)

\* Types of the history's state.
HistoryTypeOK ==
  /\ page \in 1 .. MaxPage /\ filter \in Filters /\ node \in Nodes \cup {NoNode}
  /\ {nodeMode, parentOpen, active, hidden, loading, aborted, failed, expanded,
      retrying} \subseteq BOOLEAN
  /\ total \in 0 .. MaxPage /\ pages \in 0 .. MaxPage
  /\ load \in [stage : {"list", "events", "summary"}, key : Keys] \cup {Idle}
  /\ shown \in Keys \cup {NoKey}
  /\ events \in [status : Statuses \cup {"none"},
                 button : {"none", "ready", "queueing", "disabled"}]
  /\ fetching \in Statuses \cup {"none", "sent"}
  /\ post \in {"none", "sent", "queued", "refused"}
  /\ status \in Statuses

\* However filters, pages, agents, tabs and retries cut loads off, a history on
\* screen that waits for nothing shows the rows of its filters, its page and its
\* agent, or offers a Retry.
SettledHistoryShowsSelection ==
  Visible /\ load.stage # "list" /\ ~failed => shown = Key

\* A retry that was refused or cut off does not take its button away for good:
\* while a failed notification stays open on a visible page, its button can be
\* pressed again and again, as long as the loads go through.
RetryOfferedAgain ==
  /\ <>[](Visible /\ expanded /\ status = "failed")
  /\ <>[][~LoadFails]_vars
  => []<>(events.button = "ready" /\ ~retrying)
=============================================================================
