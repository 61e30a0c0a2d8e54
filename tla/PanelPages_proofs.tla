-------------------------- MODULE PanelPages_proofs ---------------------------
(***************************************************************************)
(* The pages with a script of their own and the parts of the Network view  *)
(* show what is selected in them, save what they show, and draw charts     *)
(* that do not contradict themselves, for any servers, rules, samples and  *)
(* labels.                                                                 *)
(*                                                                         *)
(* The incident history cancels its loads, so the one under way is for the *)
(* key of now.  What the forms hold is described as sets held once by      *)
(* sequences, and what a chart draws is compared for any samples, so that  *)
(* it does not matter how the samples came about.                          *)
(***************************************************************************)
EXTENDS PanelPages, FiniteSetTheorems, FunctionTheorems, SequenceTheorems,
        WellFoundedInduction, TLAPS
-----------------------------------------------------------------------------
(***************************************************************************)
(* The incident history.  The list that is being loaded is the one of the  *)
(* filters, page and agent of now (LoadIsForKey), and a panel that is      *)
(* closed loads nothing and sends nothing (ClosedIsIdle).                  *)
(***************************************************************************)
Closed == nodeMode /\ (node = NoNode \/ ~parentOpen)

LoadIsForKey == load.stage = "list" => load.key = Key
ClosedIsIdle == Closed => load = Idle /\ post = "none"

HistoryInv == HistoryTypeOK /\ LoadIsForKey /\ ClosedIsIdle /\ SettledHistoryShowsSelection

\* The types that the loads, the retries and the rest of a step are about.
SelectionTyped ==
  /\ page \in 1 .. MaxPage /\ filter \in Filters /\ node \in Nodes \cup {NoNode}
  /\ nodeMode \in BOOLEAN /\ parentOpen \in BOOLEAN /\ active \in BOOLEAN /\ hidden \in BOOLEAN
LoadTyped ==
  /\ load \in [stage : {"list", "events", "summary"}, key : Keys] \cup {Idle}
  /\ loading \in BOOLEAN /\ aborted \in BOOLEAN /\ failed \in BOOLEAN
RequestsTyped ==
  /\ fetching \in Statuses \cup {"none", "sent"}
  /\ post \in {"none", "sent", "queued", "refused"} /\ retrying \in BOOLEAN
EventsTyped ==
  /\ expanded \in BOOLEAN
  /\ events \in [status : Statuses \cup {"none"},
                 button : {"none", "ready", "queueing", "disabled"}]
RowsTyped ==
  /\ total \in 0 .. MaxPage /\ pages \in 0 .. MaxPage
  /\ shown \in Keys \cup {NoKey} /\ status \in Statuses

LEMMA HistoryTypes ==
  HistoryTypeOK <=> SelectionTyped /\ LoadTyped /\ RequestsTyped /\ EventsTyped /\ RowsTyped
  BY DEF HistoryTypeOK, SelectionTyped, LoadTyped, RequestsTyped, EventsTyped, RowsTyped

LEMMA KeyTyped ==
  ASSUME SelectionTyped
  PROVE  Key \in Keys /\ Key.page = page /\ Key.filter = filter /\ Key.node = node
  BY DEF SelectionTyped, Key, Keys

LEMMA NothingLoads == Idle.stage = "none" /\ NoEvents \in [status : Statuses \cup {"none"},
                                    button : {"none", "ready", "queueing", "disabled"}]
  BY DEF Idle, NoEvents

LEMMA FirstPage == 1 \in 1 .. MaxPage /\ 0 \in 0 .. MaxPage
  BY IncidentHistoryAssumption

LEMMA HistoryInvInit == Init => HistoryInv
<1> SUFFICES ASSUME Init PROVE HistoryInv
  OBVIOUS
<1>1. SelectionTyped
  BY FirstPage DEF Init, SelectionTyped
<1>2. LoadTyped
  BY <1>1, KeyTyped DEF Init, LoadTyped
<1>3. RequestsTyped /\ EventsTyped /\ RowsTyped
  BY FirstPage, NothingLoads DEF Init, RequestsTyped, EventsTyped, RowsTyped, Statuses
<1>4. LoadIsForKey /\ ClosedIsIdle
  BY NothingLoads DEF Init, LoadIsForKey, ClosedIsIdle, Closed
<1>5. SettledHistoryShowsSelection
  BY DEF Init, SettledHistoryShowsSelection, Visible
<1> QED
  BY <1>1, <1>2, <1>3, <1>4, <1>5, HistoryTypes DEF HistoryInv

\* What begins a load for what is selected then.
LEMMA BegunKeeps ==
  ASSUME SelectionTyped', ~Closed', BeginLoad(Key'), EventsTyped', RowsTyped'
  PROVE  HistoryInv'
<1>1. load'.stage = "list" /\ load'.key = Key' /\ load' = [stage |-> "list", key |-> Key']
  BY DEF BeginLoad
<1>2. Key' \in Keys
  BY KeyTyped DEF SelectionTyped, Key, Keys
<1>3. LoadTyped' /\ RequestsTyped'
  BY <1>1, <1>2 DEF BeginLoad, AbortRequests, LoadTyped, RequestsTyped
<1> QED
  BY <1>1, <1>3, HistoryTypes
     DEF HistoryInv, HistoryTypeOK, SelectionTyped, LoadTyped, RequestsTyped, EventsTyped,
         RowsTyped, LoadIsForKey, ClosedIsIdle, SettledHistoryShowsSelection

\* What begins none: what was loaded stays, and nothing is to be seen in a closed panel.
LEMMA ClosedKeeps ==
  ASSUME HistoryInv, SelectionTyped', EventsTyped', RowsTyped', Closed, Closed',
         UNCHANGED <<load, loading, aborted, failed, fetching, postVars>>
  PROVE  HistoryInv'
<1>1. LoadTyped' /\ RequestsTyped'
  BY HistoryTypes DEF HistoryInv, LoadTyped, RequestsTyped, postVars
<1>2. load = Idle /\ post = "none"
  BY DEF HistoryInv, ClosedIsIdle
<1>3. LoadIsForKey' /\ ClosedIsIdle'
  BY <1>2, NothingLoads DEF LoadIsForKey, ClosedIsIdle, postVars
<1>4. SettledHistoryShowsSelection'
  BY DEF SettledHistoryShowsSelection, Visible, Closed
<1> QED
  BY <1>1, <1>3, <1>4 DEF HistoryInv, HistoryTypeOK, SelectionTyped, LoadTyped, RequestsTyped,
                          EventsTyped, RowsTyped

\* load().
LEMMA LoadListKeeps ==
  ASSUME HistoryInv, SelectionTyped', EventsTyped', RowsTyped', LoadList(Key'),
         Closed' => Closed, nodeMode' = nodeMode
  PROVE  HistoryInv'
<1>1. Key'.node = node'
  BY DEF Key
<1>2. CASE Closed'
  <2>1. UNCHANGED <<load, loading, aborted, failed, fetching, postVars>>
    BY <1>1, <1>2 DEF LoadList, Closed
  <2> QED
    BY <1>2, <2>1, ClosedKeeps
<1>3. CASE ~Closed'
  <2>1. BeginLoad(Key')
    BY <1>1, <1>3 DEF LoadList, Closed
  <2> QED
    BY <1>3, <2>1, BegunKeeps
<1> QED
  BY <1>2, <1>3

\* What ends the load and is not seen.
LEMMA GivenUpKeeps ==
  ASSUME HistoryInv, SelectionTyped', EventsTyped', RowsTyped', load' = Idle, AbortRequests,
         loading' \in BOOLEAN, aborted' \in BOOLEAN, failed' \in BOOLEAN, ~Visible'
  PROVE  HistoryInv'
<1>1. LoadTyped' /\ RequestsTyped'
  BY DEF LoadTyped, RequestsTyped, AbortRequests
<1>2. LoadIsForKey' /\ ClosedIsIdle' /\ SettledHistoryShowsSelection'
  BY NothingLoads DEF LoadIsForKey, ClosedIsIdle, SettledHistoryShowsSelection, AbortRequests
<1> QED
  BY <1>1, <1>2 DEF HistoryInv, HistoryTypeOK, SelectionTyped, LoadTyped, RequestsTyped,
                    EventsTyped, RowsTyped

\* What leaves the controls and the load as they are.
LEMMA LoadStays ==
  ASSUME HistoryInv, EventsTyped', RowsTyped', RequestsTyped',
         UNCHANGED <<viewVars, load, loading, aborted, failed, shown>>,
         post = "none" => post' = "none"
  PROVE  HistoryInv'
<1>1. SelectionTyped' /\ LoadTyped'
  BY HistoryTypes DEF HistoryInv, SelectionTyped, LoadTyped, viewVars
<1>2. LoadIsForKey' /\ ClosedIsIdle' /\ SettledHistoryShowsSelection'
  BY DEF HistoryInv, LoadIsForKey, ClosedIsIdle, Closed, SettledHistoryShowsSelection, Visible,
         Key, viewVars
<1> QED
  BY <1>1, <1>2 DEF HistoryInv, HistoryTypeOK, SelectionTyped, LoadTyped, RequestsTyped,
                    EventsTyped, RowsTyped

\* What goes on with a load that is past its list.
LEMMA LoadGoesOn ==
  ASSUME HistoryInv, EventsTyped', RequestsTyped',
         load' \in [stage : {"events", "summary"}, key : Keys] \cup {Idle},
         failed' \in BOOLEAN, load.stage # "none",
         ~failed' => ~failed /\ load.stage # "list",
         post' = post,
         loading' \in BOOLEAN, UNCHANGED <<viewVars, shown, aborted, total, serverVars>>
  PROVE  HistoryInv'
<1>1. SelectionTyped' /\ LoadTyped' /\ RowsTyped'
  BY HistoryTypes DEF HistoryInv, SelectionTyped, LoadTyped, RowsTyped, viewVars, serverVars
<1>2. ~Closed /\ ~Closed'
  BY NothingLoads DEF HistoryInv, ClosedIsIdle, Closed, viewVars
<1>3. LoadIsForKey' /\ ClosedIsIdle' /\ SettledHistoryShowsSelection'
  BY <1>2, NothingLoads DEF HistoryInv, LoadIsForKey, ClosedIsIdle, SettledHistoryShowsSelection,
     Visible, Key, viewVars
<1> QED
  BY <1>1, <1>3 DEF HistoryInv, HistoryTypeOK, SelectionTyped, LoadTyped, RequestsTyped,
                    EventsTyped, RowsTyped

LEMMA DrawnTyped ==
  ASSUME NEW read \in Statuses, DrawEvents(read)
  PROVE  events' \in [status : Statuses \cup {"none"},
                      button : {"none", "ready", "queueing", "disabled"}]
  BY DEF DrawEvents

LEMMA ListAnswerKeeps ==
  ASSUME HistoryInv, ListAnswer
  PROVE  HistoryInv'
<1>1. SelectionTyped /\ LoadTyped /\ RequestsTyped /\ EventsTyped /\ RowsTyped
  BY HistoryTypes DEF HistoryInv
<1>2. /\ load = [stage |-> "list", key |-> Key] /\ Key \in Keys
      /\ Key = [page |-> page, filter |-> filter, node |-> node]
  BY <1>1, KeyTyped, NothingLoads DEF HistoryInv, LoadIsForKey, LoadTyped, ListAnswer, Key
<1>3. ~Closed
  BY NothingLoads DEF HistoryInv, ClosedIsIdle, ListAnswer
<1>4. /\ UNCHANGED <<nodeMode, filter, node, parentOpen, active, hidden, expanded, pages, status>>
      /\ total' = pages
  BY DEF ListAnswer, serverVars
<1>5. ~Closed'
  BY <1>3, <1>4 DEF Closed
<1>6. CASE pages > 0 /\ page > pages
  <2>1. /\ page' = pages /\ load' = [load EXCEPT !.key.page = pages]
        /\ fetching' = "none" /\ post' = "none" /\ retrying' = (retrying /\ post = "none")
        /\ UNCHANGED <<loading, aborted, failed, shown, events>>
    BY <1>6 DEF ListAnswer
  <2>2. pages \in 1 .. MaxPage
    BY <1>1, <1>6, IncidentHistoryAssumption DEF RowsTyped
  <2>3. SelectionTyped'
    BY <1>1, <1>4, <2>1, <2>2 DEF SelectionTyped
  <2>4. load' = [stage |-> "list", key |-> Key']
    BY <1>2, <1>4, <2>1 DEF Key
  <2>5. Key' \in Keys
    BY <2>3 DEF SelectionTyped, Key, Keys
  <2>6. LoadTyped'
    <3>1. load' \in [stage : {"list", "events", "summary"}, key : Keys]
      BY <2>4, <2>5
    <3> QED
      BY <1>1, <2>1, <3>1 DEF LoadTyped
  <2>7. RequestsTyped' /\ EventsTyped' /\ RowsTyped'
    BY <1>1, <1>4, <2>1 DEF RequestsTyped, EventsTyped, RowsTyped
  <2>8. LoadIsForKey' /\ ClosedIsIdle' /\ SettledHistoryShowsSelection'
    BY <1>5, <2>4 DEF LoadIsForKey, ClosedIsIdle, SettledHistoryShowsSelection
  <2> QED
    BY <2>3, <2>6, <2>7, <2>8 DEF HistoryInv, HistoryTypeOK, SelectionTyped, LoadTyped,
                                  RequestsTyped, EventsTyped, RowsTyped
<1>7. CASE ~(pages > 0 /\ page > pages)
  <2>1. /\ page' = IF pages = 0 THEN 1 ELSE page
        /\ shown' = [load.key EXCEPT !.page = page']
        /\ DrawRows /\ loading' = FALSE /\ failed' = FALSE
        /\ load' = [load EXCEPT !.stage = IF expanded THEN "events" ELSE "summary"]
        /\ UNCHANGED <<aborted, fetching, post, retrying>>
    BY <1>7 DEF ListAnswer, postVars
  <2>2. SelectionTyped'
    BY <1>1, <1>4, <2>1, FirstPage DEF SelectionTyped
  <2>3. shown' = Key'
    BY <1>2, <1>4, <2>1 DEF Key
  <2>4. Key' \in Keys
    BY <2>2 DEF SelectionTyped, Key, Keys
  <2>5. load' = [stage |-> IF expanded THEN "events" ELSE "summary", key |-> Key]
    BY <1>2, <2>1
  <2>6. LoadTyped'
    BY <1>1, <1>2, <2>1, <2>5 DEF LoadTyped
  <2>7. events' = NoEvents \/ events' = events
    BY <2>1 DEF DrawRows
  <2>8. RequestsTyped' /\ EventsTyped' /\ RowsTyped'
    BY <1>1, <1>4, <2>1, <2>3, <2>4, <2>7, NothingLoads DEF RequestsTyped, EventsTyped, RowsTyped
  <2>9. LoadIsForKey' /\ ClosedIsIdle' /\ SettledHistoryShowsSelection'
    BY <1>5, <2>3, <2>5 DEF LoadIsForKey, ClosedIsIdle, SettledHistoryShowsSelection
  <2> QED
    BY <2>2, <2>6, <2>8, <2>9 DEF HistoryInv, HistoryTypeOK, SelectionTyped, LoadTyped,
                                  RequestsTyped, EventsTyped, RowsTyped
<1> QED
  BY <1>6, <1>7

\* The rest of a load: the events, the summary, and what fails of them.
LEMMA LoadEndsKeep ==
  ASSUME HistoryInv, EventsLoaded \/ (\E ok \in BOOLEAN : SummaryLoaded(ok)) \/ LoadFails
  PROVE  HistoryInv'
<1>1. SelectionTyped /\ LoadTyped /\ RequestsTyped /\ EventsTyped /\ RowsTyped
  BY HistoryTypes DEF HistoryInv
<1>2. ASSUME load.stage = "events", load' = [load EXCEPT !.stage = "summary"]
      PROVE  load' \in [stage : {"events", "summary"}, key : Keys] \cup {Idle}
  BY <1>1, <1>2, NothingLoads DEF LoadTyped
<1>3. CASE EventsLoaded
  <2>1. EventsTyped'
    BY <1>1, <1>3, DrawnTyped DEF EventsLoaded, EventsTyped, RowsTyped
  <2> QED
    BY <1>1, <1>2, <1>3, <2>1, LoadGoesOn
       DEF EventsLoaded, RequestsTyped, LoadTyped, postVars
<1>4. ASSUME NEW ok \in BOOLEAN, SummaryLoaded(ok) PROVE HistoryInv'
  BY <1>1, <1>4, LoadGoesOn
     DEF SummaryLoaded, EndRetry, RequestsTyped, LoadTyped, EventsTyped, eventVars
<1>5. CASE LoadFails
  <2>1. CASE load.stage = "list"
    <3>1. /\ load' = Idle /\ loading' = FALSE /\ failed' = TRUE /\ EndRetry
          /\ UNCHANGED <<viewVars, total, aborted, shown, eventVars, post, serverVars>>
      BY <1>5, <2>1 DEF LoadFails
    <3>2. EventsTyped' /\ RequestsTyped'
      BY <1>1, <3>1 DEF EventsTyped, RequestsTyped, EndRetry, eventVars
    <3> QED
      BY <1>1, <2>1, <3>1, <3>2, LoadGoesOn DEF LoadTyped
  <2>2. CASE load.stage = "events"
    <3>1. /\ load' = [load EXCEPT !.stage = "summary"]
          /\ events' = IF expanded THEN NoEvents ELSE events
          /\ UNCHANGED <<viewVars, total, loading, aborted, shown, failed, expanded, fetching,
                         postVars, serverVars>>
      BY <1>5, <2>2 DEF LoadFails
    <3>2. EventsTyped' /\ RequestsTyped'
      BY <1>1, <3>1, NothingLoads DEF EventsTyped, RequestsTyped, postVars
    <3> QED
      BY <1>1, <1>2, <2>2, <3>1, <3>2, LoadGoesOn DEF LoadTyped, postVars
  <2> QED
    BY <1>5, <2>1, <2>2 DEF LoadFails
<1> QED
  BY <1>3, <1>4, <1>5

\* The timer, the filters, the page and its buttons, and what comes back on screen.
LEMMA LoadersKeep ==
  ASSUME HistoryInv,
         \/ TimerRefresh \/ (\E f \in Filters : ChangeFilter(f))
         \/ (\E to \in 1 .. MaxPage : Turn(to)) \/ Refresh
  PROVE  HistoryInv'
<1>1. SelectionTyped /\ LoadTyped /\ RequestsTyped /\ EventsTyped /\ RowsTyped
  BY HistoryTypes DEF HistoryInv
<1>2. CASE TimerRefresh \/ Refresh
  <2>1. UNCHANGED <<nodeMode, page, filter, node, parentOpen, active, hidden, total, shown,
                    expanded, events, pages, status>>
        /\ LoadList(Key)
    BY <1>2 DEF TimerRefresh, Refresh, viewVars, serverVars
  <2>2. Key' = Key /\ (Closed' => Closed)
    BY <2>1 DEF Key, Closed
  <2>3. SelectionTyped' /\ EventsTyped' /\ RowsTyped'
    BY <1>1, <2>1 DEF SelectionTyped, EventsTyped, RowsTyped
  <2>4. LoadList(Key')
    BY <2>1, <2>2
  <2> QED
    BY <2>1, <2>2, <2>3, <2>4, LoadListKeeps
<1>3. ASSUME NEW f \in Filters, ChangeFilter(f) PROVE HistoryInv'
  <2>1. /\ UNCHANGED <<nodeMode, node, parentOpen, active, hidden, total, shown, events, pages,
                       status>>
        /\ filter' = f /\ page' = 1 /\ expanded' = FALSE /\ LoadList(Key')
    BY <1>3 DEF ChangeFilter, serverVars
  <2>2. Closed' => Closed
    BY <2>1 DEF Closed
  <2>3. SelectionTyped' /\ EventsTyped' /\ RowsTyped'
    BY <1>1, <2>1, FirstPage DEF SelectionTyped, EventsTyped, RowsTyped
  <2> QED
    BY <2>1, <2>2, <2>3, LoadListKeeps
<1>4. ASSUME NEW to \in 1 .. MaxPage, Turn(to) PROVE HistoryInv'
  <2>1. /\ UNCHANGED <<nodeMode, filter, node, parentOpen, active, hidden, total, shown, events,
                       pages, status>>
        /\ page' = to /\ expanded' = FALSE /\ LoadList(Key')
    BY <1>4 DEF Turn, serverVars
  <2>2. Closed' => Closed
    BY <2>1 DEF Closed
  <2>3. SelectionTyped' /\ EventsTyped' /\ RowsTyped'
    BY <1>1, <2>1 DEF SelectionTyped, EventsTyped, RowsTyped
  <2> QED
    BY <2>1, <2>2, <2>3, LoadListKeeps
<1> QED
  BY <1>2, <1>3, <1>4

\* What takes the history off the screen, or puts it back on it.
LEMMA ScreenKeeps ==
  ASSUME HistoryInv, Hide \/ Unhide \/ Deactivate \/ Activate
  PROVE  HistoryInv'
<1>1. SelectionTyped /\ LoadTyped /\ RequestsTyped /\ EventsTyped /\ RowsTyped
  BY HistoryTypes DEF HistoryInv
<1>2. UNCHANGED <<nodeMode, page, filter, node, parentOpen, total, shown, expanded, events, pages,
                  status>>
  BY DEF Hide, Unhide, Deactivate, Activate, serverVars
<1>3. Key' = Key /\ (Closed' => Closed)
  BY <1>2 DEF Key, Closed
<1>4. EventsTyped' /\ RowsTyped'
  BY <1>1, <1>2 DEF EventsTyped, RowsTyped
<1>5. CASE Hide \/ Deactivate
  <2>1. /\ active' \in BOOLEAN /\ hidden' \in BOOLEAN /\ ~Visible'
        /\ GiveUp /\ failed' = failed
    BY <1>1, <1>5 DEF Hide, Deactivate, Visible, SelectionTyped
  <2>2. SelectionTyped'
    BY <1>1, <1>2, <2>1 DEF SelectionTyped
  <2> QED
    BY <1>1, <1>4, <2>1, <2>2, GivenUpKeeps DEF GiveUp, LoadTyped
<1>6. CASE Unhide \/ Activate
  <2>1. /\ active' \in BOOLEAN /\ hidden' \in BOOLEAN
        /\ IF Visible' THEN LoadList(Key)
           ELSE UNCHANGED <<load, loading, aborted, failed, fetching, postVars>>
    BY <1>1, <1>6 DEF Unhide, Activate, SelectionTyped
  <2>2. SelectionTyped'
    BY <1>1, <1>2, <2>1 DEF SelectionTyped
  <2>3. CASE Visible'
    <3>1. LoadList(Key')
      BY <1>3, <2>1, <2>3
    <3> QED
      BY <1>2, <1>3, <1>4, <2>2, <3>1, LoadListKeeps
  <2>4. CASE ~Visible'
    <3>1. UNCHANGED <<load, loading, aborted, failed, fetching, post, retrying>>
      BY <2>1, <2>4 DEF postVars
    <3>2. LoadTyped' /\ RequestsTyped'
      BY <1>1, <3>1 DEF LoadTyped, RequestsTyped
    <3>3. LoadIsForKey' /\ ClosedIsIdle' /\ SettledHistoryShowsSelection'
      BY <1>2, <1>3, <2>4, <3>1
         DEF HistoryInv, LoadIsForKey, ClosedIsIdle, SettledHistoryShowsSelection
    <3> QED
      BY <1>4, <2>2, <3>2, <3>3 DEF HistoryInv, HistoryTypeOK, SelectionTyped, LoadTyped,
                                    RequestsTyped, EventsTyped, RowsTyped
  <2> QED
    BY <2>3, <2>4
<1> QED
  BY <1>5, <1>6

LEMMA PanelKeeps ==
  ASSUME HistoryInv, (\E n \in Nodes : SetNode(n)) \/ TogglePanel
  PROVE  HistoryInv'
<1>1. SelectionTyped /\ LoadTyped /\ RequestsTyped /\ EventsTyped /\ RowsTyped
  BY HistoryTypes DEF HistoryInv
<1>2. ASSUME NEW n \in Nodes, SetNode(n) PROVE HistoryInv'
  <2>1. /\ UNCHANGED <<nodeMode, active, hidden, pages, status>> /\ nodeMode
        /\ node' = n /\ parentOpen' = FALSE /\ page' = 1 /\ filter' \in Filters
        /\ total' = 0 /\ shown' = NoKey /\ failed' = FALSE
        /\ expanded' = FALSE /\ events' = NoEvents /\ GiveUp
    BY <1>2 DEF SetNode, serverVars
  <2>2. SelectionTyped' /\ EventsTyped' /\ RowsTyped'
    BY <1>1, <2>1, FirstPage, NothingLoads DEF SelectionTyped, EventsTyped, RowsTyped
  <2>3. ~Visible'
    BY <2>1 DEF Visible
  <2> QED
    BY <2>1, <2>2, <2>3, GivenUpKeeps DEF GiveUp
<1>3. CASE TogglePanel
  <2>1. /\ UNCHANGED <<nodeMode, page, filter, node, active, hidden, total, shown, expanded, events,
                       pages, status>>
        /\ nodeMode /\ node # NoNode /\ parentOpen' = ~parentOpen
        /\ IF parentOpen' THEN LoadList(Key)
           ELSE load' = Idle /\ aborted' = TRUE /\ AbortRequests /\ UNCHANGED <<loading, failed>>
    BY <1>3 DEF TogglePanel, serverVars
  <2>2. SelectionTyped' /\ EventsTyped' /\ RowsTyped' /\ Key' = Key
    BY <1>1, <2>1 DEF SelectionTyped, EventsTyped, RowsTyped, Key
  <2>3. CASE parentOpen'
    <3>1. LoadList(Key') /\ ~Closed'
      BY <2>1, <2>2, <2>3 DEF Closed
    <3> QED
      BY <2>1, <2>2, <3>1, LoadListKeeps
  <2>4. CASE ~parentOpen'
    <3>1. ~Visible'
      BY <2>1, <2>4 DEF Visible
    <3>2. /\ load' = Idle /\ aborted' \in BOOLEAN /\ AbortRequests
          /\ loading' \in BOOLEAN /\ failed' \in BOOLEAN
      BY <1>1, <2>1, <2>4 DEF LoadTyped
    <3> QED
      BY <2>2, <3>1, <3>2, GivenUpKeeps
  <2> QED
    BY <2>3, <2>4
<1> QED
  BY <1>2, <1>3

\* The events of an incident, and a retry up to what the server makes of it.
LEMMA IncidentKeeps ==
  ASSUME HistoryInv,
         \/ ToggleIncident \/ MoreEvents \/ EventsRead \/ EventsAnswer \/ PressRetry
         \/ ServerRetries \/ RetryRefused
  PROVE  HistoryInv'
<1>1. SelectionTyped /\ LoadTyped /\ RequestsTyped /\ EventsTyped /\ RowsTyped
  BY HistoryTypes DEF HistoryInv
<1>2. UNCHANGED <<viewVars, load, loading, aborted, failed, shown, total, pages>>
  BY DEF ToggleIncident, MoreEvents, EventsRead, EventsAnswer, PressRetry, ServerRetries,
         RetryRefused, serverVars
<1>3. CASE ToggleIncident \/ MoreEvents \/ EventsRead
  <2>1. /\ expanded' \in BOOLEAN /\ fetching' \in Statuses \cup {"none", "sent"}
        /\ UNCHANGED <<events, post, retrying, status>>
    BY <1>1, <1>3 DEF ToggleIncident, MoreEvents, EventsRead, EventsTyped, RequestsTyped,
                      RowsTyped, postVars, serverVars
  <2> QED
    BY <1>1, <1>2, <2>1, LoadStays DEF EventsTyped, RequestsTyped, RowsTyped
<1>4. CASE EventsAnswer
  <2>1. events' \in [status : Statuses \cup {"none"},
                     button : {"none", "ready", "queueing", "disabled"}]
    BY <1>4, DrawnTyped DEF EventsAnswer
  <2>2. fetching' = "none" /\ UNCHANGED <<expanded, post, retrying, status>>
    BY <1>4 DEF EventsAnswer, postVars, serverVars
  <2> QED
    BY <1>1, <1>2, <2>1, <2>2, LoadStays DEF EventsTyped, RequestsTyped, RowsTyped
<1>5. CASE PressRetry
  <2>1. /\ Visible /\ events' = [events EXCEPT !.button = "queueing"]
        /\ post' = "sent" /\ retrying' = TRUE /\ UNCHANGED <<expanded, fetching, status>>
    BY <1>5 DEF PressRetry, serverVars
  <2>2. EventsTyped' /\ RequestsTyped' /\ RowsTyped' /\ SelectionTyped' /\ LoadTyped'
    BY <1>1, <1>2, <2>1 DEF EventsTyped, RequestsTyped, RowsTyped, SelectionTyped, LoadTyped,
                            viewVars
  <2>3. ~Closed'
    BY <1>2, <2>1 DEF Closed, Visible, viewVars
  <2>4. LoadIsForKey' /\ ClosedIsIdle' /\ SettledHistoryShowsSelection'
    BY <1>2, <2>3 DEF HistoryInv, LoadIsForKey, ClosedIsIdle, SettledHistoryShowsSelection,
                      Visible, Key, viewVars
  <2> QED
    BY <2>2, <2>4 DEF HistoryInv, HistoryTypeOK, SelectionTyped, LoadTyped, RequestsTyped,
                      EventsTyped, RowsTyped
<1>6. CASE ServerRetries
  <2>1. post = "sent" /\ post' \in {"queued", "refused"} /\ status' \in Statuses
        /\ UNCHANGED <<expanded, events, fetching, retrying>>
    BY <1>1, <1>6 DEF ServerRetries, eventVars, Statuses, RowsTyped
  <2> QED
    BY <1>1, <1>2, <2>1, LoadStays DEF EventsTyped, RequestsTyped, RowsTyped
<1>7. CASE RetryRefused
  <2>1. /\ post' = "none" /\ retrying' = FALSE /\ UNCHANGED <<expanded, fetching, status>>
        /\ events' \in {events, [events EXCEPT !.button = "ready"]}
    BY <1>7 DEF RetryRefused, serverVars
  <2>2. EventsTyped'
    BY <1>1, <2>1 DEF EventsTyped
  <2> QED
    BY <1>1, <1>2, <2>1, <2>2, LoadStays DEF RequestsTyped, RowsTyped
<1> QED
  BY <1>3, <1>4, <1>5, <1>6, <1>7

\* A queued retry loads the list; a panel that is closed has none.
LEMMA RetryQueuedKeeps ==
  ASSUME HistoryInv, RetryQueued
  PROVE  HistoryInv'
<1>1. SelectionTyped /\ LoadTyped /\ RequestsTyped /\ EventsTyped /\ RowsTyped
  BY HistoryTypes DEF HistoryInv
<1>2. /\ load' = [stage |-> "list", key |-> Key]
      /\ loading' = TRUE /\ aborted' = FALSE /\ failed' = FALSE
      /\ fetching' = "none" /\ post' = "none" /\ retrying' = TRUE
      /\ UNCHANGED <<viewVars, total, shown, expanded, events, serverVars>>
  BY DEF RetryQueued
<1>3. ~Closed /\ ~Closed'
  BY <1>2 DEF HistoryInv, ClosedIsIdle, Closed, RetryQueued, viewVars
<1>4. SelectionTyped' /\ EventsTyped' /\ RowsTyped' /\ RequestsTyped' /\ Key' = Key
  BY <1>1, <1>2 DEF SelectionTyped, EventsTyped, RowsTyped, RequestsTyped, Key, viewVars, serverVars
<1>5. LoadTyped'
  BY <1>1, <1>2, KeyTyped DEF LoadTyped
<1>6. LoadIsForKey' /\ ClosedIsIdle' /\ SettledHistoryShowsSelection'
  BY <1>2, <1>3, <1>4 DEF LoadIsForKey, ClosedIsIdle, SettledHistoryShowsSelection
<1> QED
  BY <1>4, <1>5, <1>6 DEF HistoryInv, HistoryTypeOK, SelectionTyped, LoadTyped,
                          RequestsTyped, EventsTyped, RowsTyped

LEMMA ServerKeeps ==
  ASSUME HistoryInv, DeliveryEnds \/ IncidentsChange
  PROVE  HistoryInv'
<1>1. RequestsTyped /\ EventsTyped /\ RowsTyped
  BY HistoryTypes DEF HistoryInv
<1>2. /\ UNCHANGED <<viewVars, total, load, loading, aborted, shown, failed, expanded, events,
                     fetching, post, retrying>>
      /\ status' \in Statuses /\ pages' \in 0 .. MaxPage
  BY <1>1 DEF DeliveryEnds, IncidentsChange, eventVars, postVars, Statuses, RowsTyped
<1> QED
  BY <1>1, <1>2, LoadStays DEF EventsTyped, RowsTyped, RequestsTyped

LEMMA HistoryStep == HistoryInv /\ [Next]_vars => HistoryInv'
<1> SUFFICES ASSUME HistoryInv, [Next]_vars PROVE HistoryInv'
  OBVIOUS
<1>1. CASE UNCHANGED vars
  <2>1. RequestsTyped /\ EventsTyped /\ RowsTyped
    BY HistoryTypes DEF HistoryInv
  <2> QED
    BY <1>1, <2>1, LoadStays DEF vars, eventVars, postVars, serverVars, EventsTyped, RowsTyped,
                                 RequestsTyped
<1>2. CASE Next
  BY <1>2, ListAnswerKeeps, LoadEndsKeep, LoadersKeep, ScreenKeeps, PanelKeeps, IncidentKeeps,
     RetryQueuedKeeps, ServerKeeps DEF Next, User, Answers
<1> QED
  BY <1>1, <1>2

-----------------------------------------------------------------------------
(* Counting from below: the elements of a finite set of numbers have the ranks from *)
(* one to the size of the set, each one rank.                                       *)
UpTo(S, m) == {n \in S : n <= m}

LEMMA Ranks ==
  ASSUME NEW S \in SUBSET Nat, IsFiniteSet(S)
  PROVE  /\ Cardinality(S) \in Nat
         /\ \A m \in S : Cardinality(UpTo(S, m)) \in 1 .. Cardinality(S)
         /\ \A m, n \in S : Cardinality(UpTo(S, m)) = Cardinality(UpTo(S, n)) => m = n
         /\ \A k \in 1 .. Cardinality(S) : \E m \in S : Cardinality(UpTo(S, m)) = k
<1>1. Cardinality(S) \in Nat
  BY FS_CardinalityType
<1>2. ASSUME NEW m \in S
      PROVE  IsFiniteSet(UpTo(S, m)) /\ Cardinality(UpTo(S, m)) \in 1 .. Cardinality(S)
  <2>1. UpTo(S, m) \in SUBSET S /\ m \in UpTo(S, m)
    BY DEF UpTo
  <2>2. IsFiniteSet(UpTo(S, m)) /\ Cardinality(UpTo(S, m)) <= Cardinality(S)
    BY <2>1, FS_Subset
  <2>3. Cardinality(UpTo(S, m)) \in Nat /\ Cardinality(UpTo(S, m)) # 0
    BY <2>1, <2>2, FS_CardinalityType, FS_EmptySet
  <2> QED
    BY <1>1, <2>2, <2>3
<1>3. ASSUME NEW m \in S, NEW n \in S, Cardinality(UpTo(S, m)) = Cardinality(UpTo(S, n)), m <= n
      PROVE  m = n
  <2>1. UpTo(S, m) \in SUBSET UpTo(S, n)
    <3>1. \A j \in S : j <= m => j <= n
      <4>1. m \in Nat /\ n \in Nat /\ \A j \in S : j \in Nat
        OBVIOUS
      <4> QED
        BY <1>3, <4>1
    <3> QED
      BY <3>1 DEF UpTo
  <2>2. UpTo(S, n) = UpTo(S, m)
    BY <1>2, <1>3, <2>1, FS_Subset
  <2>3. n \in UpTo(S, m)
    BY <2>2 DEF UpTo
  <2> QED
    BY <1>3, <2>3 DEF UpTo
<1>4. \A m, n \in S : Cardinality(UpTo(S, m)) = Cardinality(UpTo(S, n)) => m = n
  <2> SUFFICES ASSUME NEW m \in S, NEW n \in S,
                      Cardinality(UpTo(S, m)) = Cardinality(UpTo(S, n))
               PROVE  m = n
    OBVIOUS
  <2>1. m <= n \/ n <= m
    OBVIOUS
  <2> QED
    BY <1>3, <2>1
<1> DEFINE r == [m \in S |-> Cardinality(UpTo(S, m))]
<1>5. r \in Injection(S, 1 .. Cardinality(S))
  <2>1. r \in [S -> 1 .. Cardinality(S)]
    BY <1>2
  <2>2. \A m, n \in S : r[m] = r[n] => m = n
    BY <1>4
  <2> HIDE DEF r
  <2> QED
    BY <2>1, <2>2, Fun_IsInj
<1>6. IsFiniteSet(1 .. Cardinality(S)) /\ Cardinality(1 .. Cardinality(S)) = Cardinality(S)
  BY <1>1, FS_Interval
<1>7. r \in Surjection(S, 1 .. Cardinality(S))
  <2> HIDE DEF r
  <2> QED
    BY <1>5, <1>6, FS_Injection
<1>8. \A k \in 1 .. Cardinality(S) : \E m \in S : r[m] = k
  <2> HIDE DEF r
  <2> QED
    BY <1>7, Fun_SurjectionProperties
<1> QED
  BY <1>1, <1>2, <1>4, <1>8

-----------------------------------------------------------------------------
(* Sequences as orders of a set: what they hold, and that they hold it once. *)
Once(s) == \A i, j \in DOMAIN s : s[i] = s[j] => i = j

LEMMA FunctionIsSequence ==
  ASSUME NEW T, NEW n \in Nat, NEW f \in [1 .. n -> T]
  PROVE  f \in Seq(T) /\ Len(f) = n /\ DOMAIN f = 1 .. n
<1>1. f \in Seq(T)
  BY SeqDef
<1>2. DOMAIN f = 1 .. n
  OBVIOUS
<1> QED
  BY <1>1, <1>2, LenProperties

LEMMA UpFromOne ==
  ASSUME NEW n \in Nat
  PROVE  IsFiniteSet(1 .. n) /\ Cardinality(1 .. n) = n
  BY FS_Interval

LEMMA HeldOnce ==
  ASSUME NEW T, NEW s \in Seq(T)
  PROVE  /\ IsFiniteSet(ToSet(s)) /\ ToSet(s) \subseteq T
         /\ Cardinality(ToSet(s)) = Len(s) <=> Once(s)
         /\ s # <<>> => ToSet(s) # {}
<1> DEFINE D == 1 .. Len(s)
           R == ToSet(s)
<1>0. DOMAIN s = D /\ Len(s) \in Nat /\ s = [i \in D |-> s[i]] /\ \A i \in D : s[i] \in T
  OBVIOUS
<1>1. /\ DOMAIN s = D /\ R \subseteq T /\ s \in [D -> R]
      /\ \A e \in R : \E i \in D : s[i] = e
      /\ s # <<>> => R # {}
  <2>1. R = {s[i] : i \in D}
    BY <1>0 DEF ToSet
  <2>2. s # <<>> => 1 \in D
    BY <1>0
  <2> HIDE DEF D, R
  <2> QED
    BY <1>0, <2>1, <2>2
<1>2. IsFiniteSet(D) /\ Cardinality(D) = Len(s)
  BY <1>0, UpFromOne
<1> HIDE DEF D, R
<1>3. s \in Surjection(D, R)
  BY <1>1, Fun_IsSurj
<1>4. IsFiniteSet(R) /\ (Cardinality(R) = Cardinality(D) <=> s \in Injection(D, R))
  BY <1>2, <1>3, FS_Surjection
<1>5. s \in Injection(D, R) <=> Once(s)
  <2>1. ASSUME s \in Injection(D, R) PROVE Once(s)
    BY <1>1, <2>1, Fun_InjectionProperties DEF Once
  <2>2. ASSUME Once(s) PROVE s \in Injection(D, R)
    <3>1. \A i, j \in D : s[i] = s[j] => i = j
      BY <1>1, <2>2 DEF Once
    <3> QED
      BY <1>1, <3>1, Fun_IsInj
  <2> QED
    BY <2>1, <2>2
<1> QED
  BY <1>1, <1>2, <1>4, <1>5 DEF R

LEMMA OrdersHoldOnce ==
  ASSUME NEW S, IsFiniteSet(S), NEW s \in SetToSeqs(S)
  PROVE  s \in Seq(S) /\ ToSet(s) = S /\ Len(s) = Cardinality(S)
<1> DEFINE n == Cardinality(S)
           D == 1 .. n
<1>1. n \in Nat
  BY FS_CardinalityType
<1>2. s \in [D -> S] /\ \A i, j \in D : i # j => s[i] # s[j]
  BY DEF SetToSeqs
<1>3. IsFiniteSet(D) /\ Cardinality(D) = n
  BY <1>1, UpFromOne
<1> HIDE DEF n
<1>4. s \in Seq(S) /\ Len(s) = n /\ DOMAIN s = D
  BY <1>1, <1>2, FunctionIsSequence
<1> HIDE DEF D
<1>5. s \in Injection(D, S)
  BY <1>2, Fun_IsInj
<1>6. s \in Surjection(D, S)
  BY <1>3, <1>5, FS_Injection DEF n
<1>7. ToSet(s) = S
  BY <1>2, <1>4, <1>6, Fun_SurjectionProperties DEF ToSet
<1> QED
  BY <1>4, <1>7 DEF n

LEMMA EntriesHold ==
  ASSUME NEW T, NEW s \in Seq(T), NEW places \in SUBSET (DOMAIN s)
  PROVE  /\ EntriesAt(s, places) \in Seq(T)
         /\ ToSet(EntriesAt(s, places)) = {s[i] : i \in places}
         /\ (\A i, j \in places : s[i] = s[j] => i = j) => Once(EntriesAt(s, places))
         /\ places = DOMAIN s => EntriesAt(s, places) = s
<1> DEFINE nth(k) == CHOOSE i \in places : Cardinality({j \in places : j <= i}) = k
           n == Cardinality(places)
           f == [k \in 1 .. n |-> s[nth(k)]]
<1>1. EntriesAt(s, places) = f
  BY DEF EntriesAt
<1>2. /\ places \in SUBSET (1 .. Len(s)) /\ places \in SUBSET Nat
      /\ DOMAIN s = 1 .. Len(s) /\ Len(s) \in Nat /\ \A i \in DOMAIN s : s[i] \in T
  <2>1. DOMAIN s = 1 .. Len(s) /\ Len(s) \in Nat /\ \A i \in DOMAIN s : s[i] \in T
    OBVIOUS
  <2>2. \A i \in 1 .. Len(s) : i \in Nat
    BY <2>1
  <2>3. places \in SUBSET (1 .. Len(s)) /\ places \in SUBSET Nat
    <3>1. places \in SUBSET (DOMAIN s) /\ DOMAIN s = 1 .. Len(s)
      BY <2>1
    <3>2. \A i \in places : i \in 1 .. Len(s)
      BY <3>1, Zenon
    <3> QED
      BY <2>2, <3>2, Zenon
  <2> QED
    BY <2>1, <2>3, Zenon
<1>3. IsFiniteSet(places)
  <2>1. IsFiniteSet(1 .. Len(s))
    BY <1>2, UpFromOne
  <2> QED
    BY <1>2, <2>1, FS_Subset
<1>4. n \in Nat
  BY <1>3, FS_CardinalityType
<1>5. \A i \in places : {j \in places : j <= i} = UpTo(places, i)
  BY DEF UpTo
<1> DEFINE rank(i) == Cardinality(UpTo(places, i))
<1>6. \A k \in 1 .. n : nth(k) \in places /\ rank(nth(k)) = k
  <2> SUFFICES ASSUME NEW k \in 1 .. n PROVE nth(k) \in places /\ rank(nth(k)) = k
    OBVIOUS
  <2>1. PICK i \in places : rank(i) = k
    BY <1>2, <1>3, Ranks
  <2>2. Cardinality({j \in places : j <= i}) = k
    BY <1>5, <2>1
  <2>3. nth(k) \in places /\ Cardinality({j \in places : j <= nth(k)}) = k
    BY <2>2
  <2> QED
    BY <1>5, <2>3
<1> HIDE DEF nth
<1>7. \A i \in places : rank(i) \in 1 .. n /\ nth(rank(i)) = i
  <2> SUFFICES ASSUME NEW i \in places PROVE rank(i) \in 1 .. n /\ nth(rank(i)) = i
    OBVIOUS
  <2>1. rank(i) \in 1 .. n
    BY <1>2, <1>3, Ranks
  <2>2. nth(rank(i)) \in places /\ rank(nth(rank(i))) = rank(i)
    BY <1>6, <2>1
  <2>3. \A k \in places : rank(k) = rank(i) => k = i
    BY <1>2, <1>3, Ranks
  <2> QED
    BY <2>1, <2>2, <2>3
<1>8. ASSUME places = DOMAIN s, NEW i \in places PROVE rank(i) = i
  <2>1. i \in Nat /\ UpTo(places, i) = 1 .. i
    BY <1>2, <1>8 DEF UpTo
  <2> QED
    BY <2>1, UpFromOne
<1>9. places = DOMAIN s => n = Len(s)
  BY <1>2, UpFromOne
<1> HIDE DEF rank, n
<1>10. /\ f \in [1 .. n -> T] /\ DOMAIN f = 1 .. n
       /\ \A k \in 1 .. n : f[k] = s[nth(k)] /\ nth(k) \in places
  BY <1>2, <1>6
<1>11. ASSUME places = DOMAIN s PROVE f = s
  <2>1. \A k \in 1 .. n : nth(k) = k
    BY <1>2, <1>6, <1>8, <1>9, <1>11
  <2>2. DOMAIN s = 1 .. n /\ s = [k \in 1 .. n |-> s[k]]
    BY <1>2, <1>9, <1>11
  <2> QED
    BY <2>1, <2>2
<1> HIDE DEF f
<1>12. f \in Seq(T)
  BY <1>4, <1>10, FunctionIsSequence
<1>13. ToSet(f) = {s[i] : i \in places}
  <2>1. \A i \in places : \E k \in 1 .. n : f[k] = s[i]
    BY <1>7, <1>10
  <2>2. ToSet(f) = {f[k] : k \in 1 .. n}
    BY <1>10 DEF ToSet
  <2> QED
    BY <1>10, <2>1, <2>2
<1>14. ASSUME \A i, j \in places : s[i] = s[j] => i = j PROVE Once(f)
  <2> SUFFICES ASSUME NEW k \in 1 .. n, NEW l \in 1 .. n, f[k] = f[l] PROVE k = l
    BY <1>10 DEF Once
  <2>1. nth(k) = nth(l)
    BY <1>10, <1>14
  <2> QED
    BY <1>6, <2>1
<1> QED
  BY <1>1, <1>11, <1>12, <1>13, <1>14

LEMMA FilteredHolds ==
  ASSUME NEW T, NEW s \in Seq(T), NEW S
  PROVE  /\ Filtered(s, S) \in Seq(T)
         /\ ToSet(Filtered(s, S)) = ToSet(s) \cap S
         /\ Once(s) => Once(Filtered(s, S))
         /\ ToSet(s) \subseteq S => Filtered(s, S) = s
<1> DEFINE places == {i \in DOMAIN s : s[i] \in S}
<1>1. places \in SUBSET (DOMAIN s) /\ Filtered(s, S) = EntriesAt(s, places)
  BY DEF Filtered
<1>2. {s[i] : i \in places} = ToSet(s) \cap S
  BY DEF ToSet
<1>3. ToSet(s) \subseteq S => places = DOMAIN s
  BY DEF ToSet
<1>4. Once(s) => \A i, j \in places : s[i] = s[j] => i = j
  BY DEF Once
<1> HIDE DEF places
<1> QED
  BY <1>1, <1>2, <1>3, <1>4, EntriesHold

LEMMA NothingRepeated ==
  ASSUME NEW T, NEW s \in Seq(T), Once(s)
  PROVE  WithoutRepeats(s) = s
<1> DEFINE places == {i \in DOMAIN s : \A j \in DOMAIN s : s[j] = s[i] => i <= j}
<1>1. places = DOMAIN s
  <2> SUFFICES ASSUME NEW i \in DOMAIN s, NEW j \in DOMAIN s, s[j] = s[i] PROVE i <= j
    OBVIOUS
  <2>1. i = j /\ i \in 1 .. Len(s) /\ Len(s) \in Nat
    BY DEF Once
  <2> QED
    BY <2>1
<1>2. WithoutRepeats(s) = EntriesAt(s, places)
  BY DEF WithoutRepeats
<1> HIDE DEF places
<1> QED
  BY <1>1, <1>2, EntriesHold

LEMMA JoinedHold ==
  ASSUME NEW T, NEW s \in Seq(T), NEW t \in Seq(T)
  PROVE  s \o t \in Seq(T) /\ ToSet(s \o t) = ToSet(s) \cup ToSet(t)
         /\ Len(s \o t) = Len(s) + Len(t)
<1>1. /\ s \o t \in Seq(T) /\ Len(s \o t) = Len(s) + Len(t)
      /\ Len(s) \in Nat /\ Len(t) \in Nat
      /\ \A i \in 1 .. Len(s) + Len(t) :
           (s \o t)[i] = IF i <= Len(s) THEN s[i] ELSE t[i - Len(s)]
  OBVIOUS
<1>2. \A i \in 1 .. Len(s) : i \in 1 .. Len(s) + Len(t) /\ (s \o t)[i] = s[i]
  BY <1>1
<1>3. \A i \in 1 .. Len(t) : /\ i + Len(s) \in 1 .. Len(s) + Len(t)
                             /\ (s \o t)[i + Len(s)] = t[i]
  BY <1>1
<1>4. \A i \in 1 .. Len(s) + Len(t) : \/ i \in 1 .. Len(s) /\ (s \o t)[i] = s[i]
                                      \/ i - Len(s) \in 1 .. Len(t) /\ (s \o t)[i] = t[i - Len(s)]
  BY <1>1
<1>5. DOMAIN s = 1 .. Len(s) /\ DOMAIN t = 1 .. Len(t) /\ DOMAIN (s \o t) = 1 .. Len(s) + Len(t)
  BY <1>1
<1> QED
  BY <1>1, <1>2, <1>3, <1>4, <1>5 DEF ToSet

LEMMA PartHolds ==
  ASSUME NEW T, NEW s \in Seq(T), NEW a \in 1 .. Len(s) + 1, NEW b \in 0 .. Len(s), a <= b + 1
  PROVE  /\ SubSeq(s, a, b) \in Seq(T) /\ Len(SubSeq(s, a, b)) = b - a + 1
         /\ ToSet(SubSeq(s, a, b)) = {s[k] : k \in a .. b}
<1> DEFINE u == SubSeq(s, a, b)
<1>1. \A k \in a .. b : k \in 1 .. Len(s) /\ s[k] \in T
  OBVIOUS
<1>2. u \in Seq(T) /\ Len(u) = b - a + 1 /\ \A k \in 1 .. b - a + 1 : u[k] = s[a + k - 1]
  BY <1>1, SubSeqProperties
<1>3. DOMAIN u = 1 .. b - a + 1
  BY <1>2
<1> HIDE DEF u
<1>4. \A k \in a .. b : k - a + 1 \in 1 .. b - a + 1 /\ a + (k - a + 1) - 1 = k
  OBVIOUS
<1>5. \A k \in a .. b : k - a + 1 \in 1 .. b - a + 1 /\ u[k - a + 1] = s[k]
  BY <1>2, <1>4
<1>6. \A k \in 1 .. b - a + 1 : a + k - 1 \in a .. b
  OBVIOUS
<1>7. ToSet(u) = {u[k] : k \in 1 .. b - a + 1}
  BY <1>3 DEF ToSet
<1>8. {u[k] : k \in 1 .. b - a + 1} = {s[k] : k \in a .. b}
  <2>1. ASSUME NEW k \in 1 .. b - a + 1 PROVE u[k] \in {s[j] : j \in a .. b}
    BY <1>2, <1>6
  <2>2. ASSUME NEW k \in a .. b PROVE s[k] \in {u[j] : j \in 1 .. b - a + 1}
    BY <1>5
  <2> QED
    BY <2>1, <2>2
<1> QED
  BY <1>2, <1>7, <1>8 DEF u

LEMMA TakenOutHolds ==
  ASSUME NEW T, NEW s \in Seq(T), NEW d \in DOMAIN s
  PROVE  /\ RemoveAt(s, d) \in Seq(T) /\ Len(RemoveAt(s, d)) = Len(s) - 1
         /\ ToSet(s) = ToSet(RemoveAt(s, d)) \cup {s[d]}
<1>1. d \in 1 .. Len(s) /\ Len(s) \in Nat /\ DOMAIN s = 1 .. Len(s)
  OBVIOUS
<1>0. /\ 1 \in 1 .. Len(s) + 1 /\ d - 1 \in 0 .. Len(s) /\ 1 <= (d - 1) + 1
      /\ d + 1 \in 1 .. Len(s) + 1 /\ Len(s) \in 0 .. Len(s) /\ d + 1 <= Len(s) + 1
      /\ (d - 1) - 1 + 1 = d - 1 /\ Len(s) - (d + 1) + 1 = Len(s) - d
      /\ (d - 1) + (Len(s) - d) = Len(s) - 1
  BY <1>1
<1> DEFINE h == SubSeq(s, 1, d - 1)
           t == SubSeq(s, d + 1, Len(s))
<1>2. h \in Seq(T) /\ Len(h) = d - 1 /\ ToSet(h) = {s[k] : k \in 1 .. d - 1}
  BY <1>0, PartHolds
<1>3. t \in Seq(T) /\ Len(t) = Len(s) - d /\ ToSet(t) = {s[k] : k \in d + 1 .. Len(s)}
  BY <1>0, PartHolds
<1> HIDE DEF h, t
<1>4. ToSet(h \o t) = ToSet(h) \cup ToSet(t) /\ h \o t \in Seq(T) /\ Len(h \o t) = Len(s) - 1
  <2>1. /\ ToSet(h \o t) = ToSet(h) \cup ToSet(t) /\ h \o t \in Seq(T)
        /\ Len(h \o t) = Len(h) + Len(t)
    BY <1>2, <1>3, JoinedHold
  <2> QED
    BY <1>0, <1>2, <1>3, <2>1
<1>5. \A k \in 1 .. Len(s) : k \in 1 .. d - 1 \/ k \in d + 1 .. Len(s) \/ k = d
  BY <1>1
<1>6. (1 .. d - 1) \cup (d + 1 .. Len(s)) \subseteq 1 .. Len(s)
  BY <1>1
<1>7. ToSet(s) = ToSet(h \o t) \cup {s[d]}
  BY <1>1, <1>2, <1>3, <1>4, <1>5, <1>6 DEF ToSet
<1> QED
  BY <1>4, <1>7 DEF RemoveAt, h, t

LEMMA PutInHolds ==
  ASSUME NEW T, NEW s \in Seq(T), NEW e \in T, NEW i \in 1 .. Len(s) + 1
  PROVE  /\ InsertAt(s, i, e) \in Seq(T) /\ Len(InsertAt(s, i, e)) = Len(s) + 1
         /\ ToSet(InsertAt(s, i, e)) = ToSet(s) \cup {e}
<1>1. Len(s) \in Nat /\ DOMAIN s = 1 .. Len(s)
  OBVIOUS
<1>0. /\ 1 \in 1 .. Len(s) + 1 /\ i - 1 \in 0 .. Len(s) /\ 1 <= (i - 1) + 1
      /\ Len(s) \in 0 .. Len(s) /\ i <= Len(s) + 1
      /\ (i - 1) - 1 + 1 = i - 1 /\ (i - 1) + 1 = i
      /\ i + (Len(s) - i + 1) = Len(s) + 1
  BY <1>1
<1> DEFINE h == SubSeq(s, 1, i - 1)
           t == SubSeq(s, i, Len(s))
<1>2. h \in Seq(T) /\ Len(h) = i - 1 /\ ToSet(h) = {s[k] : k \in 1 .. i - 1}
  BY <1>0, PartHolds
<1>3. t \in Seq(T) /\ Len(t) = Len(s) - i + 1 /\ ToSet(t) = {s[k] : k \in i .. Len(s)}
  BY <1>0, PartHolds
<1> HIDE DEF h, t
<1>4. <<e>> \in Seq(T) /\ Len(<<e>>) = 1 /\ ToSet(<<e>>) = {e}
  BY DEF ToSet
<1>5. /\ h \o <<e>> \in Seq(T) /\ Len(h \o <<e>>) = i /\ ToSet(h \o <<e>>) = ToSet(h) \cup {e}
  <2>1. /\ h \o <<e>> \in Seq(T) /\ Len(h \o <<e>>) = Len(h) + Len(<<e>>)
        /\ ToSet(h \o <<e>>) = ToSet(h) \cup ToSet(<<e>>)
    BY <1>2, <1>4, JoinedHold
  <2>2. Len(h) + Len(<<e>>) = i
    BY <1>0, <1>2, <1>4
  <2> QED
    BY <1>4, <2>1, <2>2
<1>6. /\ h \o <<e>> \o t \in Seq(T) /\ Len(h \o <<e>> \o t) = Len(s) + 1
      /\ ToSet(h \o <<e>> \o t) = ToSet(h) \cup {e} \cup ToSet(t)
  <2> DEFINE g == h \o <<e>>
  <2> HIDE DEF g
  <2>1. g \in Seq(T) /\ Len(g) = i /\ ToSet(g) = ToSet(h) \cup {e}
    BY <1>5 DEF g
  <2>2. g \o t \in Seq(T) /\ Len(g \o t) = Len(g) + Len(t) /\ ToSet(g \o t) = ToSet(g) \cup ToSet(t)
    BY <1>3, <2>1, JoinedHold
  <2>3. Len(g) + Len(t) = Len(s) + 1
    BY <1>0, <1>3, <2>1
  <2> QED
    BY <2>1, <2>2, <2>3 DEF g
<1>7. \A k \in 1 .. Len(s) : k \in 1 .. i - 1 \/ k \in i .. Len(s)
  BY <1>1
<1>8. (1 .. i - 1) \cup (i .. Len(s)) \subseteq 1 .. Len(s)
  BY <1>1
<1>9. ToSet(s) = ToSet(h) \cup ToSet(t)
  BY <1>1, <1>2, <1>3, <1>7, <1>8 DEF ToSet
<1> QED
  BY <1>6, <1>9 DEF InsertAt, h, t

-----------------------------------------------------------------------------
(***************************************************************************)
(* The order in the form of a status page.  It holds each checked server   *)
(* once, and so do the rows that are being dragged.                        *)
(***************************************************************************)
Holds(s, S) == s \in Seq(Servers) /\ ToSet(s) = S /\ Once(s)

OrderInv ==
  /\ checked \subseteq Servers /\ shownRows \subseteq Servers
  /\ Holds(order, checked) /\ inputs = order
  /\ dragging = NoServer => list = IF Len(order) > 1 THEN order ELSE <<>>
  /\ dragging # NoServer => dragging \in checked /\ Holds(list, checked)

LEMMA ServersCounted ==
  ASSUME NEW S \in SUBSET Servers
  PROVE  IsFiniteSet(S) /\ Cardinality(S) \in Nat
<1>1. IsFiniteSet(S)
  BY DashboardFormAssumption, FS_Subset
<1> QED
  BY <1>1, FS_CardinalityType

LEMMA CountedHold ==
  ASSUME NEW S \in SUBSET Servers, NEW s \in Seq(Servers), ToSet(s) = S
  PROVE  Holds(s, S) <=> Len(s) = Cardinality(S)
  BY HeldOnce DEF Holds

LEMMA OrdersHold ==
  ASSUME NEW S \in SUBSET Servers, NEW s \in SetToSeqs(S)
  PROVE  Holds(s, S)
<1>1. s \in Seq(S) /\ ToSet(s) = S /\ Len(s) = Cardinality(S)
  BY ServersCounted, OrdersHoldOnce
<1>2. s \in Seq(Servers)
  BY <1>1
<1> QED
  BY <1>1, <1>2, CountedHold

LEMMA FilteredOrder ==
  ASSUME NEW S \in SUBSET Servers, NEW s, Holds(s, S), NEW R
  PROVE  /\ Holds(Filtered(s, R), S \cap R)
         /\ S \subseteq R => Filtered(s, R) = s
<1>1. s \in Seq(Servers) /\ ToSet(s) = S /\ Once(s)
  BY DEF Holds
<1> QED
  BY <1>1, FilteredHolds DEF Holds

LEMMA JoinedOrder ==
  ASSUME NEW S \in SUBSET Servers, NEW R \in SUBSET Servers, NEW s, NEW t,
         Holds(s, S), Holds(t, R), S \cap R = {}
  PROVE  Holds(s \o t, S \cup R)
<1>1. s \in Seq(Servers) /\ t \in Seq(Servers) /\ ToSet(s) = S /\ ToSet(t) = R
  BY DEF Holds
<1>2. Len(s) = Cardinality(S) /\ Len(t) = Cardinality(R)
  BY <1>1, CountedHold
<1>3. /\ s \o t \in Seq(Servers) /\ ToSet(s \o t) = S \cup R
      /\ Len(s \o t) = Len(s) + Len(t)
  BY <1>1, JoinedHold
<1>4. Cardinality(S \cup R) = Cardinality(S) + Cardinality(R)
  <2>1. IsFiniteSet(S) /\ IsFiniteSet(R) /\ Cardinality(S) \in Nat /\ Cardinality(R) \in Nat
    BY ServersCounted
  <2>2. Cardinality(S \cup R) = Cardinality(S) + Cardinality(R) - Cardinality(S \cap R)
    BY <2>1, FS_Union
  <2>3. Cardinality(S \cap R) = 0
    BY FS_EmptySet
  <2> QED
    BY <2>1, <2>2, <2>3
<1>5. S \cup R \in SUBSET Servers
  OBVIOUS
<1> QED
  BY <1>2, <1>3, <1>4, <1>5, CountedHold

\* The rows and the names are orders of all servers.
LEMMA RowsHold == Holds(Rows, Servers) /\ Holds(ByName, Servers)
<1>1. Rows \in SetToSeqs(Servers) /\ ByName \in SetToSeqs(Servers) /\ Servers \in SUBSET Servers
  BY DashboardFormAssumption
<1> QED
  BY <1>1, OrdersHold

LEMMA MissingFilledIn ==
  ASSUME NEW S \in SUBSET Servers, NEW s, Holds(s, S), NEW B \in SUBSET Servers
  PROVE  /\ Holds(WithMissing(s, B), S \cup B)
         /\ B \subseteq S => WithMissing(s, B) = s
<1> DEFINE more == Filtered(Rows, B \ ToSet(s))
<1>1. s \in Seq(Servers) /\ ToSet(s) = S
  BY DEF Holds
<1>2. Holds(more, B \ S)
  <2>1. Holds(more, Servers \cap (B \ S))
    BY <1>1, RowsHold, FilteredOrder
  <2>2. Servers \cap (B \ S) = B \ S
    OBVIOUS
  <2> QED
    BY <2>1, <2>2
<1>3. WithMissing(s, B) = s \o more
  BY DEF WithMissing
<1> HIDE DEF more
<1>4. Holds(s \o more, S \cup (B \ S))
  BY <1>2, JoinedOrder
<1>5. S \cup (B \ S) = S \cup B
  OBVIOUS
<1>6. ASSUME B \subseteq S PROVE s \o more = s
  <2>1. more \in Seq(Servers) /\ ToSet(more) = {}
    BY <1>2, <1>6 DEF Holds
  <2>2. more = <<>>
    BY <2>1, HeldOnce
  <2> QED
    BY <1>1, <2>2
<1> QED
  BY <1>3, <1>4, <1>5, <1>6

LEMMA RedrawKeeps ==
  ASSUME NEW s, Redraw(s), checked' \subseteq Servers, Holds(s, checked'),
         shownRows' \subseteq Servers, dragging' = NoServer
  PROVE  OrderInv'
  BY DEF Redraw, OrderInv, Holds

LEMMA OrderInvInit == OrderInit => OrderInv
<1> SUFFICES ASSUME OrderInit PROVE OrderInv
  OBVIOUS
<1>1. /\ checked \in SUBSET Servers /\ order \in SetToSeqs(checked) /\ dragging = NoServer
      /\ shownRows = Servers /\ inputs = order
      /\ list = IF Len(order) > 1 THEN order ELSE <<>>
  BY DEF OrderInit
<1>2. Holds(order, checked)
  BY <1>1, OrdersHold
<1> QED
  BY <1>1, <1>2 DEF OrderInv

LEMMA BoxesKeep ==
  ASSUME OrderInv, (\E x \in Servers : CheckboxChange(x)) \/ ToggleSelectAll
  PROVE  OrderInv'
<1>1. ASSUME NEW x \in Servers, CheckboxChange(x) PROVE OrderInv'
  <2> DEFINE all == WithMissing(order, checked')
             new == Filtered(all, (Servers \ {x}) \cup checked')
  <2>1. /\ checked' = IF x \in checked THEN checked \ {x} ELSE checked \cup {x}
        /\ Redraw(new) /\ shownRows' = shownRows /\ dragging' = NoServer
    BY <1>1 DEF CheckboxChange
  <2>2. checked' \in SUBSET Servers /\ checked \in SUBSET Servers /\ Holds(order, checked)
        /\ shownRows' \subseteq Servers
    BY <2>1 DEF OrderInv
  <2> DEFINE B == checked'
  <2>3. Holds(all, checked \cup B)
    <3> HIDE DEF B
    <3> QED
      BY <2>2, MissingFilledIn DEF B
  <2>4. Holds(new, (checked \cup B) \cap ((Servers \ {x}) \cup B))
    <3>1. checked \cup B \in SUBSET Servers
      BY <2>2
    <3> HIDE DEF all, B
    <3> QED
      BY <2>3, <3>1, FilteredOrder DEF B
  <2>5. (checked \cup B) \cap ((Servers \ {x}) \cup B) = checked'
    BY <2>1, <2>2
  <2> HIDE DEF new, B
  <2> QED
    BY <2>1, <2>2, <2>4, <2>5, RedrawKeeps
<1>2. CASE ToggleSelectAll
  <2> DEFINE all == WithMissing(order, checked')
             new == Filtered(all, checked')
  <2>1. /\ checked' = IF shownRows \subseteq checked THEN checked \ shownRows
                      ELSE checked \cup shownRows
        /\ IF shownRows = {} THEN UNCHANGED <<order, list, inputs>> ELSE Redraw(new)
        /\ shownRows' = shownRows /\ dragging' = dragging /\ dragging = NoServer
    BY <1>2 DEF ToggleSelectAll
  <2>2. checked' \in SUBSET Servers /\ checked \in SUBSET Servers /\ Holds(order, checked)
        /\ shownRows' \subseteq Servers
    BY <2>1 DEF OrderInv
  <2>3. CASE shownRows = {}
    <3>1. checked' = checked /\ UNCHANGED <<order, list, inputs, dragging, shownRows>>
      BY <2>1, <2>3
    <3> QED
      BY <3>1 DEF OrderInv
  <2>4. CASE shownRows # {}
    <3> DEFINE B == checked'
    <3>1. Holds(all, checked \cup B)
      <4> HIDE DEF B
      <4> QED
        BY <2>2, MissingFilledIn DEF B
    <3>2. Holds(new, (checked \cup B) \cap B)
      <4>1. checked \cup B \in SUBSET Servers
        BY <2>2
      <4> HIDE DEF all, B
      <4> QED
        BY <3>1, <4>1, FilteredOrder DEF B
    <3>3. (checked \cup B) \cap B = checked'
      OBVIOUS
    <3> HIDE DEF new, B
    <3> QED
      BY <2>1, <2>2, <2>4, <3>2, <3>3, RedrawKeeps
  <2> QED
    BY <2>3, <2>4
<1> QED
  BY <1>1, <1>2

\* A server taken out of an order and put in again, wherever that was.
LEMMA PutBackHolds ==
  ASSUME NEW S \in SUBSET Servers, NEW s \in Seq(Servers), NEW x \in S,
         S = ToSet(s) \cup {x}, Cardinality(S) = Len(s) + 1, NEW i \in 1 .. Len(s) + 1
  PROVE  Holds(InsertAt(s, i, x), S)
<1>1. /\ InsertAt(s, i, x) \in Seq(Servers) /\ ToSet(InsertAt(s, i, x)) = S
      /\ Len(InsertAt(s, i, x)) = Cardinality(S)
  <2>1. x \in Servers
    OBVIOUS
  <2> QED
    BY <2>1, PutInHolds
<1> QED
  BY <1>1, CountedHold

LEMMA DragKeeps ==
  ASSUME OrderInv,
         (\E x \in Servers : DragStart(x)) \/ (\E i \in 1 .. Len(list) + 1 : DragOver(i)) \/ FinishDrag
  PROVE  OrderInv'
<1>1. ASSUME NEW x \in Servers, DragStart(x) PROVE OrderInv'
  <2>1. /\ dragging = NoServer /\ Len(order) > 1 /\ Contains(list, x) /\ dragging' = x
        /\ UNCHANGED <<checked, shownRows, order, list, inputs>>
    BY <1>1 DEF DragStart
  <2>2. list = order /\ Holds(order, checked)
    BY <2>1 DEF OrderInv
  <2>3. x \in checked
    BY <2>1, <2>2 DEF Contains, Holds, ToSet
  <2>4. x # NoServer
    BY DashboardFormAssumption
  <2> QED
    BY <2>1, <2>2, <2>3, <2>4 DEF OrderInv
<1>2. ASSUME NEW i \in 1 .. Len(list) + 1, DragOver(i) PROVE OrderInv'
  <2> DEFINE rest == Filtered(list, Servers \ {dragging})
  <2>1. /\ dragging # NoServer /\ i \in 1 .. Len(rest) + 1
        /\ list' = InsertAt(rest, i, dragging)
        /\ UNCHANGED <<checked, shownRows, order, inputs, dragging>>
    BY <1>2 DEF DragOver
  <2>2. checked \in SUBSET Servers /\ dragging \in checked /\ Holds(list, checked)
    BY <2>1 DEF OrderInv
  <2>3. Holds(rest, checked \cap (Servers \ {dragging}))
    BY <2>2, FilteredOrder
  <2>4. checked \cap (Servers \ {dragging}) = checked \ {dragging}
    BY <2>2
  <2> HIDE DEF rest
  <2>5. rest \in Seq(Servers) /\ ToSet(rest) = checked \ {dragging}
    BY <2>3, <2>4 DEF Holds
  <2>6. Len(rest) = Cardinality(checked \ {dragging})
    BY <2>2, <2>3, <2>4, <2>5, CountedHold
  <2>7. Cardinality(checked) = Len(rest) + 1
    <3>1. IsFiniteSet(checked) /\ Cardinality(checked) \in Nat
      BY <2>2, ServersCounted
    <3>2. Cardinality(checked \ {dragging}) = Cardinality(checked) - 1
      BY <2>2, <3>1, FS_RemoveElement
    <3> QED
      BY <2>6, <3>1, <3>2
  <2>8. checked = ToSet(rest) \cup {dragging}
    BY <2>2, <2>5
  <2>9. Holds(list', checked)
    BY <2>1, <2>2, <2>5, <2>7, <2>8, PutBackHolds
  <2> QED
    BY <2>1, <2>2, <2>9 DEF OrderInv, Holds
<1>3. CASE FinishDrag
  <2>1. /\ dragging # NoServer /\ dragging' = NoServer /\ Redraw(list)
        /\ checked' = checked /\ shownRows' = shownRows
    BY <1>3 DEF FinishDrag
  <2>2. checked \subseteq Servers /\ shownRows \subseteq Servers /\ Holds(list, checked)
    BY <2>1 DEF OrderInv
  <2> QED
    BY <2>1, <2>2, RedrawKeeps
<1> QED
  BY <1>1, <1>2, <1>3

LEMMA MoveKeeps ==
  ASSUME OrderInv, NEW x \in Servers, NEW by \in {1, 0 - 1}, Move(x, by)
  PROVE  OrderInv'
<1> DEFINE from == CHOOSE i \in DOMAIN order : order[i] = x
           to   == from + by
           rest == RemoveAt(order, from)
           new  == InsertAt(rest, to, x)
<1>1. /\ Contains(order, x) /\ to \in DOMAIN order /\ Redraw(new)
      /\ checked' = checked /\ shownRows' = shownRows /\ dragging' = NoServer
  BY DEF Move
<1>2. /\ order \in Seq(Servers) /\ ToSet(order) = checked /\ checked \in SUBSET Servers
      /\ shownRows \subseteq Servers /\ Holds(order, checked)
  BY DEF OrderInv, Holds
<1>3. from \in DOMAIN order /\ order[from] = x
  <2>1. \E i \in DOMAIN order : order[i] = x
    BY <1>1, <1>2 DEF Contains
  <2> QED
    BY <2>1
<1> HIDE DEF from
<1>4. x \in checked
  BY <1>2, <1>3 DEF ToSet
<1>5. rest \in Seq(Servers) /\ Len(rest) = Len(order) - 1 /\ checked = ToSet(rest) \cup {x}
  BY <1>2, <1>3, TakenOutHolds
<1>6. Cardinality(checked) = Len(order)
  BY <1>2, CountedHold
<1>7. Len(order) \in Nat /\ Len(rest) \in Nat /\ DOMAIN order = 1 .. Len(order)
  BY <1>2, <1>5
<1> HIDE DEF rest, to
<1>8. Cardinality(checked) = Len(rest) + 1 /\ to \in 1 .. Len(rest) + 1
  BY <1>1, <1>5, <1>6, <1>7
<1>9. Holds(new, checked)
  BY <1>2, <1>4, <1>5, <1>8, PutBackHolds
<1> HIDE DEF new
<1> QED
  BY <1>1, <1>2, <1>9, RedrawKeeps

LEMMA ResetKeeps ==
  ASSUME OrderInv, ResetOrder
  PROVE  OrderInv'
<1>1. /\ Redraw(Filtered(ByName, ToSet(order))) /\ checked' = checked
      /\ shownRows' = shownRows /\ dragging' = NoServer
  BY DEF ResetOrder
<1>2. ToSet(order) = checked /\ checked \in SUBSET Servers /\ shownRows \subseteq Servers
  BY DEF OrderInv, Holds
<1>3. Holds(Filtered(ByName, checked), Servers \cap checked) /\ Servers \in SUBSET Servers
  BY RowsHold, FilteredOrder
<1>4. Servers \cap checked = checked
  BY <1>2
<1> QED
  BY <1>1, <1>2, <1>3, <1>4, RedrawKeeps

LEMMA OrderStep == OrderInv /\ [OrderNext]_orderVars => OrderInv'
<1> SUFFICES ASSUME OrderInv, [OrderNext]_orderVars PROVE OrderInv'
  OBVIOUS
<1>1. CASE UNCHANGED orderVars
  BY <1>1 DEF orderVars, OrderInv
<1>2. CASE FilterRows
  BY <1>2 DEF FilterRows, OrderInv
<1> QED
  BY <1>1, <1>2, BoxesKeep, DragKeeps, MoveKeeps, ResetKeeps DEF OrderNext

LEMMA OrderSaved == OrderInv => SavesWhatIsShown
<1> SUFFICES ASSUME OrderInv, dragging = NoServer
             PROVE  LET saved == ParseAgentsOrder(Submitted, checked) IN
                      /\ ToSet(saved) = checked /\ Len(saved) = Len(WithoutRepeats(saved))
                      /\ inputs = order
                      /\ Len(order) > 1 => list = saved
  BY DEF SavesWhatIsShown
<1>1. checked \in SUBSET Servers /\ Holds(order, checked)
  BY DEF OrderInv
<1>2. order \in Seq(Servers) /\ ToSet(order) = checked /\ Once(order)
  BY <1>1 DEF Holds
<1>3. WithMissing(order, checked) = order
  BY <1>1, MissingFilledIn
<1>4. Filtered(order, checked) = order
  BY <1>1, FilteredOrder
<1>5. WithoutRepeats(order) = order
  BY <1>2, NothingRepeated
<1>6. ParseAgentsOrder(Submitted, checked) = order
  BY <1>3, <1>4, <1>5 DEF ParseAgentsOrder, Submitted
<1> QED
  BY <1>2, <1>5, <1>6 DEF OrderInv

-----------------------------------------------------------------------------
(***************************************************************************)
(* The rows of the agent management.  As long as an agent had one rename   *)
(* at a time and no answer of it was lost, the server has the name of the  *)
(* rename it has stored, and otherwise the name the row shows.             *)
(***************************************************************************)
Renames == [agent : Machines, name : Names, at : {"sent", "stored", "refused"}]

RowsFit ==
  /\ named \in [Machines -> Names] /\ found \in [Machines -> Names]
  /\ stored \in [Machines -> Names] /\ typed \in [Machines -> Names \cup {TooBad}]
  /\ saving \in SUBSET Renames

OneRowOpen == editors = IF editingRow = NoMachine THEN {} ELSE {editingRow}

NamesFollow ==
  \A m \in Machines \ unsure :
    /\ \A s, u \in saving : s.agent = m /\ u.agent = m => s = u
    /\ \A s \in saving : s.agent = m /\ s.at = "stored" => stored[m] = s.name
    /\ (\A s \in saving : s.agent = m => s.at # "stored") =>
         named[m] = stored[m] /\ found[m] = stored[m]

RowsInv == RowsFit /\ OneRowOpen /\ NamesFollow

LEMMA RowsInvInit == RowsInit => RowsInv
  BY DEF RowsInit, RowsInv, RowsFit, OneRowOpen, NamesFollow

\* Of the rows only the one that is open changes.
LEMMA EditorsKeep ==
  ASSUME RowsInv, OneRowOpen', typed' \in [Machines -> Names \cup {TooBad}],
         UNCHANGED <<named, found, saving, stored, unsure>>
  PROVE  RowsInv'
  BY DEF RowsInv, RowsFit, NamesFollow

LEMMA EditorCloses ==
  ASSUME RowsInv, NEW m \in Machines, CloseEditor(m)
  PROVE  OneRowOpen'
  BY AgentRowsAssumption DEF RowsInv, OneRowOpen, CloseEditor

LEMMA SaveRenameKeeps ==
  ASSUME RowsInv, NEW m \in Machines, SaveRename(m)
  PROVE  RowsInv'
<1> DEFINE r == [agent |-> m, name |-> typed[m], at |-> "sent"]
<1>1. /\ UNCHANGED <<editingRow, editors, typed, named, found, stored>>
      /\ saving' = saving \cup {r} /\ typed[m] # TooBad
      /\ unsure' = IF \E s \in saving : s.agent = m THEN unsure \cup {m} ELSE unsure
  BY DEF SaveRename
<1>2. r \in Renames /\ r.agent = m /\ r.at = "sent"
  BY <1>1 DEF RowsInv, RowsFit, Renames
<1> HIDE DEF r
<1>3. RowsFit' /\ OneRowOpen'
  BY <1>1, <1>2 DEF RowsInv, RowsFit, OneRowOpen
<1>4. NamesFollow'
  <2> SUFFICES ASSUME NEW n \in Machines \ unsure'
               PROVE  /\ \A s, u \in saving' : s.agent = n /\ u.agent = n => s = u
                      /\ \A s \in saving' : s.agent = n /\ s.at = "stored" => stored'[n] = s.name
                      /\ (\A s \in saving' : s.agent = n => s.at # "stored") =>
                           named'[n] = stored'[n] /\ found'[n] = stored'[n]
    BY DEF NamesFollow
  <2>1. n \in Machines \ unsure /\ (n = m => \A s \in saving : s.agent # m)
    BY <1>1
  <2>2. /\ \A s, u \in saving : s.agent = n /\ u.agent = n => s = u
        /\ \A s \in saving : s.agent = n /\ s.at = "stored" => stored[n] = s.name
        /\ (\A s \in saving : s.agent = n => s.at # "stored") =>
             named[n] = stored[n] /\ found[n] = stored[n]
    BY <2>1 DEF RowsInv, NamesFollow
  <2> QED
    BY <1>1, <1>2, <2>1, <2>2
<1> QED
  BY <1>3, <1>4 DEF RowsInv

\* The server is done with a rename, or its answer is.
LEMMA StoreNameKeeps ==
  ASSUME RowsInv, NEW s \in saving, StoreName(s)
  PROVE  RowsInv'
<1>1. UNCHANGED <<editingRow, editors, typed, named, found, unsure>> /\ s.at = "sent"
  BY DEF StoreName
<1>2. s \in Renames /\ s.agent \in Machines /\ s.name \in Names
  BY DEF RowsInv, RowsFit, Renames
<1>3. PICK t \in Renames :
        /\ t.agent = s.agent /\ t.name = s.name /\ saving' = (saving \ {s}) \cup {t}
        /\ \/ t.at = "stored" /\ stored' = [stored EXCEPT ![s.agent] = s.name]
           \/ t.at = "refused" /\ stored' = stored
  <2>1. CASE /\ stored' = [stored EXCEPT ![s.agent] = s.name]
             /\ saving' = (saving \ {s}) \cup {[s EXCEPT !.at = "stored"]}
    <3> DEFINE r == [s EXCEPT !.at = "stored"]
    <3>1. r \in Renames /\ r.agent = s.agent /\ r.name = s.name /\ r.at = "stored"
      BY <1>2 DEF Renames
    <3>2. saving' = (saving \ {s}) \cup {r}
      BY <2>1
    <3> HIDE DEF r
    <3> QED
      BY <2>1, <3>1, <3>2
  <2>2. CASE /\ saving' = (saving \ {s}) \cup {[s EXCEPT !.at = "refused"]}
             /\ UNCHANGED stored
    <3> DEFINE r == [s EXCEPT !.at = "refused"]
    <3>1. r \in Renames /\ r.agent = s.agent /\ r.name = s.name /\ r.at = "refused"
      BY <1>2 DEF Renames
    <3>2. saving' = (saving \ {s}) \cup {r}
      BY <2>2
    <3> HIDE DEF r
    <3> QED
      BY <2>2, <3>1, <3>2
  <2> QED
    BY <2>1, <2>2 DEF StoreName
<1>4. RowsFit' /\ OneRowOpen'
  BY <1>1, <1>2, <1>3 DEF RowsInv, RowsFit, OneRowOpen
<1>5. NamesFollow'
  <2> SUFFICES ASSUME NEW n \in Machines \ unsure
               PROVE  /\ \A v, u \in saving' : v.agent = n /\ u.agent = n => v = u
                      /\ \A v \in saving' : v.agent = n /\ v.at = "stored" => stored'[n] = v.name
                      /\ (\A v \in saving' : v.agent = n => v.at # "stored") =>
                           named'[n] = stored'[n] /\ found'[n] = stored'[n]
    BY <1>1 DEF NamesFollow
  <2>1. /\ \A v, u \in saving : v.agent = n /\ u.agent = n => v = u
        /\ \A v \in saving : v.agent = n /\ v.at = "stored" => stored[n] = v.name
        /\ (\A v \in saving : v.agent = n => v.at # "stored") =>
             named[n] = stored[n] /\ found[n] = stored[n]
    BY DEF RowsInv, NamesFollow
  <2>2. n = s.agent => stored'[n] = IF t.at = "stored" THEN s.name ELSE stored[n]
    BY <1>2, <1>3 DEF RowsInv, RowsFit
  <2>3. n # s.agent => stored'[n] = stored[n]
    BY <1>2, <1>3 DEF RowsInv, RowsFit
  <2>4. CASE n = s.agent
    BY <1>1, <1>3, <2>1, <2>2, <2>4
  <2>5. CASE n # s.agent
    BY <1>1, <1>3, <2>1, <2>3, <2>5
  <2> QED
    BY <2>4, <2>5
<1> QED
  BY <1>4, <1>5 DEF RowsInv

LEMMA NameAnsweredKeeps ==
  ASSUME RowsInv, NEW s \in saving, NameSaved(s) \/ NameLost(s) \/ NameRefused(s)
  PROVE  RowsInv'
<1>1. s \in Renames /\ s.agent \in Machines /\ s.name \in Names /\ s.at \in {"stored", "refused"}
  BY DEF RowsInv, RowsFit, Renames, NameSaved, NameLost, NameRefused
<1>2. saving' = saving \ {s} /\ UNCHANGED <<typed, stored>>
  BY DEF NameSaved, NameLost, NameRefused
<1>3. CASE NameSaved(s)
  <2>1. /\ named' = [named EXCEPT ![s.agent] = s.name]
        /\ found' = [found EXCEPT ![s.agent] = s.name]
        /\ unsure' = unsure /\ s.at = "stored" /\ OneRowOpen'
    BY <1>1, <1>3, EditorCloses DEF NameSaved
  <2>2. RowsFit'
    BY <1>1, <1>2, <2>1 DEF RowsInv, RowsFit
  <2>3. NamesFollow'
    <3> SUFFICES ASSUME NEW n \in Machines \ unsure
                 PROVE  /\ \A v, u \in saving' : v.agent = n /\ u.agent = n => v = u
                        /\ \A v \in saving' : v.agent = n /\ v.at = "stored" => stored'[n] = v.name
                        /\ (\A v \in saving' : v.agent = n => v.at # "stored") =>
                             named'[n] = stored'[n] /\ found'[n] = stored'[n]
      BY <2>1 DEF NamesFollow
    <3>1. /\ \A v, u \in saving : v.agent = n /\ u.agent = n => v = u
          /\ \A v \in saving : v.agent = n /\ v.at = "stored" => stored[n] = v.name
          /\ (\A v \in saving : v.agent = n => v.at # "stored") =>
               named[n] = stored[n] /\ found[n] = stored[n]
      BY DEF RowsInv, NamesFollow
    <3>2. n = s.agent => named'[n] = s.name /\ found'[n] = s.name
      BY <1>1, <2>1 DEF RowsInv, RowsFit
    <3>3. n # s.agent => named'[n] = named[n] /\ found'[n] = found[n]
      BY <1>1, <2>1 DEF RowsInv, RowsFit
    <3> QED
      BY <1>2, <2>1, <3>1, <3>2, <3>3
  <2> QED
    BY <2>1, <2>2, <2>3 DEF RowsInv
<1>4. CASE NameLost(s) \/ NameRefused(s)
  <2>1. /\ UNCHANGED <<editingRow, editors, named, found>>
        /\ unsure \subseteq unsure' /\ (s.agent \in unsure' \/ s.at = "refused")
    BY <1>4 DEF NameLost, NameRefused
  <2>2. RowsFit' /\ OneRowOpen'
    BY <1>2, <2>1 DEF RowsInv, RowsFit, OneRowOpen
  <2>3. NamesFollow'
    BY <1>2, <2>1 DEF RowsInv, NamesFollow
  <2> QED
    BY <2>2, <2>3 DEF RowsInv
<1> QED
  BY <1>3, <1>4

LEMMA RowsStep == RowsInv /\ [RowsNext]_rowVars => RowsInv'
<1> SUFFICES ASSUME RowsInv, [RowsNext]_rowVars PROVE RowsInv'
  OBVIOUS
<1>1. CASE UNCHANGED rowVars
  BY <1>1, EditorsKeep DEF rowVars, RowsInv, RowsFit, OneRowOpen
<1>2. ASSUME NEW m \in Machines, StartRename(m) PROVE RowsInv'
  <2>1. OneRowOpen'
    BY <1>2, AgentRowsAssumption DEF StartRename, RowsInv, OneRowOpen
  <2> QED
    BY <1>2, <2>1, EditorsKeep DEF StartRename, RowsInv, RowsFit
<1>3. ASSUME NEW m \in Machines, CancelRename(m) PROVE RowsInv'
  BY <1>3, EditorCloses, EditorsKeep DEF CancelRename, RowsInv, RowsFit
<1>4. ASSUME NEW m \in Machines, NEW n \in Names \cup {TooBad}, TypeName(m, n) PROVE RowsInv'
  BY <1>4, EditorsKeep DEF TypeName, RowsInv, RowsFit, OneRowOpen
<1> QED
  BY <1>1, <1>2, <1>3, <1>4, SaveRenameKeeps, StoreNameKeeps, NameAnsweredKeeps DEF RowsNext

LEMMA RowsAgreeWhenInv == RowsInv => RowsAgree
  BY DEF RowsInv, OneRowOpen, NamesFollow, RowsAgree

-----------------------------------------------------------------------------
(***************************************************************************)
(* The dialog of the alert rules: its fields are always some form's, and   *)
(* the rules such that a dialog may show them.                             *)
(***************************************************************************)
DialogInv ==
  /\ rules \in [Rules -> RuleStates] /\ editing \in Rules \cup {NoRule} /\ fields \in Fields
  /\ SaveUnchangedKeepsRule

LEMMA FreshFields ==
  ASSUME NEW t \in Targets
  PROVE  [kind |-> "resource", hosts |-> {}, probes |-> {}, dest |-> "preset",
          target |-> t] \in Fields
  BY DEF Fields

LEMMA DialogInvInit == DialogInit => DialogInv
  BY FreshFields DEF DialogInit, DialogInv, SaveUnchangedKeepsRule

LEMMA OpenDialogKeeps ==
  ASSUME DialogInv, NEW r \in Rules, OpenDialog(r)
  PROVE  DialogInv'
<1> DEFINE old == rules[r]
<1>1. /\ old.kind \in {"network", "resource"} /\ old.hosts \in SUBSET Hosts
      /\ old.probes \in SUBSET Probes /\ old.dest \in {"preset", "direct"}
      /\ old.target \in Targets \cup {NoTarget}
      /\ old.kind = "network" => old.hosts = {} /\ old.probes # {}
      /\ old.kind = "resource" => old.probes = {}
  BY DEF DialogInv, RuleStates
<1>2. /\ editing' = r /\ rules' = rules /\ disabled' = TriggerGroups(old.kind)
      /\ fields' = [kind   |-> old.kind,
                    hosts  |-> IF old.hosts = {} THEN Hosts ELSE old.hosts,
                    probes |-> old.probes,
                    dest   |-> old.dest,
                    target |-> IF old.target = NoTarget THEN fields.target ELSE old.target]
  BY DEF OpenDialog
<1> HIDE DEF old
<1>3. /\ fields'.kind = old.kind /\ fields'.dest = old.dest /\ fields'.probes = old.probes
      /\ fields'.hosts = IF old.hosts = {} THEN Hosts ELSE old.hosts
      /\ fields'.target = IF old.target = NoTarget THEN fields.target ELSE old.target
  BY <1>2
<1>4. fields' \in Fields
  BY <1>1, <1>2 DEF DialogInv, Fields
<1>5. SaveUnchangedKeepsRule'
  <2>1. rules'[editing'] = old
    BY <1>2 DEF old
  <2>2. /\ Saved'.kind = old.kind /\ Saved'.dest = old.dest /\ Saved'.probes = old.probes
        /\ Saved'.hosts = IF old.kind = "resource" /\ old.hosts = {} THEN Hosts ELSE old.hosts
        /\ old.target # NoTarget => Saved'.target = old.target
    BY <1>1, <1>2, <1>3 DEF Saved, TriggerGroups
  <2> QED
    BY <2>1, <2>2 DEF SaveUnchangedKeepsRule
<1> QED
  BY <1>2, <1>4, <1>5 DEF DialogInv

\* A field is changed, and the dialog is no longer as it was opened.
LEMMA ChangeKeeps ==
  ASSUME DialogInv, NEW f \in Fields, Change(f)
  PROVE  DialogInv'
  BY DEF DialogInv, Change, SaveUnchangedKeepsRule

LEMMA FieldChangesKeep ==
  ASSUME DialogInv,
         \/ \E k \in {"network", "resource"} : ChangeKind(k)
         \/ \E d \in {"preset", "direct"} : ChangeDestination(d)
         \/ \E t \in Targets : PickTarget(t)
         \/ CheckBoxes
  PROVE  DialogInv'
<1>1. fields \in Fields
  BY DEF DialogInv
<1>2. ASSUME NEW k \in {"network", "resource"}, ChangeKind(k) PROVE DialogInv'
  BY <1>1, <1>2, ChangeKeeps DEF ChangeKind, Fields
<1>3. ASSUME NEW d \in {"preset", "direct"}, ChangeDestination(d) PROVE DialogInv'
  BY <1>1, <1>3, ChangeKeeps DEF ChangeDestination, Fields
<1>4. ASSUME NEW t \in Targets, PickTarget(t) PROVE DialogInv'
  BY <1>1, <1>4, ChangeKeeps DEF PickTarget, Fields
<1>5. ASSUME NEW hs \in SUBSET Hosts, Change([fields EXCEPT !.hosts = hs]) PROVE DialogInv'
  BY <1>1, <1>5, ChangeKeeps DEF Fields
<1>6. ASSUME NEW ps \in SUBSET Probes, Change([fields EXCEPT !.probes = ps]) PROVE DialogInv'
  BY <1>1, <1>6, ChangeKeeps DEF Fields
<1>7. CASE CheckBoxes
  <2>1. fields.hosts \in SUBSET Hosts /\ fields.probes \in SUBSET Probes
    BY <1>1 DEF Fields
  <2>2. ASSUME NEW hs \in {{}, Hosts} \cup {fields.hosts \ {h} : h \in Hosts}
                          \cup {fields.hosts \cup {h} : h \in Hosts},
               Change([fields EXCEPT !.hosts = hs])
        PROVE  DialogInv'
    <3>1. hs \in SUBSET Hosts
      BY <2>1
    <3> QED
      BY <1>5, <2>2, <3>1
  <2>3. ASSUME NEW p \in Probes,
               Change([fields EXCEPT !.probes = IF p \in @ THEN @ \ {p} ELSE @ \cup {p}])
        PROVE  DialogInv'
    <3> DEFINE ps == IF p \in fields.probes THEN fields.probes \ {p} ELSE fields.probes \cup {p}
    <3>1. ps \in SUBSET Probes
      BY <2>1
    <3>2. Change([fields EXCEPT !.probes = ps])
      BY <2>3
    <3> HIDE DEF ps
    <3> QED
      BY <1>6, <3>1, <3>2
  <2> QED
    BY <1>7, <2>2, <2>3 DEF CheckBoxes
<1> QED
  BY <1>2, <1>3, <1>4, <1>7

LEMMA SubmitDialogKeeps ==
  ASSUME DialogInv, SubmitDialog
  PROVE  DialogInv'
<1>1. /\ fields.kind \in {"network", "resource"} /\ fields.hosts \in SUBSET Hosts
      /\ fields.probes \in SUBSET Probes /\ fields.dest \in {"preset", "direct"}
      /\ fields.target \in Targets
  BY DEF DialogInv, Fields
<1>2. Saved \in RuleStates
  BY <1>1, AlertDialogAssumption DEF SubmitDialog, Saved, RuleStates
<1>3. rules' \in [Rules -> RuleStates] /\ editing' = NoRule
  BY <1>2 DEF SubmitDialog, DialogInv
<1>4. fields' \in Fields
  BY FreshFields DEF SubmitDialog
<1> QED
  BY <1>3, <1>4 DEF DialogInv, SaveUnchangedKeepsRule

LEMMA DialogStep == DialogInv /\ [DialogNext]_dialogVars => DialogInv'
<1> SUFFICES ASSUME DialogInv, [DialogNext]_dialogVars PROVE DialogInv'
  OBVIOUS
<1>1. CASE UNCHANGED dialogVars
  BY <1>1 DEF dialogVars, DialogInv, SaveUnchangedKeepsRule, Saved
<1>2. CASE CloseDialog
  BY <1>2 DEF CloseDialog, DialogInv, SaveUnchangedKeepsRule
<1> QED
  BY <1>1, <1>2, OpenDialogKeeps, FieldChangesKeep, SubmitDialogKeeps DEF DialogNext

-----------------------------------------------------------------------------
(***************************************************************************)
(* The choice of probers.  The boxes that can be changed are those of      *)
(* agents that can run the protocol, or are in the group, and do not probe *)
(* the target already (BoxesFollow).                                       *)
(***************************************************************************)
BoxesFollow ==
  picking # "none" =>
    fixedBoxes = {a \in boxes : a \in inherited \/ (a \notin capable[protocol] /\ a \notin members)}

PickerInv ==
  /\ picking \in {"none", "add", "group"}
  /\ picking = "add" => members = {}
  /\ picking = "group" => members \subseteq Probers /\ inherited = {}
  /\ BoxesFollow /\ ProbersAreKept

LEMMA PickerInvInit == PickerInit => PickerInv
  BY DEF PickerInit, PickerInv, BoxesFollow, ProbersAreKept

LEMMA PickerOpensKeep ==
  ASSUME PickerInv,
         OpenAdd \/ ClosePicker \/ (\E in \in SUBSET Probers, p \in Protocols : OpenGroup(in, p))
  PROVE  PickerInv'
<1>1. CASE OpenAdd
  BY <1>1 DEF OpenAdd, RenderAgentOptions, Chosen, Boxes, PickerInv, BoxesFollow, ProbersAreKept
<1>2. CASE ClosePicker
  BY <1>2 DEF ClosePicker, PickerInv, BoxesFollow, ProbersAreKept
<1>3. ASSUME NEW in \in SUBSET Probers, NEW p \in Protocols, OpenGroup(in, p) PROVE PickerInv'
  BY <1>3 DEF OpenGroup, RenderAgentOptions, Chosen, Boxes, PickerInv, BoxesFollow, ProbersAreKept
<1> QED
  BY <1>1, <1>2, <1>3

LEMMA PickerRendersKeep ==
  ASSUME PickerInv,
         \/ InheritNothing \/ (\E p \in Protocols : ChooseProtocol(p))
         \/ (\E in \in SUBSET Probers, p \in Protocols : InheritProbers(in, p))
  PROVE  PickerInv'
<1>1. CASE InheritNothing
  BY <1>1 DEF InheritNothing, RenderAgentOptions, Chosen, Boxes, PickerInv, BoxesFollow,
              ProbersAreKept
<1>2. ASSUME NEW p \in Protocols, ChooseProtocol(p) PROVE PickerInv'
  BY <1>2 DEF ChooseProtocol, RenderAgentOptions, Chosen, Boxes, PickerInv, BoxesFollow,
              ProbersAreKept
<1>3. ASSUME NEW in \in SUBSET Probers, NEW p \in Protocols, InheritProbers(in, p) PROVE PickerInv'
  BY <1>3 DEF InheritProbers, RenderAgentOptions, Chosen, Boxes, PickerInv, BoxesFollow,
              ProbersAreKept
<1> QED
  BY <1>1, <1>2, <1>3

LEMMA PickerChecksKeep ==
  ASSUME PickerInv, NEW to, SetChecked(to),
         \A a \in to \ ticked : a \in boxes \ fixedBoxes
  PROVE  PickerInv'
  BY DEF SetChecked, PickerInv, BoxesFollow, ProbersAreKept

LEMMA PickerStep == PickerInv /\ [PickerNext]_pickerVars => PickerInv'
<1> SUFFICES ASSUME PickerInv, [PickerNext]_pickerVars PROVE PickerInv'
  OBVIOUS
<1>1. CASE UNCHANGED pickerVars
  BY <1>1 DEF pickerVars, PickerInv, BoxesFollow, ProbersAreKept
<1>2. ASSUME NEW a \in Probers, Tick(a) PROVE PickerInv'
  <2>1. /\ a \in boxes \ fixedBoxes
        /\ SetChecked(IF a \in ticked THEN ticked \ {a} ELSE ticked \cup {a})
    BY <1>2 DEF Tick
  <2>2. CASE a \in ticked
    BY <2>1, <2>2, PickerChecksKeep
  <2>3. CASE a \notin ticked
    BY <2>1, <2>3, PickerChecksKeep
  <2> QED
    BY <2>2, <2>3
<1>3. ASSUME NEW select \in BOOLEAN, SelectAllAgents(select) PROVE PickerInv'
  <2>1. CASE select
    BY <1>3, <2>1, PickerChecksKeep DEF SelectAllAgents
  <2>2. CASE ~select
    BY <1>3, <2>2, PickerChecksKeep DEF SelectAllAgents
  <2> QED
    BY <2>1, <2>2
<1> QED
  BY <1>1, <1>2, <1>3, PickerOpensKeep, PickerRendersKeep DEF PickerNext

-----------------------------------------------------------------------------
(***************************************************************************)
(* The charts.  Bands and breaks are two passes over the same samples, so  *)
(* they are compared for any samples that a latest one bounds.             *)
(***************************************************************************)
Agree(d, bs, ss, dot) ==
  /\ \A p \in Next2(d) :
       (\E s \in ss : {p[1], p[2]} \subseteq s) <=> ~\E b \in bs : p[1] < b[1] /\ b[2] < p[2]
  /\ \A b \in bs : b[1] < b[2] /\ \A t \in d : t < b[1] \/ t > b[2]
  /\ d # {} => (dot <=> Cardinality(d) = 1 \/ ~\E b \in bs : Latest(d) < b[1])

SeriesInv ==
  /\ data \subseteq Times /\ clock \in Times /\ queryEndTime \in Times
  /\ hours \in Hours /\ (customRange = <<>> \/ customRange \in Zooms)
  /\ BandsMarkBreaks

LEMMA LatestIsLast ==
  ASSUME NEW d \in SUBSET Times, d # {}
  PROVE  Latest(d) \in d /\ \A u \in d : u <= Latest(d)
<1> DEFINE Less == OpToRel(<, Nat)
           left == {MaxTime - u : u \in d}
<1>0. MaxTime \in Nat /\ \A u \in d : u \in Nat /\ u <= MaxTime /\ MaxTime - u \in Nat
  BY MultiChartAssumption DEF Times
<1>1. IsWellFoundedOn(Less, Nat) /\ left \subseteq Nat /\ left # {}
  BY <1>0, NatLessThanWellFounded
<1>2. \A g, h \in Nat : g < h => <<g, h>> \in Less
  BY DEF OpToRel
<1>3. PICK h \in left : \A g \in left : ~ (<<g, h>> \in Less)
  <2> HIDE DEF Less, left
  <2> QED
    BY <1>1, WFMin
<1>4. PICK m \in d : h = MaxTime - m
  BY <1>3
<1>5. \A u \in d : u <= m
  <2> TAKE u \in d
  <2>1. MaxTime - u \in left /\ MaxTime - u \in Nat /\ h \in Nat
    BY <1>0, <1>4
  <2> HIDE DEF left, Less
  <2>2. ~ (MaxTime - u < h)
    BY <1>2, <1>3, <2>1, Zenon
  <2> QED
    BY <1>0, <1>4, <2>1, <2>2
<1> HIDE DEF Less, left
<1> QED
  BY <1>5 DEF Latest

LEMMA ThresholdsLeaveRoom ==
  ASSUME NEW span \in Nat
  PROVE  /\ ExpectedStep(span) \in Nat \ {0}
         /\ Threshold(span) \in Nat /\ TailThreshold(span) \in Nat
         /\ Threshold(span) >= 2 * ExpectedStep(span)
         /\ TailThreshold(span) >= ExpectedStep(span)
<1>1. Minute \in Nat \ {0} /\ Samples \in Nat \ {0}
  BY MultiChartAssumption
<1>2. span \div Samples \in Nat
  BY <1>1
<1>3. ExpectedStep(span) \in Nat \ {0}
  BY <1>1, <1>2 DEF ExpectedStep, AtLeast
<1>4. Threshold(span) \in Nat /\ Threshold(span) >= 2 * ExpectedStep(span)
  <2> DEFINE s == ExpectedStep(span)
  <2>1. (5 * s) \div 2 \in Nat /\ (5 * s) \div 2 >= 2 * s
    <3> HIDE DEF s
    <3>1. s \in Nat
      BY <1>3 DEF s
    <3> QED
      BY <3>1
  <2> QED
    BY <1>1, <1>3, <2>1 DEF Threshold, AtLeast
<1>5. TailThreshold(span) \in Nat /\ TailThreshold(span) >= Threshold(span)
  <2> DEFINE s == Threshold(span)
  <2>1. (3 * s) \div 2 \in Nat /\ (3 * s) \div 2 >= s
    <3> HIDE DEF s
    <3>1. s \in Nat
      BY <1>4 DEF s
    <3> QED
      BY <3>1
  <2> QED
    BY <1>1, <1>4, <2>1 DEF TailThreshold, AtLeast
<1> QED
  BY <1>3, <1>4, <1>5

\* The passes over samples d that have last as their latest: bands are a step clear of
\* the samples around a pair in wide, and cuts interrupt the line into pieces ss.
Passes(d, last, end, step, limit, tail, wide, bs, cuts, ss) ==
  /\ wide = {q \in Next2(d) : q[2] - q[1] > limit}
  /\ bs = {<<p[1] + step, p[2] - step>> : p \in wide}
             \cup IF tail THEN {<<last + step, end>>} ELSE {}
  /\ cuts = {p[1] : p \in wide} \cup IF tail THEN {last} ELSE {}
  /\ ss = {{u \in d : ~\E c \in cuts : (t <= c /\ c < u) \/ (u <= c /\ c < t)} : t \in d}

Matching(d, last, bs, ss, dot) ==
  /\ \A p \in Next2(d) :
       (\E s \in ss : {p[1], p[2]} \subseteq s) <=> ~\E b \in bs : p[1] < b[1] /\ b[2] < p[2]
  /\ dot <=> ~\E b \in bs : last < b[1]
  /\ \A b \in bs : b[1] < b[2] /\ \A t \in d : t < b[1] \/ t > b[2]

LastOf(d, last) == last \in d /\ \A u \in d : u <= last

LEMMA PassesAgree ==
  ASSUME NEW d \in SUBSET Nat, NEW last, LastOf(d, last), NEW end \in Nat,
         NEW step \in Nat \ {0}, NEW limit \in Nat, limit >= 2 * step,
         NEW tail \in BOOLEAN, tail => end > last + step,
         NEW wide, NEW bs, NEW cuts, NEW ss,
         Passes(d, last, end, step, limit, tail, wide, bs, cuts, ss)
  PROVE  Matching(d, last, bs, ss, last \notin cuts)
<1>0. /\ last \in d /\ \A u \in d : u <= last
      /\ wide = {q \in Next2(d) : q[2] - q[1] > limit}
      /\ bs = {<<p[1] + step, p[2] - step>> : p \in wide}
                \cup (IF tail THEN {<<last + step, end>>} ELSE {})
      /\ cuts = {p[1] : p \in wide} \cup (IF tail THEN {last} ELSE {})
      /\ ss = {{u \in d : ~\E c \in cuts : (t <= c /\ c < u) \/ (u <= c /\ c < t)} : t \in d}
  BY DEF Passes, LastOf
<1> USE <1>0
<1>1. \A p \in Next2(d) : /\ p[1] \in d /\ p[2] \in d /\ p = <<p[1], p[2]>>
                          /\ p[1] < p[2] /\ \A u \in d : u <= p[1] \/ p[2] <= u
  <2> SUFFICES ASSUME NEW p \in Next2(d)
               PROVE  /\ p[1] \in d /\ p[2] \in d /\ p = <<p[1], p[2]>>
                      /\ p[1] < p[2] /\ \A u \in d : u <= p[1] \/ p[2] <= u
    OBVIOUS
  <2>1. p \in d \X d /\ p[1] < p[2] /\ \A u \in d : ~(p[1] < u /\ u < p[2])
    BY DEF Next2
  <2>2. p[1] \in d /\ p[2] \in d /\ p = <<p[1], p[2]>>
    BY <2>1
  <2>3. \A u \in d : u <= p[1] \/ p[2] <= u
    <3> TAKE u \in d
    <3>1. u \in Nat /\ p[1] \in Nat /\ p[2] \in Nat
      BY <2>2
    <3> QED
      BY <2>1, <3>1
  <2> QED
    BY <2>1, <2>2, <2>3
<1>2. \A u \in d : u \in Nat
  OBVIOUS
<1>3. \A p, q \in Next2(d) : p[1] = q[1] => p = q
  <2> TAKE p, q \in Next2(d)
  <2> HAVE p[1] = q[1]
  <2>1. p[2] <= q[2] /\ q[2] <= p[2] /\ p[2] \in Nat /\ q[2] \in Nat
    BY <1>1, <1>2
  <2>2. p[2] = q[2]
    BY <2>1
  <2> QED
    BY <1>1, <2>2
<1>4. \A q \in wide : q \in Next2(d) /\ q[1] + step < q[2] - step
  BY <1>1, <1>2
<1>5. \A b \in bs : \/ \E q \in wide : b[1] = q[1] + step /\ b[2] = q[2] - step
                    \/ tail /\ b[1] = last + step /\ b[2] = end
  OBVIOUS
<1>6. \A c \in cuts : (\E q \in wide : c = q[1]) \/ (tail /\ c = last)
  OBVIOUS
<1>7. \A p \in Next2(d) : (\E b \in bs : p[1] < b[1] /\ b[2] < p[2]) <=> p \in wide
  <2> SUFFICES ASSUME NEW p \in Next2(d)
               PROVE  (\E b \in bs : p[1] < b[1] /\ b[2] < p[2]) <=> p \in wide
    OBVIOUS
  <2>0. p[1] \in Nat /\ p[2] \in Nat /\ p[1] < p[2] /\ p[1] \in d /\ p[2] \in d
        /\ p[2] <= last /\ last \in Nat
    BY <1>1, <1>2
  <2>1. ASSUME p \in wide PROVE \E b \in bs : p[1] < b[1] /\ b[2] < p[2]
    <3>1. <<p[1] + step, p[2] - step>> \in bs
      BY <2>1
    <3> QED
      BY <2>0, <3>1
  <2>2. ASSUME NEW b \in bs, p[1] < b[1], b[2] < p[2] PROVE p \in wide
    <3>1. CASE \E q \in wide : b[1] = q[1] + step /\ b[2] = q[2] - step
      <4>1. PICK q \in wide : b[1] = q[1] + step /\ b[2] = q[2] - step
        BY <3>1
      <4>2. /\ q \in Next2(d) /\ q[1] \in Nat /\ q[2] \in Nat /\ q[1] < q[2]
            /\ q[1] + step < q[2] - step
            /\ (p[1] <= q[1] \/ q[2] <= p[1]) /\ (q[1] <= p[1] \/ p[2] <= q[1])
        BY <1>1, <1>2, <1>4, <2>0
      <4>3. p[1] < q[1] + step /\ q[2] - step < p[2]
        BY <2>2, <4>1
      <4>4. ~(q[2] <= p[1])
        BY <2>0, <4>2, <4>3
      <4>5. ~(p[2] <= q[1])
        BY <2>0, <4>2, <4>3
      <4>6. p[1] = q[1]
        BY <2>0, <4>2, <4>4, <4>5
      <4> QED
        BY <1>3, <4>2, <4>6
    <3>2. CASE tail /\ b[1] = last + step /\ b[2] = end
      BY <2>0, <2>2, <3>2
    <3> QED
      BY <1>5, <3>1, <3>2
  <2> QED
    BY <2>1, <2>2
<1>8. \A p \in Next2(d) : (\E s \in ss : {p[1], p[2]} \subseteq s) <=> p \notin wide
  <2> SUFFICES ASSUME NEW p \in Next2(d)
               PROVE  (\E s \in ss : {p[1], p[2]} \subseteq s) <=> p \notin wide
    OBVIOUS
  <2> DEFINE Piece(t) == {u \in d : ~\E c \in cuts : (t <= c /\ c < u) \/ (u <= c /\ c < t)}
  <2>0. p[1] \in Nat /\ p[2] \in Nat /\ p[1] < p[2] /\ p[1] \in d /\ p[2] \in d
        /\ p[2] <= last /\ last \in Nat
    BY <1>1, <1>2
  <2>1. ASSUME p \in wide, NEW s \in ss, p[1] \in s, p[2] \in s PROVE FALSE
    <3>1. PICK t \in d : s = Piece(t)
      OBVIOUS
    <3>2. p[1] \in cuts
      BY <2>1
    <3>3. t <= p[1] \/ p[1] < t
      BY <1>2, <2>0
    <3>4. ~(t <= p[1])
      BY <2>0, <2>1, <3>1, <3>2
    <3>5. ~(p[1] < t)
      BY <2>0, <2>1, <3>1, <3>2
    <3> QED
      BY <3>3, <3>4, <3>5
  <2>2. ASSUME p \notin wide PROVE \E s \in ss : {p[1], p[2]} \subseteq s
    <3>1. \A c \in cuts : c \in d /\ c # p[1]
      <4> TAKE c \in cuts
      <4>1. CASE \E q \in wide : c = q[1]
        BY <1>1, <1>3, <1>4, <2>2, <4>1
      <4>2. CASE tail /\ c = last
        BY <2>0, <4>2
      <4> QED
        BY <1>6, <4>1, <4>2
    <3>2. \A c \in cuts : /\ ~(p[1] <= c /\ c < p[2]) /\ ~(p[2] <= c /\ c < p[1])
                          /\ ~(p[1] <= c /\ c < p[1])
      <4> TAKE c \in cuts
      <4>1. c \in Nat /\ c # p[1] /\ (c <= p[1] \/ p[2] <= c)
        BY <1>1, <1>2, <3>1
      <4> QED
        BY <2>0, <4>1
    <3>3. p[1] \in Piece(p[1]) /\ p[2] \in Piece(p[1])
      BY <2>0, <3>2
    <3>4. Piece(p[1]) \in ss
      BY <2>0
    <3> QED
      BY <3>3, <3>4
  <2> QED
    BY <2>1, <2>2
<1>9. \A q \in wide : q[1] < last /\ q[1] + step < last
  <2> TAKE q \in wide
  <2>1. q[1] \in Nat /\ q[2] \in Nat /\ q[2] <= last /\ last \in Nat /\ q[1] + step < q[2] - step
    BY <1>1, <1>2, <1>4
  <2> QED
    BY <2>1
<1>10. last \notin cuts <=> ~\E b \in bs : last < b[1]
  <2>1. ASSUME tail PROVE last \in cuts /\ \E b \in bs : last < b[1]
    <3>1. last \in cuts /\ <<last + step, end>> \in bs
      BY <2>1
    <3> QED
      BY <1>2, <3>1
  <2>2. ASSUME ~tail PROVE last \notin cuts /\ ~\E b \in bs : last < b[1]
    <3>1. last \notin cuts
      BY <1>2, <1>6, <1>9, <2>2
    <3>2. ASSUME NEW b \in bs PROVE ~(last < b[1])
      <4>1. PICK q \in wide : b[1] = q[1] + step
        BY <1>5, <2>2
      <4>2. q[1] \in Nat /\ last \in Nat
        BY <1>1, <1>2, <1>4
      <4> QED
        BY <1>9, <4>1, <4>2
    <3> QED
      BY <3>1, <3>2
  <2> QED
    BY <2>1, <2>2
<1>11. ASSUME NEW b \in bs PROVE b[1] < b[2] /\ \A t \in d : t < b[1] \/ t > b[2]
  <2>1. CASE \E q \in wide : b[1] = q[1] + step /\ b[2] = q[2] - step
    <3>1. PICK q \in wide : b[1] = q[1] + step /\ b[2] = q[2] - step
      BY <2>1
    <3>2. q[1] \in Nat /\ q[2] \in Nat /\ q[1] + step < q[2] - step
          /\ \A u \in d : u \in Nat /\ (u <= q[1] \/ q[2] <= u)
      BY <1>1, <1>2, <1>4
    <3> QED
      BY <3>1, <3>2
  <2>2. CASE tail /\ b[1] = last + step /\ b[2] = end
    BY <1>2, <2>2
  <2> QED
    BY <1>5, <2>1, <2>2
<1> QED
  BY <1>7, <1>8, <1>10, <1>11 DEF Matching

LEMMA DrawnAgree ==
  ASSUME NEW d \in SUBSET Times, d # {}, NEW end \in Nat, NEW span \in Nat
  PROVE  Agree(d, CalculateDowntimes(d, end, span), Segments(d, end, span),
               Latest(d) \notin Breaks(d, end, span))
<1> DEFINE last == Latest(d)
           step == ExpectedStep(span)
           limit == Threshold(span)
           tail == end > last + TailThreshold(span)
           wide == {q \in Next2(d) : q[2] - q[1] > limit}
           bs == CalculateDowntimes(d, end, span)
           cuts == {p[1] : p \in wide} \cup (IF tail THEN {last} ELSE {})
           ss == {{u \in d : ~\E c \in cuts : (t <= c /\ c < u) \/ (u <= c /\ c < t)}
                     : t \in d}
<1>0. IsFiniteSet(d) /\ Cardinality(d) \in Nat /\ Cardinality(d) # 0
  <2>1. MaxTime \in Nat
    BY MultiChartAssumption
  <2>2. IsFiniteSet(Times)
    BY <2>1, FS_Interval DEF Times
  <2>3. IsFiniteSet(d)
    BY <2>2, FS_Subset
  <2> QED
    BY <2>3, FS_CardinalityType, FS_EmptySet
<1>1. last \in d /\ (\A u \in d : u <= last) /\ d \in SUBSET Nat
  BY LatestIsLast DEF Times
<1>2. /\ step \in Nat \ {0} /\ limit \in Nat /\ limit >= 2 * step
      /\ TailThreshold(span) \in Nat /\ TailThreshold(span) >= step
  BY ThresholdsLeaveRoom
<1>3. tail \in BOOLEAN /\ (tail => end > last + step)
  <2> HIDE DEF last, step
  <2>1. last \in Nat /\ TailThreshold(span) \in Nat /\ step \in Nat
    BY <1>1, <1>2
  <2> QED
    BY <1>2, <2>1
<1>4. bs = {<<p[1] + step, p[2] - step>> : p \in wide}
             \cup (IF tail THEN {<<last + step, end>>} ELSE {})
  BY DEF CalculateDowntimes
<1>5. cuts = {p[1] : p \in wide} \cup (IF tail THEN {last} ELSE {})
  OBVIOUS
<1>6. ss = {{u \in d : ~\E c \in cuts : (t <= c /\ c < u) \/ (u <= c /\ c < t)} : t \in d}
  OBVIOUS
<1>7. wide = {q \in Next2(d) : q[2] - q[1] > limit}
  OBVIOUS
<1>8. ASSUME Cardinality(d) > 1
       PROVE  Breaks(d, end, span) = cuts /\ Segments(d, end, span) = ss
  <2>1. ~(Cardinality(d) < 2)
    BY <1>0, <1>8
  <2>2. Breaks(d, end, span) = cuts
    BY <2>1 DEF Breaks
  <2> QED
    BY <2>2 DEF Segments
<1>9. ASSUME Cardinality(d) = 1 PROVE Breaks(d, end, span) = {}
  BY <1>9 DEF Breaks
<1> HIDE DEF last, step, limit, tail, wide, bs, cuts, ss
<1>10. LastOf(d, last) /\ Passes(d, last, end, step, limit, tail, wide, bs, cuts, ss)
  BY <1>1, <1>4, <1>5, <1>6, <1>7 DEF LastOf, Passes
<1>11. Matching(d, last, bs, ss, last \notin cuts)
  BY <1>1, <1>2, <1>3, <1>10, PassesAgree
<1>12. CASE Cardinality(d) > 1
  <2>1. Cardinality(d) # 1
    BY <1>0, <1>12
  <2> QED
    BY <1>11, <1>8, <1>12, <2>1 DEF Agree, Matching, last, bs
<1>13. CASE Cardinality(d) = 1
  <2>1. Next2(d) = {}
    <3>1. PICK x : d = {x}
      BY <1>0, <1>13, FS_Singleton
    <3>2. x \in Nat
      BY <1>1, <3>1
    <3> QED
      BY <3>1, <3>2 DEF Next2
  <2>2. Latest(d) \notin Breaks(d, end, span)
    BY <1>9, <1>13
  <2> QED
    BY <1>11, <1>13, <2>1, <2>2 DEF Agree, Matching, bs
<1> QED
  BY <1>0, <1>12, <1>13

LEMMA SeriesInvInit == ChartInit => SeriesInv
<1> SUFFICES ASSUME ChartInit PROVE SeriesInv
  OBVIOUS
<1>1. 0 \in Times
  BY MultiChartAssumption DEF Times
<1> QED
  BY <1>1 DEF ChartInit, SeriesInv, BandsMarkBreaks, Next2

LEMMA SpanTyped ==
  ASSUME NEW h \in Hours, NEW custom, custom = <<>> \/ custom \in Zooms
  PROVE  Span(h, custom) \in Nat
<1>1. CASE custom = <<>>
  BY <1>1, MultiChartAssumption DEF Span
<1>2. CASE custom # <<>>
  <2>1. custom[1] \in Nat /\ custom[2] \in Nat /\ custom[1] < custom[2]
    BY <1>2, MultiChartAssumption
  <2> QED
    BY <1>2, <2>1 DEF Span
<1> QED
  BY <1>1, <1>2

LEMMA DrawKeeps ==
  ASSUME data' \subseteq Times, clock' \in Times, queryEndTime' \in Times,
         hours' \in Hours, customRange' = <<>> \/ customRange' \in Zooms, Draw
  PROVE  SeriesInv'
<1>1. CASE data' = {}
  BY <1>1 DEF Draw, SeriesInv, BandsMarkBreaks, Next2
<1>2. CASE data' # {}
  <2> DEFINE d == data'
             end == queryEndTime'
             span == Span(hours', customRange')
             bs == bands'
             ss == segments'
             dot == marker'
  <2>1. d \in SUBSET Times /\ end \in Nat /\ d # {}
    BY <1>2 DEF Times
  <2>2. span \in Nat
    BY SpanTyped
  <2>3. /\ bs = CalculateDowntimes(d, end, span) /\ ss = Segments(d, end, span)
        /\ dot = (Latest(d) \notin Breaks(d, end, span))
    BY <1>2 DEF Draw
  <2>4. BandsMarkBreaks' <=> Agree(d, bs, ss, dot)
    BY DEF BandsMarkBreaks, Agree
  <2>5. Agree(d, bs, ss, dot)
    <3> HIDE DEF d, end, span, bs, ss, dot
    <3> QED
      BY <2>1, <2>2, <2>3, DrawnAgree
  <2> QED
    BY <2>4, <2>5 DEF SeriesInv
<1> QED
  BY <1>1, <1>2

LEMMA LivePointKeeps ==
  ASSUME SeriesInv, NEW t \in Times, NEW first \in BOOLEAN, NEW another \in BOOLEAN,
         LivePoint(t, first, another)
  PROVE  SeriesInv'
<1>1. CASE customRange # <<>> \/ ~(first \/ another)
  BY <1>1 DEF LivePoint, SeriesInv, BandsMarkBreaks
<1>2. CASE ~(customRange # <<>> \/ ~(first \/ another))
  <2>1. /\ data' = IF first THEN WithLivePoint(data, t) ELSE data
        /\ queryEndTime' = AtLeast(queryEndTime, t) /\ clock' = t
        /\ hours' = hours /\ customRange' = customRange /\ Draw
    BY <1>2 DEF LivePoint
  <2>2. WithLivePoint(data, t) \subseteq Times
    BY DEF WithLivePoint, SeriesInv
  <2>3. data' \subseteq Times /\ queryEndTime' \in Times
    BY <2>1, <2>2 DEF SeriesInv, AtLeast
  <2> QED
    BY <2>1, <2>3, DrawKeeps DEF SeriesInv
<1> QED
  BY <1>1, <1>2

LEMMA LoadedSamples ==
  ASSUME NEW from \in Int, NEW to \in Int, NEW d \in RangeSamples(from, to)
  PROVE  d \subseteq from .. to
  BY DEF RangeSamples

LEMMA ShowHoursKeeps ==
  ASSUME SeriesInv, NEW h \in Hours, NEW t \in Times, NEW d \in RangeSamples(t - h, t),
         ShowHours(h, t, d)
  PROVE  SeriesInv'
<1>1. /\ clock' = t /\ queryEndTime' = t /\ hours' = h /\ customRange' = <<>>
      /\ data' = d /\ t >= h /\ Draw
  BY DEF ShowHours
<1>2. t \in Nat /\ h \in Nat /\ t - h \in Nat /\ t - h \in Int /\ t \in Int /\ t <= MaxTime
      /\ MaxTime \in Nat
  BY <1>1, MultiChartAssumption DEF Times
<1>3. d \subseteq (t - h) .. t
  BY <1>2, LoadedSamples
<1>4. d \subseteq Times
  BY <1>2, <1>3 DEF Times
<1> QED
  BY <1>1, <1>4, DrawKeeps

LEMMA ShowCustomKeeps ==
  ASSUME SeriesInv, NEW z \in Zooms, NEW d \in RangeSamples(z[1], z[2]),
         ShowCustom(z[1], z[2], d)
  PROVE  SeriesInv'
<1>0. z[1] \in Nat /\ z[2] \in Nat /\ z = <<z[1], z[2]>>
  BY MultiChartAssumption
<1>1. /\ clock' = clock /\ queryEndTime' = z[2] /\ hours' = hours
      /\ customRange' = <<z[1], z[2]>> /\ data' = d /\ z[2] <= clock /\ Draw
  BY DEF ShowCustom
<1>2. d \subseteq z[1] .. z[2]
  BY <1>0, LoadedSamples
<1>3. clock \in Nat /\ clock <= MaxTime /\ MaxTime \in Nat
  BY MultiChartAssumption DEF SeriesInv, Times
<1>4. d \subseteq Times /\ z[2] \in Times
  BY <1>0, <1>1, <1>2, <1>3 DEF Times
<1>5. customRange' \in Zooms
  BY <1>0, <1>1
<1> QED
  BY <1>1, <1>4, <1>5, DrawKeeps DEF SeriesInv

LEMMA SeriesStep == SeriesInv /\ [ChartNext]_chartVars => SeriesInv'
<1> SUFFICES ASSUME SeriesInv, [ChartNext]_chartVars PROVE SeriesInv'
  OBVIOUS
<1>1. CASE UNCHANGED chartVars
  BY <1>1 DEF chartVars, SeriesInv, BandsMarkBreaks
<1>2. CASE ChartNext
  BY <1>2, ShowHoursKeeps, ShowCustomKeeps, LivePointKeeps DEF ChartNext
<1> QED
  BY <1>1, <1>2

-----------------------------------------------------------------------------
(***************************************************************************)
(* The time axis.  A label before the newest is only drawn where it leaves *)
(* room for the newest, so that there is always room for that one          *)
(* (RoomForNewest).                                                        *)
(***************************************************************************)
AxisFits ==
  /\ plot \in Plots /\ Count \in 1 .. MostTicks /\ labels \in [0 .. Count -> Widths]
  /\ tick \in 0 .. Count + 1 /\ edge \in Int
  /\ \A a \in drawn : a[1] \in Int /\ a[2] \in Int /\ a[1] <= a[2] /\ a[2] <= edge

RoomForNewest == tick <= Count => edge + 2 * Gap <= 2 * plot - 2 * labels[Count]

AxisInv == AxisFits /\ RoomForNewest /\ LabelsDoNotOverlap

LEMMA AxisNumbers ==
  /\ MinSlot \in Nat \ {0} /\ Plots \subseteq Nat \ {0} /\ Widths \subseteq Nat \ {0}
  /\ \A w \in Widths : Nothing + 2 * Gap <= 0 - 2 * w
  /\ Gap = 2 /\ MostTicks = 5 /\ Nothing \in Int
<1>1. Gap = 2 /\ MostTicks = 5 /\ Nothing \in Int
  BY DEF Gap, MostTicks, Nothing
<1>2. MinSlot \in Nat \ {0} /\ Plots \subseteq Nat \ {0} /\ Widths \subseteq Nat \ {0}
  BY TimeAxisAssumption
<1>3. \A w \in Widths : Nothing + 2 * Gap <= 0 - 2 * w
  <2> TAKE w \in Widths
  <2>1. Nothing + 2 * Gap + 2 * w < 0 /\ w \in Nat
    BY <1>2, TimeAxisAssumption
  <2> QED
    BY <1>1, <2>1
<1> QED
  BY <1>1, <1>2, <1>3

LEMMA WidestOfFour ==
  ASSUME NEW a \in Nat, NEW b \in Nat, NEW c \in Nat, NEW d \in Nat
  PROVE  Widest({a, b, c, d}) \in {a, b, c, d} /\ Widest({a, b, c, d}) >= a
<1>1. \E w \in {a, b, c, d} : \A v \in {a, b, c, d} : v <= w
  <2>1. CASE b <= a /\ c <= a /\ d <= a
    BY <2>1
  <2>2. CASE a <= b /\ c <= b /\ d <= b
    BY <2>2
  <2>3. CASE a <= c /\ b <= c /\ d <= c
    BY <2>3
  <2>4. CASE a <= d /\ b <= d /\ c <= d
    BY <2>4
  <2> QED
    BY <2>1, <2>2, <2>3, <2>4
<1> QED
  BY <1>1 DEF Widest

LEMMA TicksCounted ==
  ASSUME NEW width \in Plots, NEW a \in Widths, NEW b \in Widths, NEW c \in Widths
  PROVE  TickCount(width, {a, b, c}) \in 2 .. MostTicks
<1> DEFINE slots == {MinSlot} \cup {w + 3 * Gap : w \in {a, b, c}}
           slot == Widest(slots)
           room == Widest({2, width \div slot})
<1>1. slots = {MinSlot, a + 6, b + 6, c + 6}
  BY DEF Gap
<1>2. slot \in Nat \ {0}
  <2>1. a \in Nat /\ b \in Nat /\ c \in Nat /\ MinSlot \in Nat \ {0}
    BY AxisNumbers
  <2>2. /\ Widest({MinSlot, a + 6, b + 6, c + 6}) \in {MinSlot, a + 6, b + 6, c + 6}
        /\ Widest({MinSlot, a + 6, b + 6, c + 6}) >= MinSlot
    BY <2>1, WidestOfFour
  <2> HIDE DEF slots
  <2>3. slot \in {MinSlot, a + 6, b + 6, c + 6} /\ slot >= MinSlot
    BY <1>1, <2>2
  <2> HIDE DEF slot
  <2> QED
    BY <2>1, <2>3
<1>3. width \div slot \in Nat
  <2> HIDE DEF slot
  <2> QED
    BY <1>2, AxisNumbers
<1>4. room \in Nat /\ room >= 2
  <2> DEFINE x == width \div slot
  <2>1. x \in Nat
    BY <1>3
  <2> HIDE DEF x
  <2>2. Widest({2, x}) \in Nat /\ Widest({2, x}) >= 2
    <3>1. CASE x <= 2
      BY <2>1, <3>1 DEF Widest
    <3>2. CASE 2 <= x
      BY <2>1, <3>2 DEF Widest
    <3> QED
      BY <2>1, <3>1, <3>2
  <2> QED
    BY <2>2 DEF x
<1>5. TickCount(width, {a, b, c}) = IF room < MostTicks THEN room ELSE MostTicks
  BY DEF TickCount
<1> HIDE DEF room
<1> QED
  BY <1>4, <1>5, AxisNumbers

LEMMA Counted ==
  ASSUME NEW n \in 1 .. MostTicks, DOMAIN labels = 0 .. n
  PROVE  Count = n
<1>1. \A m \in 1 .. MostTicks : 0 .. m = 0 .. n => m = n
  <2> SUFFICES ASSUME NEW m \in 1 .. MostTicks, 0 .. m = 0 .. n PROVE m = n
    OBVIOUS
  <2>1. m \in Nat /\ n \in Nat /\ m \in 0 .. n /\ n \in 0 .. m
    BY AxisNumbers
  <2> QED
    BY <2>1
<1> QED
  BY <1>1 DEF Count

LEMMA AxisInvInit == AxisInit => AxisInv
<1> SUFFICES ASSUME AxisInit PROVE AxisInv
  OBVIOUS
<1>1. PICK a \in Widths, b \in Widths, c \in Widths :
        labels \in [0 .. TickCount(plot, {a, b, c}) -> Widths]
  BY DEF AxisInit
<1> DEFINE n == TickCount(plot, {a, b, c})
<1>2. plot \in Plots /\ tick = 0 /\ edge = Nothing /\ drawn = {}
  BY DEF AxisInit
<1>3. n \in 1 .. MostTicks
  <2>1. n \in 2 .. MostTicks
    BY <1>2, TicksCounted
  <2> HIDE DEF n
  <2> QED
    BY <2>1, AxisNumbers
<1>4. labels \in [0 .. n -> Widths]
  BY <1>1
<1> HIDE DEF n
<1>5. Count = n
  BY <1>3, <1>4, Counted
<1>6. AxisFits
  <2>1. tick \in 0 .. Count + 1
    BY <1>2, <1>3, <1>5, AxisNumbers
  <2> QED
    BY <1>2, <1>3, <1>4, <1>5, <2>1, AxisNumbers DEF AxisFits
<1>7. RoomForNewest
  <2>1. labels[Count] \in Widths
    BY <1>3, <1>4, <1>5, AxisNumbers
  <2>2. labels[Count] \in Nat /\ plot \in Nat
    BY <1>2, <2>1, AxisNumbers
  <2>3. edge + 2 * Gap <= 0 - 2 * labels[Count]
    BY <1>2, <2>1, AxisNumbers
  <2>4. edge \in Int /\ Gap = 2
    BY <1>2, AxisNumbers
  <2> QED
    BY <2>2, <2>3, <2>4 DEF RoomForNewest
<1>8. LabelsDoNotOverlap
  <2>1. ~(tick > Count)
    BY <1>2, <1>3, <1>5, AxisNumbers
  <2> QED
    BY <1>2, <2>1 DEF LabelsDoNotOverlap
<1> QED
  BY <1>6, <1>7, <1>8 DEF AxisInv

LEMMA LastOfEqualParts ==
  ASSUME NEW w \in Nat, NEW n \in 1 .. 5
  PROVE  (2 * w * n) \div n = 2 * w
<1>1. CASE n = 1
  BY <1>1
<1>2. CASE n = 2
  BY <1>2
<1>3. CASE n = 3
  BY <1>3
<1>4. CASE n = 4
  BY <1>4
<1>5. CASE n = 5
  BY <1>5
<1> QED
  BY <1>1, <1>2, <1>3, <1>4, <1>5

LEMMA Positions ==
  ASSUME AxisFits, NEW i \in 0 .. Count
  PROVE  /\ Position(i)[1] \in Int /\ Position(i)[2] \in Int
         /\ Position(i)[1] <= Position(i)[2]
         /\ i = Count => Position(i)[1] = 2 * plot - 2 * labels[Count]
<1> DEFINE n == Count
           x == (2 * plot * i) \div n
           w == labels[i]
<1>1. n \in 1 .. 5 /\ plot \in Nat /\ w \in Nat /\ i \in Nat
  <2>1. n \in 1 .. 5 /\ plot \in Nat /\ i \in 0 .. n /\ labels \in [0 .. n -> Widths]
    BY AxisNumbers DEF AxisFits
  <2> HIDE DEF n
  <2>2. labels[i] \in Widths /\ i \in Nat
    BY <2>1
  <2>3. labels[i] \in Nat
    BY <2>2, AxisNumbers
  <2> QED
    BY <2>1, <2>2, <2>3
<1>2. x \in Int
  <2> DEFINE y == 2 * plot * i
  <2>1. y \in Int
    BY <1>1
  <2> HIDE DEF y, n
  <2>2. y \div n \in Int
    BY <1>1, <2>1
  <2> QED
    BY <2>2 DEF y
<1>3. i = n => x = 2 * plot
  BY <1>1, LastOfEqualParts
<1>4. Position(i) = IF i = 0 THEN <<x, x + 2 * w>>
                    ELSE IF i = n THEN <<x - 2 * w, x>> ELSE <<x - w, x + w>>
  BY DEF Position
<1> HIDE DEF x, n, w
<1>5. /\ Position(i)[1] \in Int /\ Position(i)[2] \in Int
      /\ Position(i)[1] <= Position(i)[2]
  BY <1>1, <1>2, <1>4
<1>6. ASSUME i = n PROVE Position(i)[1] = 2 * plot - 2 * labels[Count]
  <2>1. i # 0
    BY <1>1, <1>6
  <2>2. Position(i)[1] = x - 2 * w
    BY <1>4, <1>6, <2>1
  <2> QED
    BY <1>3, <1>6, <2>2 DEF w, n
<1> QED
  BY <1>5, <1>6 DEF n

LEMMA DrawTickKeeps ==
  ASSUME AxisInv, DrawTick
  PROVE  AxisInv'
<1> DEFINE n == Count
           new == Position(tick)
<1>1. /\ tick <= n /\ tick' = tick + 1 /\ plot' = plot /\ labels' = labels
      /\ n \in 1 .. 5 /\ tick \in 0 .. n + 1 /\ edge \in Int /\ plot \in Nat
      /\ AxisFits
  BY AxisNumbers DEF DrawTick, AxisInv, AxisFits
<1>2. Count' = n /\ Position(Count)' = Position(n)
  BY <1>1 DEF Count, Position
<1>3. tick \in 0 .. n /\ n \in 0 .. n /\ tick' \in 0 .. n + 1 /\ (tick' > n <=> tick = n)
  BY <1>1
<1>4. /\ new[1] \in Int /\ new[2] \in Int /\ new[1] <= new[2]
      /\ tick = n => new[1] = 2 * plot - 2 * labels[n]
  BY <1>1, <1>3, Positions
<1>5. labels[n] \in Nat
  BY <1>1, <1>3, AxisNumbers DEF AxisFits
<1>6. Gap = 2
  BY DEF Gap
<1>7. /\ \A a \in drawn : a[1] \in Int /\ a[2] \in Int /\ a[1] <= a[2] /\ a[2] <= edge
      /\ \A a, b \in drawn : a = b \/ a[2] + 2 * Gap <= b[1] \/ b[2] + 2 * Gap <= a[1]
      /\ edge + 2 * Gap <= 2 * plot - 2 * labels[n]
  BY <1>1 DEF AxisInv, AxisFits, RoomForNewest, LabelsDoNotOverlap
<1>8. plot' \in Plots /\ n \in 1 .. MostTicks /\ labels' \in [0 .. n -> Widths]
  BY <1>1 DEF AxisFits
<1>9. CASE Fits(tick)
  <2>1. /\ drawn' = drawn \cup {new} /\ edge' = new[2] /\ new[1] >= edge + 2 * Gap
        /\ tick < n => new[2] + 2 * Gap <= 2 * plot - 2 * labels[n]
    BY <1>9 DEF DrawTick, Fits
  <2> HIDE DEF n, new
  <2>2. \A a \in drawn : a[1] \in Int /\ a[2] \in Int /\ a[1] <= a[2] /\ a[2] <= new[2]
                         /\ a[2] + 2 * Gap <= new[1]
    <3> TAKE a \in drawn
    <3>1. a[1] \in Int /\ a[2] \in Int /\ a[1] <= a[2] /\ a[2] <= edge
      BY <1>7
    <3> QED
      BY <1>1, <1>4, <1>6, <2>1, <3>1
  <2>3. edge' \in Int
        /\ \A a \in drawn' : a[1] \in Int /\ a[2] \in Int /\ a[1] <= a[2] /\ a[2] <= edge'
    BY <1>4, <2>1, <2>2
  <2>4. \A a, b \in drawn' : a = b \/ a[2] + 2 * Gap <= b[1] \/ b[2] + 2 * Gap <= a[1]
    BY <1>7, <2>1, <2>2
  <2>5. tick' <= n => edge' + 2 * Gap <= 2 * plot - 2 * labels[n]
    BY <1>1, <1>3, <2>1
  <2>6. tick' > n => new \in drawn' /\ tick = n
    BY <1>3, <2>1
  <2>7. new = Position(tick)
    BY DEF new
  <2>8. AxisFits'
    BY <1>2, <1>3, <1>8, <2>3 DEF AxisFits
  <2>9. RoomForNewest'
    BY <1>1, <1>2, <2>5 DEF RoomForNewest
  <2>10. LabelsDoNotOverlap'
    <3>1. tick' > n => Position(n) \in drawn'
      BY <2>6, <2>7
    <3> QED
      BY <1>2, <2>4, <3>1 DEF LabelsDoNotOverlap
  <2> QED
    BY <2>8, <2>9, <2>10 DEF AxisInv
<1>10. CASE ~Fits(tick)
  <2>1. drawn' = drawn /\ edge' = edge
    BY <1>10 DEF DrawTick
  <2>2. tick # n
    <3>1. ASSUME tick = n PROVE Fits(tick)
      BY <1>1, <1>4, <1>6, <1>7, <3>1 DEF Fits
    <3> QED
      BY <1>10, <3>1
  <2>3. ~(tick' > n)
    BY <1>3, <2>2
  <2> HIDE DEF n, new
  <2>4. AxisFits'
    BY <1>1, <1>2, <1>3, <1>7, <1>8, <2>1 DEF AxisFits
  <2>5. RoomForNewest'
    BY <1>1, <1>2, <1>7, <2>1 DEF RoomForNewest
  <2>6. LabelsDoNotOverlap'
    BY <1>2, <1>7, <2>1, <2>3 DEF LabelsDoNotOverlap
  <2> QED
    BY <2>4, <2>5, <2>6 DEF AxisInv
<1> QED
  BY <1>9, <1>10

LEMMA RedrawAxisKeeps ==
  ASSUME AxisInv, RedrawAxis
  PROVE  AxisInv'
<1>1. /\ tick' = 0 /\ edge' = Nothing /\ drawn' = {} /\ plot' = plot /\ labels' = labels
  BY DEF RedrawAxis
<1>2. Count' = Count
  BY <1>1 DEF Count
<1>3. Count \in 1 .. 5 /\ plot \in Nat /\ labels[Count] \in Widths /\ AxisFits
  BY AxisNumbers DEF AxisInv, AxisFits
<1>4. 0 \in 0 .. Count + 1 /\ ~(0 > Count)
  BY <1>3
<1>5. AxisFits'
  BY <1>1, <1>2, <1>3, <1>4, AxisNumbers DEF AxisFits
<1>6. Nothing + 2 * Gap <= 2 * plot - 2 * labels[Count]
  <2>1. Nothing + 2 * Gap <= 0 - 2 * labels[Count] /\ labels[Count] \in Nat
        /\ Nothing \in Int /\ Gap = 2
    BY <1>3, AxisNumbers
  <2> QED
    BY <1>3, <2>1
<1>7. RoomForNewest'
  BY <1>1, <1>2, <1>6 DEF RoomForNewest
<1>8. LabelsDoNotOverlap'
  BY <1>1, <1>2, <1>4 DEF LabelsDoNotOverlap
<1> QED
  BY <1>5, <1>7, <1>8 DEF AxisInv

LEMMA AxisStep == AxisInv /\ [AxisNext]_axisVars => AxisInv'
<1> SUFFICES ASSUME AxisInv, [AxisNext]_axisVars PROVE AxisInv'
  OBVIOUS
<1>1. CASE UNCHANGED axisVars
  <2>1. Count' = Count /\ Position(Count)' = Position(Count)
    BY <1>1 DEF axisVars, Count, Position
  <2> QED
    BY <1>1, <2>1 DEF axisVars, AxisInv, AxisFits, RoomForNewest, LabelsDoNotOverlap
<1>2. CASE AxisNext
  BY <1>2, DrawTickKeeps, RedrawAxisKeeps DEF AxisNext
<1> QED
  BY <1>1, <1>2

-----------------------------------------------------------------------------
(***************************************************************************)
(* All the pages and parts.  Those that do not run stand still, and of the *)
(* graphs only the steps matter.                                           *)
(***************************************************************************)
PanelPagesInv ==
  /\ HistoryInv /\ OrderInv /\ RowsInv /\ DialogInv
  /\ PickerInv /\ SeriesInv /\ (part = "axis" => AxisInv)

LEMMA PanelPagesInvInit == PanelPagesInit => PanelPagesInv
<1> SUFFICES ASSUME PanelPagesInit PROVE PanelPagesInv
  OBVIOUS
<1>1. /\ Init /\ OrderInit /\ RowsInit /\ DialogInit /\ PickerInit /\ ChartInit
      /\ part = "axis" => AxisInit
  BY DEF PanelPagesInit, PagesInit, PanelsInit
<1> QED
  BY <1>1, HistoryInvInit, OrderInvInit, RowsInvInit, DialogInvInit, PickerInvInit,
     SeriesInvInit, AxisInvInit DEF PanelPagesInv

\* A step of the composition is a step of each page and part or leaves it as it is.
LEMMA EachPart ==
  ASSUME [PanelPagesNext]_panelPageVars
  PROVE  /\ [Next]_vars /\ [OrderNext]_orderVars /\ [RowsNext]_rowVars
         /\ [DialogNext]_dialogVars /\ [PickerNext]_pickerVars /\ [ChartNext]_chartVars
         /\ [AxisNext]_axisVars /\ part' = part
<1>1. CASE UNCHANGED panelPageVars
  BY <1>1 DEF panelPageVars, pageVars, panelVars
<1>2. CASE PagesNext /\ UNCHANGED panelVars
  BY <1>2 DEF PagesNext, panelVars
<1>3. CASE PanelsNext /\ UNCHANGED pageVars
  BY <1>3 DEF PanelsNext, pageVars
<1> QED
  BY <1>1, <1>2, <1>3 DEF PanelPagesNext

LEMMA PanelPagesStep == PanelPagesInv /\ [PanelPagesNext]_panelPageVars => PanelPagesInv'
  BY EachPart, HistoryStep, OrderStep, RowsStep, DialogStep, PickerStep, SeriesStep, AxisStep
     DEF PanelPagesInv

LEMMA PanelPagesInvHolds == PanelPagesSpec => []PanelPagesInv
<1>1. PanelPagesSpec => PanelPagesInit /\ [][PanelPagesNext]_panelPageVars
  BY DEF PanelPagesSpec
<1> QED
  BY <1>1, PanelPagesInvInit, PanelPagesStep, PTL

\* However filters, pages, agents, tabs and retries cut loads off, an incident history on
\* screen that waits for nothing shows the rows of its filters, its page and its agent,
\* or offers a Retry (incident_history.js).
THEOREM HistoryShowsSelection == PanelPagesSpec => []SettledHistoryShowsSelection
<1>1. PanelPagesInv => SettledHistoryShowsSelection
  BY DEF PanelPagesInv, HistoryInv
<1> QED
  BY <1>1, PanelPagesInvHolds, PTL

\* What a form shows is what it saves, whatever was clicked, dragged, filtered or answered
\* late before: dashboard_edit.js each checked server once and in the order of the list,
\* the rule dialog a rule that was not touched as it was, the agent management the name
\* in the row, and network_monitors_edit.js no prober that cannot run the protocol and
\* all those of a group that were not unchecked.
THEOREM FormsSaveWhatTheyShow == PanelPagesSpec => []PanelShowsWhatIsSaved
<1>1. PanelPagesInv => PanelShowsWhatIsSaved
  BY OrderSaved, RowsAgreeWhenInv
     DEF PanelPagesInv, DialogInv, PickerInv, PanelShowsWhatIsSaved, PagesShowWhatIsSaved
<1> QED
  BY <1>1, PanelPagesInvHolds, PTL

\* For any history, live points and range, one sample included, the bands of multi.js and
\* the breaks that lib/chart/series.js puts into the line agree, and every band is clear
\* of the samples.  The dot on the latest sample is there if and only if no band follows
\* it, but for a series of one sample: its dot is drawn beside a band of the end of the
\* range (series.js:75), so that of it the theorem says nothing but that it is there.  The
\* labels of the time axis neither overlap nor leave out the newest (layers.js).
THEOREM DrawnChartsAreLegible == PanelPagesSpec => []ChartsAreLegible
<1>1. PanelPagesInv => ChartsAreLegible
  BY DEF PanelPagesInv, SeriesInv, AxisInv, ChartsAreLegible
<1> QED
  BY <1>1, PanelPagesInvHolds, PTL
=============================================================================
