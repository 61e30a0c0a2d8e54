----------------------------- MODULE NetworkGraph -----------------------------
(***************************************************************************)
(* The latency and loss graphs above the list of network monitors          *)
(* (web/src/js/components/network_monitors/panels/graph.js).  They are     *)
(* loaded in two steps, the monitors that match the filters and then the   *)
(* history of each over the range of the picker, and either may be         *)
(* overtaken; one message line is shared by progress, failures with their  *)
(* Retry and the remarks of every repaint.                                 *)
(***************************************************************************)
CONSTANTS GraphFilters,   \* filters of the list, or the agent it is mounted on
          Ranges,    \* ranges of the picker
          NoGraphKey

VARIABLES graphFilter, range, visible,
          matched,     \* at the server: filters that some monitor matches
          candidates,  \* the filter whose monitors are known, and whether there are any
          historyData, \* filter and range of the history kept, or NoGraphKey
          hiddenSome,  \* a series is hidden in the legend
          plotted,     \* what the charts show
          message,     \* the message line
          findAsked, histAsked  \* pending.candidates and pending.history

graphVars == <<graphFilter, range, visible, matched, candidates, historyData, hiddenSome, plotted,
               message, findAsked, histAsked>>

NoMonitors == [of |-> NoGraphKey, some |-> FALSE]

GraphInit ==
  /\ graphFilter \in GraphFilters /\ range \in Ranges
  /\ visible = FALSE
  /\ matched \in SUBSET GraphFilters
  /\ candidates = NoMonitors
  /\ historyData = NoGraphKey /\ plotted = NoGraphKey /\ hiddenSome = FALSE
  /\ message = "none"
  /\ findAsked = NoGraphKey /\ histAsked = NoGraphKey

\* loadCandidates, for the filter as it is after the step; a load of histories
\* under way is given up.
LoadCandidates ==
  /\ findAsked' = graphFilter'
  /\ histAsked' = NoGraphKey
  /\ message' = IF historyData' = NoGraphKey THEN "loading" ELSE message

\* paintHistory draws a history that is there, and has the last word in the
\* message line.
PaintHistory(history) ==
  IF history = NoGraphKey THEN UNCHANGED <<plotted, message>>
  ELSE plotted' = history /\ message' = "none"

\* loadHistory: without monitors there is nothing to ask for, and the charts are
\* empty at once.
LoadHistory(known, r) ==
  IF known.some
  THEN /\ histAsked' = [of |-> known.of, range |-> r]
       /\ message' = "loading"
       /\ UNCHANGED <<historyData, plotted>>
  ELSE LET none == IF known.of = NoGraphKey THEN NoGraphKey ELSE [of |-> known.of, range |-> r] IN
       /\ histAsked' = NoGraphKey
       /\ historyData' = none /\ plotted' = none
       /\ message' = "none"

-----------------------------------------------------------------------------
\* A filter, or the delayed search: what is under way is cut off.
FiltersChanged(f) ==
  /\ visible
  /\ graphFilter' = f
  /\ hiddenSome' = FALSE /\ historyData' = NoGraphKey
  /\ LoadCandidates
  /\ UNCHANGED <<range, visible, matched, candidates, plotted>>

CandidatesAnswer ==
  /\ findAsked # NoGraphKey
  /\ findAsked' = NoGraphKey
  /\ candidates' = [of |-> findAsked, some |-> findAsked \in matched]
  /\ LoadHistory(candidates', range)
  /\ UNCHANGED <<graphFilter, range, visible, matched, hiddenSome>>

CandidatesFail ==
  /\ findAsked # NoGraphKey
  /\ findAsked' = NoGraphKey
  /\ message' = "retryCandidates"
  /\ UNCHANGED <<graphFilter, range, visible, matched, candidates, historyData, hiddenSome, plotted,
                 histAsked>>

\* The histories of all monitors have been answered: all, some or none of them
\* loaded.  When none did, the charts stay as they are.
HistoryAnswer(loaded) ==
  /\ histAsked # NoGraphKey
  /\ histAsked' = NoGraphKey
  /\ IF loaded = "none" THEN UNCHANGED <<historyData, plotted>>
     ELSE historyData' = histAsked /\ plotted' = histAsked
  /\ message' = IF loaded = "all" THEN "none" ELSE "retryHistory"
  /\ UNCHANGED <<graphFilter, range, visible, matched, candidates, hiddenSome, findAsked>>

\* onApply of the picker, and dragging across a chart.
PickRange(r) ==
  /\ visible
  /\ range' = r
  /\ LoadHistory(candidates, r)
  /\ UNCHANGED <<graphFilter, visible, matched, candidates, hiddenSome, findAsked>>

\* A button of the legend.
ToggleSeries ==
  /\ visible /\ candidates.some
  /\ hiddenSome' = ~hiddenSome
  /\ PaintHistory(historyData)
  /\ UNCHANGED <<graphFilter, range, visible, matched, candidates, historyData, findAsked, histAsked>>

\* The message's Retry repeats the step that failed.
RetryLoad ==
  /\ visible
  /\ \/ /\ message = "retryCandidates" /\ UNCHANGED <<graphFilter, historyData, plotted>>
        /\ LoadCandidates
     \/ /\ message = "retryHistory" /\ UNCHANGED <<graphFilter, findAsked>>
        /\ LoadHistory(candidates, range)
  /\ UNCHANGED <<range, visible, matched, candidates, hiddenSome>>

\* Mutant of PollGraph: the poll reads the list and the groups only.
PollGraphNot ==
  /\ visible
  /\ UNCHANGED graphVars

\* The poll of every 30 s, and every refresh of the component.
PollGraph ==
  /\ visible
  /\ UNCHANGED <<graphFilter, range, visible, matched, candidates, historyData, hiddenSome, plotted>>
  /\ LoadCandidates

\* suspend aborts every request; what comes back on screen is loaded again.
SuspendGraph ==
  /\ visible
  /\ visible' = FALSE
  /\ findAsked' = NoGraphKey /\ histAsked' = NoGraphKey
  /\ UNCHANGED <<graphFilter, range, matched, candidates, historyData, hiddenSome, plotted, message>>

ResumeGraph ==
  /\ ~visible
  /\ visible' = TRUE
  /\ UNCHANGED <<graphFilter, range, matched, candidates, historyData, hiddenSome, plotted>>
  /\ LoadCandidates

\* setNode: another agent's detail; charts are destroyed and the panel is closed.
SetGraphNode(f) ==
  /\ graphFilter' = f
  /\ visible' = FALSE
  /\ candidates' = NoMonitors
  /\ historyData' = NoGraphKey /\ plotted' = NoGraphKey /\ hiddenSome' = FALSE
  /\ message' = "none"
  /\ findAsked' = NoGraphKey /\ histAsked' = NoGraphKey
  /\ UNCHANGED <<range, matched>>

\* External: monitors come and go.
MonitorsChange(f) ==
  /\ matched' = (matched \cup {f}) \ (matched \cap {f})
  /\ UNCHANGED <<graphFilter, range, visible, candidates, historyData, hiddenSome, plotted, message,
                 findAsked, histAsked>>

Fails == CandidatesFail \/ HistoryAnswer("some") \/ HistoryAnswer("none")

GraphNext ==
  \/ \E f \in GraphFilters : FiltersChanged(f) \/ SetGraphNode(f) \/ MonitorsChange(f)
  \/ \E r \in Ranges : PickRange(r)
  \/ CandidatesAnswer \/ HistoryAnswer("all") \/ Fails
  \/ ToggleSeries \/ RetryLoad \/ PollGraph \/ SuspendGraph \/ ResumeGraph

\* The poll's timer keeps running, and requests are answered, time and again
\* sooner than the next poll gives them up.
GraphFairness ==
  /\ WF_graphVars(PollGraph)
  /\ SF_graphVars(CandidatesAnswer)
  /\ SF_graphVars(HistoryAnswer("all"))

\* A graph that stays on screen ends up showing the monitors of its filters over
\* the range of its picker, and keeps doing so, once the user has settled and
\* requests succeed: however they failed, overtook each other or lost their Retry
\* to a repaint before.
GraphHeals ==
  /\ <>[]visible
  /\ <>[][~Fails /\ UNCHANGED <<graphFilter, range>>]_graphVars
  => <>[](plotted = [of |-> graphFilter, range |-> range])
=============================================================================
