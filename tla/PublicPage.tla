------------------------------ MODULE PublicPage ------------------------------
(***************************************************************************)
(* The public status page (web/src/js/pages/public_dashboard): an overview *)
(* of the servers of a dashboard and the detail of one of them.  The feed  *)
(* pushes readings and the online status, a metadata refresh brings the    *)
(* same status over HTTP, and the visitor navigates and picks the range of *)
(* the history meanwhile.  The chosen range lives in localStorage, which   *)
(* other tabs write too.                                                   *)
(***************************************************************************)
EXTENDS Naturals, FiniteSets

CONSTANTS Agents,      \* servers of the dashboard
          Rendered,    \* those the page was rendered with
          Offered,     \* hours of the range bar and of the history endpoint
          Stored,      \* hours that may be found in localStorage
          MaxHours,    \* 24 * max_days of the dashboard's access rules
          Allowed,     \* panels whose metrics the access rules allow
          Unstable,    \* bound: servers whose online status changes
          NoAgent, NoKey, NoChart, NoHours, MaxStale

ASSUME PublicPageAssumption ==
  /\ Rendered \subseteq Agents /\ Unstable \subseteq Agents
  /\ Offered \subseteq Nat \ {0} /\ Stored \subseteq Nat /\ Stored # {}
  /\ MaxHours \in Nat
  /\ NoAgent \notin Agents
  /\ NoHours \notin Nat
  /\ NoKey # NoChart

VARIABLES
  known,        \* servers of state.pubAgentsData
  current,      \* state.currentActivePubId
  hours,        \* localStorage certainstats_public_active_hours
  bar,          \* the active button of the range bar, or NoHours
  tiles,        \* server whose readings the detail shows
  reported,     \* servers with a snapshot in the page
  readable,     \* those of which one was available
  chart,        \* the history charts
  online,       \* is_online as the page has it
  counted,      \* is_online as the banner was last computed from
  server,       \* is_online at the server
  sync,         \* the metadata request on its way
  gone,         \* the page went away
  key, open, stale, failed, blocked   \* history requests

groupVars == <<key, open, stale, failed, blocked>>
statVars  == <<known, online, counted, server, sync>>
viewVars  == <<current, hours, bar, tiles, reported, readable, chart>>
vars == <<statVars, viewVars, groupVars, gone>>

Keys   == [agent : Agents, hours : Offered]
Charts == [key : Keys, live : SUBSET Agents]

\* What stands for an absent load or chart is none itself.
ASSUME AbsenceAssumption == NoKey \notin Keys /\ NoChart \notin Charts

History == INSTANCE RequestGroup WITH Parts <- Allowed

Ranges == {h \in Offered : h <= MaxHours}
Smallest(S) == CHOOSE h \in S : \A g \in S : h <= g
Default(S) == IF 6 \in S THEN 6 ELSE Smallest(S)

\* No metadata request is on its way.
NoSync == [stage |-> "none", read |-> [a \in Agents |-> FALSE]]

Init ==
  /\ known = Rendered /\ current = NoAgent
  /\ hours \in Stored /\ bar = NoHours
  /\ tiles = NoAgent /\ reported \in SUBSET Rendered /\ readable = reported
  /\ chart = [p \in Allowed |-> NoChart]
  /\ server = [a \in Agents |-> TRUE]
  /\ online = server /\ counted = server
  /\ sync = NoSync
  /\ History!GroupInit
  /\ gone = FALSE

-----------------------------------------------------------------------------
(* The history of a server *)

RenderLiveState(a) == tiles' = IF a \in reported THEN a ELSE tiles

\* Nothing is asked for when the access rules give no history; hours the
\* endpoint does not offer fall back to a default.
LoadDetail(a, h) ==
  IF Ranges = {} \/ Allowed = {}
  THEN UNCHANGED groupVars
  ELSE History!Begin([agent |-> a, hours |-> IF h \in Ranges THEN h
                                              ELSE Default(Ranges)], Allowed)

\* Mutant of Paint: the live points of the chart stay when its series change.
PaintOver(p, how) ==
  /\ History!Answer(p, how)
  /\ chart' = [chart EXCEPT ![p] =
       [key |-> key, live |-> IF chart[p] = NoChart THEN {} ELSE chart[p].live]]
  /\ UNCHANGED <<statVars, current, hours, bar, tiles, reported, readable, gone>>

\* The answers of one panel are complete; a failed request counts as no data.
Paint(p, how) ==
  /\ History!Answer(p, how)
  /\ chart' = [chart EXCEPT ![p] = [key |-> key, live |-> {}]]
  /\ UNCHANGED <<statVars, current, hours, bar, tiles, reported, readable, gone>>

\* Mutant of StaleAnswer: the continuation does not look at its signal.
StaleAnswerPaints(p, k) ==
  /\ History!Expire(p, k)
  /\ chart' = [chart EXCEPT ![p] = [key |-> k, live |-> {}]]
  /\ UNCHANGED <<statVars, current, hours, bar, tiles, reported, readable, gone>>

StaleAnswer(p, k) ==
  /\ History!Expire(p, k)
  /\ UNCHANGED <<statVars, viewVars, gone>>

Retry ==
  /\ current # NoAgent
  /\ History!RetryOffered
  /\ key # NoKey
  /\ LoadDetail(key.agent, key.hours)
  /\ RenderLiveState(key.agent)
  /\ UNCHANGED <<statVars, current, hours, bar, reported, readable, chart, gone>>

RetryAfter ==
  /\ History!Unblock
  /\ UNCHANGED <<statVars, viewVars, gone>>

-----------------------------------------------------------------------------
(* Navigation and the range bar *)

\* initTimeRangeBar: a stored range that is not on the bar is replaced by a
\* default, in localStorage too; without history there is no bar.
InitRangeBar ==
  IF MaxHours = 0
  THEN UNCHANGED <<bar, hours>>
  ELSE LET h == IF hours \in Ranges THEN hours
                ELSE IF Ranges # {} THEN Default(Ranges) ELSE 6
       IN  bar' = h /\ hours' = h

OpenAgent(a) ==
  /\ a \in known
  /\ current' = a
  /\ InitRangeBar
  /\ RenderLiveState(a)
  /\ LoadDetail(a, hours')
  /\ UNCHANGED <<statVars, reported, readable, chart, gone>>

\* The route names no server of the page.
OpenOverview ==
  /\ current' = NoAgent
  /\ History!CancelGroup
  /\ UNCHANGED <<statVars, hours, bar, tiles, reported, readable, chart, gone>>

PickHours(h) ==
  /\ current # NoAgent /\ bar # NoHours
  /\ h \in Ranges
  /\ bar' = h /\ hours' = h
  /\ LoadDetail(current, h)
  /\ RenderLiveState(current)
  /\ UNCHANGED <<statVars, current, reported, readable, chart, gone>>

\* Another tab, or an older version of the page, stores another range.
OtherTabStores(h) ==
  /\ hours' = h
  /\ UNCHANGED <<statVars, current, bar, tiles, reported, readable, chart, groupVars, gone>>

-----------------------------------------------------------------------------
(* The feed *)

PulseReadingsOnly(available) ==
  /\ ~gone
  /\ counted' = [a \in Agents |-> IF a \in known THEN online[a] ELSE counted[a]]
  /\ reported' = Agents
  /\ readable' = readable \cup available
  /\ UNCHANGED <<known, online, server, sync, current, hours, bar, tiles, chart,
                 groupVars, gone>>

\* A pulse: the online flags are taken over after the banner was computed from
\* the old ones, and only for servers the page has; one that is unavailable has
\* no readings.  The open detail takes a live point for each of its charts.
Pulse(available) ==
  /\ ~gone
  /\ counted' = [a \in Agents |-> IF a \in known THEN online[a] ELSE counted[a]]
  /\ online' = [a \in Agents |-> IF a \in known THEN server[a] ELSE online[a]]
  /\ reported' = Agents
  /\ readable' = readable \cup available
  /\ IF current \in available
     THEN /\ tiles' = current
          /\ chart' = [p \in Allowed |->
               IF chart[p] = NoChart THEN NoChart
               ELSE [chart[p] EXCEPT !.live = @ \cup {current}]]
     ELSE UNCHANGED <<tiles, chart>>
  /\ UNCHANGED <<known, server, sync, current, hours, bar, groupVars, gone>>

\* pagehide: the feed stops, the requests are aborted, the refresh ends.
Leave ==
  /\ ~gone
  /\ gone' = TRUE
  /\ History!CancelGroup
  /\ sync' = NoSync
  /\ UNCHANGED <<known, online, counted, server, viewVars>>

-----------------------------------------------------------------------------
(* The metadata refresh *)

SyncTick ==
  /\ ~gone
  /\ sync.stage = "none"
  /\ sync' = [sync EXCEPT !.stage = "asked"]
  /\ UNCHANGED <<known, online, counted, server, viewVars, groupVars, gone>>

\* External: the server reads the dashboard for the answer.
ServerReads ==
  /\ sync.stage = "asked"
  /\ sync' = [stage |-> "read", read |-> server]
  /\ UNCHANGED <<known, online, counted, server, viewVars, groupVars, gone>>

\* The answer adds servers the page did not know and sets every online flag,
\* however old; the banner follows.
SyncAnswer ==
  /\ sync.stage = "read"
  /\ known' = Agents
  /\ online' = sync.read /\ counted' = sync.read
  /\ sync' = NoSync
  /\ UNCHANGED <<server, viewVars, groupVars, gone>>

SyncFails ==
  /\ sync.stage # "none"
  /\ sync' = NoSync
  /\ UNCHANGED <<known, online, counted, server, viewVars, groupVars, gone>>

\* External: a server goes offline or comes back.
StatusChanges(a) ==
  /\ a \in Unstable
  /\ server' = [server EXCEPT ![a] = ~@]
  /\ UNCHANGED <<known, online, counted, sync, viewVars, groupVars, gone>>

-----------------------------------------------------------------------------
Outcomes == {"ok", "error", "later"}

Visitor ==
  \/ \E a \in Agents : OpenAgent(a)
  \/ OpenOverview
  \/ \E h \in Offered : PickHours(h)
  \/ \E h \in Stored : OtherTabStores(h)
  \/ Retry
  \/ Leave

Next ==
  \/ ~gone /\ Visitor
  \/ RetryAfter
  \/ \E p \in Allowed, how \in Outcomes : Paint(p, how)
  \/ \E p \in Allowed, k \in Keys : StaleAnswer(p, k)
  \/ \E available \in SUBSET Agents : Pulse(available)
  \/ SyncTick \/ ServerReads \/ SyncAnswer \/ SyncFails
  \/ \E a \in Agents : StatusChanges(a)

Spec == Init /\ [][Next]_vars

\* Requests end, and the feed, which reconnects for as long as the page is there
\* (live_feed.js), keeps pushing.
Fairness ==
  /\ \A p \in Allowed : WF_vars(\E how \in Outcomes : Paint(p, how))
  /\ WF_vars(\E available \in SUBSET Agents : Pulse(available))

FairSpec == Spec /\ Fairness

-----------------------------------------------------------------------------
(* Properties *)

\* Types of the page's state.
TypeOK ==
  /\ known \in SUBSET Agents /\ current \in Agents \cup {NoAgent}
  /\ hours \in Nat /\ bar \in Nat \cup {NoHours}
  /\ tiles \in Agents \cup {NoAgent} /\ reported \in SUBSET Agents
  /\ readable \in SUBSET reported
  /\ chart \in [Allowed -> Charts \cup {NoChart}]
  /\ online \in [Agents -> BOOLEAN] /\ counted \in [Agents -> BOOLEAN]
  /\ server \in [Agents -> BOOLEAN]
  /\ sync \in [stage : {"none", "asked", "read"}, read : [Agents -> BOOLEAN]]
  /\ History!GroupTypeOK
  /\ gone \in BOOLEAN

\* Once a detail that is open waits for nothing, every chart shows its server
\* over the hours of the active button, whatever another tab stored meanwhile,
\* with live points of no other server; nor do the tiles show another one,
\* once a reading of this one has arrived.
SettledShowsSelection ==
  current # NoAgent /\ ~gone /\ Ranges # {} /\ open = {} =>
    /\ current \in readable => tiles = current
    /\ \A p \in Allowed :
         /\ chart[p] # NoChart
         /\ chart[p].key = [agent |-> current, hours |-> bar]
         /\ chart[p].live \subseteq {current}

Loads == INSTANCE LatestLoad
           WITH Slots  <- Allowed,
                NoLoad <- NoKey,
                asked  <- key,
                shown  <- [p \in Allowed |-> IF chart[p] = NoChart THEN NoKey
                                             ELSE chart[p].key]

\* The detail of the public page implements LatestLoad: no chart ever shows a
\* load other than the latest that was not cancelled.
ShowsLatestLoad == Loads!LoadSpec

\* When the servers' status settles while the page stays, every server of the
\* page and the banner end up with it, although a metadata answer may be older
\* than a pulse and the banner is one pulse behind the dots.
StatusHeals ==
  ([]~gone /\ <>[][server' = server]_vars) =>
    <>[](\A a \in known : online[a] = server[a] /\ counted[a] = server[a])
=============================================================================
