------------------------------ MODULE PublicApp -------------------------------
(***************************************************************************)
(* The React version of the public status pages (frontend-public): one     *)
(* instance serves every route, reads a status page per slug and connects  *)
(* to its feed once; an agent's page has a chart per group of metrics, one *)
(* of which is modelled.  No request is cancelled, and the feed does not   *)
(* reconnect.                                                              *)
(***************************************************************************)
EXTENDS Naturals, Sequences, SequencesExt

CONSTANTS Slugs, NoSlug,   \* status pages
          PerPage,         \* agents of each
          Periods,         \* TIME_RANGES that every page allows
          NoPage, Nobody, NoSeries,
          MaxPending       \* bound: requests for pages, and for charts, at once

ASSUME PublicAppAssumption ==
  /\ NoSlug \notin Slugs /\ NoPage \notin Slugs
  /\ MaxPending \in Nat \ {0}

\* The public id of an agent belongs to one status page.
Members    == Slugs \X PerPage
On(m)      == IF m = Nobody THEN NoSlug ELSE m[1]

ASSUME MemberAssumption == Nobody \notin Members /\ NoSeries \notin Members \X Periods

VARIABLES slug, agentAt,   \* the route
          shown,           \* the status page that was read last: title, id and agents
          pageError,       \* error
          pageLoading,     \* loading, true until the first answer and never again
          pageAsks,        \* slugs asked for and not answered, the latest last
          pageLatest,      \* how the latest stands (history variable)
          feed,            \* status page whose feed is connected, or NoPage
          liveOf,          \* status page of the latest frame
          layout,          \* viewMode and gridDensity, kept in localStorage
          matching,        \* whether the search leaves any agent
          shownHours,      \* the period, kept in localStorage
          memberChart,     \* data of the chart
          chartLoading,    \* loading of the chart
          chartAsks,       \* series asked for and not answered, the latest last
          chartLatest      \* how the latest stands (history variable)

pageVs     == <<shown, pageError, pageLoading, pageAsks, pageLatest, feed, liveOf>>
chartVs    == <<memberChart, chartLoading, chartAsks, chartLatest>>
publicVars == <<slug, agentAt, pageVs, layout, matching, shownHours, chartVs>>

Layouts == {"grid detailed", "grid simplified", "list"}
Empty   == [of |-> NoSeries, live |-> {}]

\* What is rendered: a spinner, an error that stays for the visit, an agent's page or
\* the overview of the page that was read last, which need not be the route's yet.
Rendering(loading, error) == IF loading THEN "spinner" ELSE IF error THEN "error" ELSE "page"
DetailShown(loading, error, a, s) ==
  IF Rendering(loading, error) = "page" /\ a \in Members /\ On(a) = s THEN a ELSE Nobody
Active == DetailShown(pageLoading, pageError, agentAt, shown)

Overview == Rendering(pageLoading, pageError) = "page" /\ Active = Nobody

\* The links of the overview: a card or a row per agent that the search leaves.
Listed      == IF Overview /\ matching /\ shown # NoPage THEN {shown} \X PerPage ELSE {}
PublicCards == IF layout = "list" THEN {} ELSE Listed
PublicRows  == IF layout = "list" THEN Listed ELSE {}

\* Quick ranges of the picker on an agent's page.
RangeButtons == IF Active = Nobody THEN {} ELSE Periods

\* The chart after a step: gone with the agent's page, new with it, or fetched again
\* when the agent or the period is another.  Its old data stay behind the spinner, and
\* take a point of the new agent if one is known.
ChartFollows ==
  LET now == Active'  h == shownHours' IN
  CASE now = Nobody ->
         /\ memberChart' = Empty /\ chartLoading' = TRUE
         /\ chartAsks' = <<>> /\ chartLatest' = "pending"
    [] now # Nobody /\ Active = Nobody ->
         /\ memberChart' = Empty /\ chartLoading' = TRUE
         /\ chartAsks' = <<<<now, h>>>> /\ chartLatest' = "pending"
    [] now # Nobody /\ Active # Nobody /\ <<now, h>> # <<Active, shownHours>> ->
         /\ Len(chartAsks) < MaxPending
         /\ chartAsks' = Append(chartAsks, <<now, h>>)
         /\ chartLoading' = TRUE /\ chartLatest' = "pending"
         /\ \/ memberChart' = memberChart
            \/ /\ ~chartLoading /\ memberChart.of # NoSeries /\ liveOf = On(now)
               /\ memberChart' = [memberChart EXCEPT !.live = @ \cup {now}]
    [] OTHER -> UNCHANGED chartVs

PublicAppInit ==
  /\ slug \in Slugs \cup {NoSlug} /\ agentAt \in Members \cup {Nobody}
  /\ agentAt # Nobody => On(agentAt) = slug
  /\ shown = NoPage
  /\ pageError = (slug = NoSlug) /\ pageLoading = (slug # NoSlug)
  /\ pageAsks = IF slug = NoSlug THEN <<>> ELSE <<slug>>
  /\ pageLatest = "pending"
  /\ feed = NoPage /\ liveOf = NoPage
  /\ layout \in Layouts /\ matching = TRUE /\ shownHours \in Periods
  /\ memberChart = Empty /\ chartLoading = TRUE /\ chartAsks = <<>> /\ chartLatest = "pending"

\* The route changes: a link, or the browser's own buttons.  A new slug is asked for,
\* while everything of the old one stays.
Route(s, a) ==
  /\ <<s, a>> # <<slug, agentAt>>
  /\ slug' = s /\ agentAt' = a
  /\ UNCHANGED <<shown, feed, liveOf, layout, matching, shownHours>>
  /\ IF s = slug THEN UNCHANGED <<pageError, pageLoading, pageAsks, pageLatest>>
     ELSE IF s = NoSlug
     THEN /\ pageError' = TRUE /\ pageLoading' = FALSE
          /\ UNCHANGED <<pageAsks, pageLatest>>
     ELSE /\ Len(pageAsks) < MaxPending
          /\ pageAsks' = Append(pageAsks, s) /\ pageLatest' = "pending"
          /\ UNCHANGED <<pageError, pageLoading>>
  /\ ChartFollows

\* Back and forward reach any route that was visited.
Browse(s, a) ==
  /\ a # Nobody => On(a) = s
  /\ Route(s, a)

\* A card or a row: the agent of the page that is shown, under the slug of the route.
OpenMember(a) == a \in PublicCards \cup PublicRows /\ Route(slug, a)

\* The title, and the link back of an agent's page.
ToOverview ==
  /\ Rendering(pageLoading, pageError) = "page"
  /\ Route(slug, Nobody)

\* The page is shown whatever is asked for by now; an error that was met stays.  The
\* effect on its id connects to its feed, unless it is the page that was shown.
PageAnswered(i) ==
  /\ shown' = pageAsks[i] /\ pageLoading' = FALSE
  /\ feed' = IF pageAsks[i] = shown THEN feed ELSE pageAsks[i]
  /\ pageAsks' = RemoveAt(pageAsks, i)
  /\ pageLatest' = IF pageLatest # "pending" THEN "overtaken"
                   ELSE IF i = Len(pageAsks) THEN "shown" ELSE "pending"
  /\ UNCHANGED <<slug, agentAt, pageError, liveOf, layout, matching, shownHours>>
  /\ ChartFollows

PageFails(i) ==
  /\ pageError' = TRUE /\ pageLoading' = FALSE
  /\ pageAsks' = RemoveAt(pageAsks, i)
  /\ pageLatest' = IF pageLatest = "pending" /\ i = Len(pageAsks) THEN "failed" ELSE pageLatest
  /\ UNCHANGED <<slug, agentAt, shown, feed, liveOf, layout, matching, shownHours>>
  /\ ChartFollows

\* A frame replaces the live readings of all agents.
PublicFrame ==
  /\ feed # NoPage
  /\ liveOf' = feed
  /\ UNCHANGED <<slug, agentAt, shown, pageError, pageLoading, pageAsks, pageLatest, feed,
                 layout, matching, shownHours, chartVs>>

\* onclose: nothing connects again, until another page is read.
FeedCloses ==
  /\ feed # NoPage
  /\ feed' = NoPage
  /\ UNCHANGED <<slug, agentAt, shown, pageError, pageLoading, pageAsks, pageLatest, liveOf,
                 layout, matching, shownHours, chartVs>>

\* A reading of the agent, on a chart that is there.
ChartLive ==
  /\ Active # Nobody /\ liveOf = On(Active)
  /\ ~chartLoading /\ memberChart.of # NoSeries
  /\ memberChart' = [memberChart EXCEPT !.live = @ \cup {Active}]
  /\ UNCHANGED <<slug, agentAt, pageVs, layout, matching, shownHours,
                 chartLoading, chartAsks, chartLatest>>

\* A fetch that fails leaves its series empty; every answer is shown.
ChartAnswered(i, found) ==
  /\ memberChart' = [of |-> IF found THEN chartAsks[i] ELSE NoSeries, live |-> {}]
  /\ chartLoading' = FALSE
  /\ chartAsks' = RemoveAt(chartAsks, i)
  /\ chartLatest' = IF chartLatest # "pending" THEN "overtaken"
                    ELSE IF i = Len(chartAsks) THEN "shown" ELSE "pending"
  /\ UNCHANGED <<slug, agentAt, pageVs, layout, matching, shownHours>>

SetHours(h) ==
  /\ h \in RangeButtons
  /\ shownHours' = h
  /\ UNCHANGED <<slug, agentAt, pageVs, layout, matching>>
  /\ ChartFollows

\* The toolbar of the overview.
SetLayout(l) ==
  /\ Overview /\ l # layout
  /\ layout' = l
  /\ UNCHANGED <<slug, agentAt, pageVs, matching, shownHours, chartVs>>

SetSearch ==
  /\ Overview
  /\ matching' = ~matching
  /\ UNCHANGED <<slug, agentAt, pageVs, layout, shownHours, chartVs>>

PublicAppNext ==
  \/ ToOverview \/ PublicFrame \/ FeedCloses \/ ChartLive \/ SetSearch
  \/ \E s \in Slugs \cup {NoSlug}, a \in Members \cup {Nobody} : Browse(s, a)
  \/ \E a \in Members : OpenMember(a)
  \/ \E i \in DOMAIN pageAsks : PageAnswered(i) \/ PageFails(i)
  \/ \E i \in DOMAIN chartAsks, found \in BOOLEAN : ChartAnswered(i, found)
  \/ \E h \in Periods : SetHours(h)
  \/ \E l \in Layouts : SetLayout(l)

PublicAppSpec == PublicAppInit /\ [][PublicAppNext]_publicVars

-----------------------------------------------------------------------------
(* Type invariant and properties *)

PublicAppTypeOK ==
  /\ slug \in Slugs \cup {NoSlug} /\ agentAt \in Members \cup {Nobody}
  /\ shown \in Slugs \cup {NoPage}
  /\ pageError \in BOOLEAN /\ pageLoading \in BOOLEAN
  /\ pageAsks \in Seq(Slugs) /\ Len(pageAsks) <= MaxPending
  /\ pageLatest \in {"pending", "shown", "overtaken", "failed"}
  /\ feed \in Slugs \cup {NoPage} /\ liveOf \in Slugs \cup {NoPage}
  /\ layout \in Layouts /\ matching \in BOOLEAN /\ shownHours \in Periods
  /\ memberChart \in [of : (Members \X Periods) \cup {NoSeries}, live : SUBSET Members]
  /\ chartLoading \in BOOLEAN /\ chartAsks \in Seq(Members \X Periods)
  /\ Len(chartAsks) <= MaxPending
  /\ chartLatest \in {"pending", "shown", "overtaken"}

\* When nothing is under way, the page shows the status page of the route unless its
\* request failed or was overtaken, the feed is the one of the page that is shown or is
\* gone, and the chart of an agent's page shows that agent over the chosen period with
\* its own readings only, or nothing; unless its answer was overtaken.
PublicAppSettles ==
  /\ pageAsks = <<>> => /\ ~pageLoading
                        /\ pageLatest = "shown" /\ slug # NoSlug => shown = slug
  /\ feed \in {shown, NoPage}
  /\ Active # Nobody /\ chartAsks = <<>> =>
       /\ ~chartLoading
       /\ chartLatest = "shown" =>
            /\ memberChart.of \in {<<Active, shownHours>>, NoSeries}
            /\ memberChart.live \subseteq {Active}
=============================================================================
