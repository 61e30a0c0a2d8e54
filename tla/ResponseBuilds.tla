---------------------------- MODULE ResponseBuilds ----------------------------
(***************************************************************************)
(* How the public answers are built and shared: PublicDashboardHandler     *)
(* (internal/dashboard/public.go), PublicMetricsHandler (internal/metrics/ *)
(* handler.go) and the public page (internal/web/dashboards.go) read the   *)
(* dashboard's version, look for an answer cached under it, and elect one  *)
(* of them to build it (internal/context/coalesce.go).  The others wait,   *)
(* and begin again when the build is done.  Whoever changes the dashboard  *)
(* raises its version and then purges the caches.                          *)
(*                                                                         *)
(* One dashboard and one of its answers.  The time series are read under   *)
(* two semaphores, and whoever waits, for a build or for a query, holds    *)
(* one of a shared number of wait slots.                                   *)
(***************************************************************************)
EXTENDS Integers, FiniteSets

CONSTANTS
  Visitors,     \* requests at a time (a bound)
  Limits,       \* the capacity of each semaphore
  MaxVersion    \* bound on the dashboard's versions

\* activeBuilds, PublicWaitSlots, publicTSDBSlots and globalTSDBQuerySemaphore
Semaphores == {"build", "wait", "public", "query"}

ASSUME LimitsAssumption == Limits \in [Semaphores -> Nat] /\ MaxVersion \in Nat

Versions == 0..MaxVersion
NoAnswer == -1
NoVisitor == "nobody"

ASSUME VisitorsAssumption == IsFiniteSet(Visitors) /\ NoVisitor \notin Visitors

Away == [at |-> "away"]

VARIABLES
  version,      \* dashboards.config_version
  purging,      \* a change has committed, and its InvalidateDashboard is still to come
  answer,       \* the caches: under each version, the version of the content
  builder,      \* builds: who builds the answer of each version
  slots,        \* slots taken of each semaphore
  visitor,      \* the requests
  panelQueries  \* queries of the panel, which take of the last semaphore too

buildVars == <<version, purging, answer, builder, slots, visitor, panelQueries>>

BuildsInit ==
  /\ version = 0 /\ purging = FALSE
  /\ answer = [v \in Versions |-> NoAnswer]
  /\ builder = [v \in Versions |-> NoVisitor]
  /\ slots = [s \in Semaphores |-> 0]
  /\ visitor = [r \in Visitors |-> Away]
  /\ panelQueries = 0

IsAt(r, place) == visitor[r].at = place
Goes(r, place) == visitor' = [visitor EXCEPT ![r].at = place]

HasRoom(s) == slots[s] < Limits[s]
Takes(s)   == slots' = [slots EXCEPT ![s] = @ + 1]
Returns(s) == slots' = [slots EXCEPT ![s] = @ - 1]

-----------------------------------------------------------------------------
(* A request *)

\* The handler starts: it reads the version, and the rules that permit the request.
Arrive(r) ==
  /\ visitor[r] = Away
  /\ visitor' = [visitor EXCEPT ![r] =
       [at |-> "look", start |-> version, key |-> version, waits |-> 0, over |-> FALSE,
        content |-> NoAnswer]]
  /\ UNCHANGED <<version, purging, answer, builder, slots, panelQueries>>

\* GetCacheEntry: a hit is served.
LookUp(r) ==
  /\ IsAt(r, "look")
  /\ LET found == answer[visitor[r].key] IN
       visitor' = [visitor EXCEPT ![r].at = IF found = NoAnswer THEN "begin" ELSE "served",
                                  ![r].content = found]
  /\ UNCHANGED <<version, purging, answer, builder, slots, panelQueries>>

\* BeginBuild, under its lock: it finds a builder, or becomes it.
FollowBuild(r) ==
  /\ IsAt(r, "begin") /\ builder[visitor[r].key] # NoVisitor
  /\ Goes(r, "queue")
  /\ UNCHANGED <<version, purging, answer, builder, slots, panelQueries>>

LeadBuild(r) ==
  /\ IsAt(r, "begin") /\ builder[visitor[r].key] = NoVisitor
  /\ HasRoom("build")
  /\ builder' = [builder EXCEPT ![visitor[r].key] = r]
  /\ Takes("build")
  /\ Goes(r, "build")
  /\ UNCHANGED <<version, purging, answer, panelQueries>>

\* No slot is free, or the visitor's quota of builds is used up: the slot taken for it is
\* returned before the lock is.
RefuseBuild(r) ==
  /\ IsAt(r, "begin") /\ builder[visitor[r].key] = NoVisitor
  /\ Goes(r, "leave")
  /\ UNCHANGED <<version, purging, answer, builder, slots, panelQueries>>

\* A follower takes a wait slot, which it holds to its end, nested retries included.
QueueForBuild(r) ==
  /\ IsAt(r, "queue")
  /\ IF HasRoom("wait")
     THEN /\ Takes("wait")
          /\ visitor' = [visitor EXCEPT ![r].at = "wait", ![r].waits = @ + 1]
     ELSE Goes(r, "leave") /\ UNCHANGED slots
  /\ UNCHANGED <<version, purging, answer, builder, panelQueries>>

\* The build is over.  When it left no answer, the follower is refused; otherwise the
\* handler starts again, with the rules of now.
Resume(r) ==
  /\ IsAt(r, "wait") /\ visitor[r].over
  /\ IF answer[visitor[r].key] = NoAnswer THEN Goes(r, "leave")
     ELSE visitor' = [visitor EXCEPT ![r].at = "look", ![r].key = version, ![r].over = FALSE]
  /\ UNCHANGED <<version, purging, answer, builder, slots, panelQueries>>

\* Two seconds have passed, or the client has left.
WaitTimesOut(r) ==
  /\ IsAt(r, "wait")
  /\ Goes(r, "leave")
  /\ UNCHANGED <<version, purging, answer, builder, slots, panelQueries>>

\* The deferred functions return the wait slots.
Leave(r) ==
  /\ visitor[r].at \in {"served", "leave"}
  /\ slots' = [slots EXCEPT !["wait"] = @ - visitor[r].waits]
  /\ visitor' = [visitor EXCEPT ![r] = Away]
  /\ UNCHANGED <<version, purging, answer, builder, panelQueries>>

-----------------------------------------------------------------------------
(* A build *)

\* The content comes from the store or the window cache, as it is now ...
ReadContent(r) ==
  /\ IsAt(r, "build")
  /\ visitor' = [visitor EXCEPT ![r].at = "check", ![r].content = version]
  /\ UNCHANGED <<version, purging, answer, builder, slots, panelQueries>>

BuildFails(r) ==
  /\ visitor[r].at \in {"build", "query"}
  /\ Goes(r, "finish")
  /\ slots' = IF IsAt(r, "build") THEN slots
              ELSE [slots EXCEPT !["query"] = @ - 1, !["public"] = @ - 1]
  /\ UNCHANGED <<version, purging, answer, builder, panelQueries>>

\* ... or from the time series.  acquireTSDB takes a wait slot,
AskForQuery(r) ==
  /\ IsAt(r, "build")
  /\ IF HasRoom("wait")
     THEN /\ Takes("wait")
          /\ visitor' = [visitor EXCEPT ![r].at = "awaitPublic", ![r].waits = @ + 1]
     ELSE Goes(r, "finish") /\ UNCHANGED slots
  /\ UNCHANGED <<version, purging, answer, builder, panelQueries>>

\* one of the public queries',
AcquirePublic(r) ==
  /\ IsAt(r, "awaitPublic") /\ HasRoom("public")
  /\ Takes("public")
  /\ Goes(r, "awaitQuery")
  /\ UNCHANGED <<version, purging, answer, builder, panelQueries>>

\* and one of all queries', and then returns the wait slot.
AcquireQuery(r) ==
  /\ IsAt(r, "awaitQuery") /\ HasRoom("query")
  /\ slots' = [slots EXCEPT !["query"] = @ + 1, !["wait"] = @ - 1]
  /\ visitor' = [visitor EXCEPT ![r].at = "query", ![r].waits = @ - 1]
  /\ UNCHANGED <<version, purging, answer, builder, panelQueries>>

\* Mutant of AcquireTimesOut: the public slot is kept.
AcquireTimesOutOnce(r) ==
  /\ visitor[r].at \in {"awaitPublic", "awaitQuery"}
  /\ Returns("wait")
  /\ visitor' = [visitor EXCEPT ![r].at = "finish", ![r].waits = @ - 1]
  /\ UNCHANGED <<version, purging, answer, builder, panelQueries>>

\* It may run out of time in either place.
AcquireTimesOut(r) ==
  /\ visitor[r].at \in {"awaitPublic", "awaitQuery"}
  /\ slots' = [slots EXCEPT !["wait"] = @ - 1,
                            !["public"] = IF IsAt(r, "awaitQuery") THEN @ - 1 ELSE @]
  /\ visitor' = [visitor EXCEPT ![r].at = "finish", ![r].waits = @ - 1]
  /\ UNCHANGED <<version, purging, answer, builder, panelQueries>>

\* The query asks for what the rules it began with permit.
Queried(r) ==
  /\ IsAt(r, "query")
  /\ slots' = [slots EXCEPT !["query"] = @ - 1, !["public"] = @ - 1]
  /\ visitor' = [visitor EXCEPT ![r].at = "check", ![r].content = visitor[r].key]
  /\ UNCHANGED <<version, purging, answer, builder, panelQueries>>

\* The version is read again: an answer is kept and served only when it is the same.
StoreAnswer(r) ==
  /\ IsAt(r, "check")
  /\ IF version = visitor[r].key
     THEN /\ answer' = [answer EXCEPT ![visitor[r].key] = visitor[r].content]
          /\ Goes(r, "built")
     ELSE Goes(r, "finish") /\ UNCHANGED answer
  /\ UNCHANGED <<version, purging, builder, slots, panelQueries>>

\* The deferred finish: the build is over for all who wait for it.
FinishBuild(r) ==
  /\ visitor[r].at \in {"built", "finish"}
  /\ Returns("build")
  /\ builder' = [builder EXCEPT ![visitor[r].key] = NoVisitor]
  /\ visitor' = [q \in Visitors |->
       IF q = r THEN [visitor[r] EXCEPT !.at = "leave"]
       ELSE IF visitor[q].at \in {"queue", "wait"} /\ visitor[q].key = visitor[r].key
            THEN [visitor[q] EXCEPT !.over = TRUE]
       ELSE visitor[q]]
  /\ UNCHANGED <<version, purging, answer, panelQueries>>

-----------------------------------------------------------------------------
(* The rest of the program *)

\* A change of the dashboard or its members commits, which raises the version, ...
ChangeDashboard ==
  /\ ~purging /\ version < MaxVersion
  /\ version' = version + 1 /\ purging' = TRUE
  /\ UNCHANGED <<answer, builder, slots, visitor, panelQueries>>

\* ... and then purges the caches.
InvalidateDashboard ==
  /\ purging
  /\ purging' = FALSE
  /\ answer' = [v \in Versions |-> NoAnswer]
  /\ UNCHANGED <<version, builder, slots, visitor, panelQueries>>

\* A cached answer expires, or makes room for others.
ExpireAnswer(v) ==
  /\ answer[v] # NoAnswer
  /\ answer' = [answer EXCEPT ![v] = NoAnswer]
  /\ UNCHANGED <<version, purging, builder, slots, visitor, panelQueries>>

PanelQuery ==
  /\ HasRoom("query")
  /\ Takes("query") /\ panelQueries' = panelQueries + 1
  /\ UNCHANGED <<version, purging, answer, builder, visitor>>

PanelQueried ==
  /\ panelQueries > 0
  /\ Returns("query") /\ panelQueries' = panelQueries - 1
  /\ UNCHANGED <<version, purging, answer, builder, visitor>>

-----------------------------------------------------------------------------

VisitorSteps(r) ==
  \/ LookUp(r) \/ FollowBuild(r) \/ LeadBuild(r) \/ RefuseBuild(r)
  \/ QueueForBuild(r) \/ Resume(r) \/ WaitTimesOut(r) \/ Leave(r)
  \/ ReadContent(r) \/ BuildFails(r) \/ AskForQuery(r) \/ AcquirePublic(r) \/ AcquireQuery(r)
  \/ AcquireTimesOut(r) \/ Queried(r) \/ StoreAnswer(r) \/ FinishBuild(r)

BuildsNext ==
  \/ \E r \in Visitors : Arrive(r) \/ VisitorSteps(r)
  \/ ChangeDashboard \/ InvalidateDashboard
  \/ \E v \in Versions : ExpireAnswer(v)
  \/ PanelQuery \/ PanelQueried

\* A request that has begun goes on.
BuildsFairness == \A r \in Visitors : WF_buildVars(VisitorSteps(r))

BuildsSpec == BuildsInit /\ [][BuildsNext]_buildVars /\ BuildsFairness

-----------------------------------------------------------------------------
(* Properties *)

Present == {r \in Visitors : visitor[r] # Away}
At(places) == {r \in Present : visitor[r].at \in places}
\* The wait slots that are held, numbered by holder.
WaitSlots == UNION {{r} \X (1..visitor[r].waits) : r \in Present}
Leading == At({"build", "awaitPublic", "awaitQuery", "query", "check", "built", "finish"})

\* Whatever fails or runs out of time, every slot that is taken has a holder, and none is
\* taken twice or beyond its limit (BeginBuild, acquireTSDB); who builds is on the list of
\* builds, and nobody waits for a build that is not (the wake-up is never lost).
SlotsAddUp ==
  /\ slots["build"] = Cardinality(Leading)
  /\ slots["wait"] = Cardinality(WaitSlots)
  /\ slots["public"] = Cardinality(At({"awaitQuery", "query"}))
  /\ slots["query"] = Cardinality(At({"query"})) + panelQueries
  /\ \A s \in Semaphores : slots[s] \in 0..Limits[s]
  /\ \A r \in Leading : builder[visitor[r].key] = r
  /\ \A r \in At({"queue", "wait"}) : visitor[r].over \/ builder[visitor[r].key] # NoVisitor

\* An answer is kept under the version whose content it has, so that nobody is served
\* content older than the rules at the start of the request (the version in the key, the
\* second read of it, the purge that may come before a slow build stores its answer).
AnswersAreCurrent ==
  /\ \A v \in Versions : answer[v] \in {NoAnswer, v}
  /\ \A r \in At({"served", "built"}) : visitor[r].content >= visitor[r].start

\* Neither slots nor answers are mixed up.
BuildsAreSound == SlotsAddUp /\ AnswersAreCurrent
=============================================================================
