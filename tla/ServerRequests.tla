---------------------------- MODULE ServerRequests ----------------------------
(***************************************************************************)
(* The parts of the server in which goroutines wait for one another: the   *)
(* synchronization of an agent's monitors (ConfigSync), the requests over  *)
(* its connection (HubRequests) and the shared builds of public answers    *)
(* (ResponseBuilds).  They are modelled with states of their own; the      *)
(* variable concern names the one that is at work.                         *)
(***************************************************************************)
EXTENDS ConfigSync, HubRequests, ResponseBuilds

VARIABLE concern   \* "sync", "hub", or for the builds a visitor, whose request is followed

requestVars == <<syncVars, hubVars, buildVars, concern>>

\* Parts that are not at work are kept in a state without a step that is due: the hub
\* in that of a connection that is over.
RequestsInit ==
  /\ concern \in {"sync", "hub"} \cup Visitors
  /\ SyncInit
  /\ IF concern = "hub" THEN HubInit
     ELSE /\ NoRequests /\ conn = FALSE
          /\ reader = [Receiving EXCEPT !.at = "done"] /\ handler = "done"
  /\ BuildsInit

RequestsNext ==
  \/ concern = "sync" /\ SyncNext /\ UNCHANGED <<hubVars, buildVars, concern>>
  \/ concern = "hub"  /\ HubNext  /\ UNCHANGED <<syncVars, buildVars, concern>>
  \/ concern \in Visitors /\ BuildsNext /\ UNCHANGED <<syncVars, hubVars, concern>>

\* The fairness of all parts: of those that are not at work nothing is due.
RequestsFairness == SyncFairness /\ HubFairness /\ BuildsFairness

RequestsSpec == RequestsInit /\ [][RequestsNext]_requestVars /\ RequestsFairness

-----------------------------------------------------------------------------
(* The liveness of the parts, in one property *)

\* Something is waited for: the synchronization of a change, the end of a connection
\* that lost one of its sides, the answer to the visitor that is followed.
Waits ==
  CASE concern = "sync" -> Unsent
    [] concern = "hub"  -> OneSided
    [] OTHER            -> visitor[concern] # Away

\* It has come: the agent is not reachable any more, or is sent its set; reader, handler
\* and callers have all ended; the visitor has left.
Served ==
  CASE concern = "sync" -> ~Unsent \/ Requesting
    [] concern = "hub"  -> Over
    [] OTHER            -> visitor[concern] = Away

\* Nobody waits forever: a change is sent again and again to an agent that stays
\* connected (BeszelWSHandler after each report, Sync); a connection that has lost one of
\* its sides ends as a whole, with the callers that come between the two halves of Close
\* (Hub.Close, Route); a visitor is answered or refused, although each retry of a
\* follower may follow again (BeginBuild, PublicMetricsHandler).
NobodyWaitsForever == Waits ~> Served
=============================================================================
