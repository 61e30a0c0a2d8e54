---------------------------- MODULE RequestGroup ----------------------------
(***************************************************************************)
(* One group of web/static/shared/js/requests.js: the requests a view has  *)
(* started for its latest selection.  Starting the group again, or         *)
(* cancelling it, aborts the requests of the previous selection; those of  *)
(* them whose answer is already on its way still run their continuation,   *)
(* which looks at the signal of its own group.                             *)
(***************************************************************************)
EXTENDS Naturals, FiniteSets

CONSTANTS Keys,      \* the selections the view can load
          Parts,     \* the parts of the view that wait for requests of their own
          NoKey,     \* no group, or one that was aborted
          MaxStale   \* bound: aborted parts whose continuation has yet to run

VARIABLES key,       \* selection of the group that is not aborted, or NoKey
          open,      \* its parts that still wait for an answer
          stale,     \* <<part, selection>> of aborted groups still to run
          failed,    \* the group's status shows a failure
          blocked    \* its Retry button waits for the server's Retry-After

groupVars == <<key, open, stale, failed, blocked>>

GroupTypeOK ==
  /\ key \in Keys \cup {NoKey}
  /\ open \subseteq Parts
  /\ stale \subseteq Parts \X Keys
  /\ failed \in BOOLEAN
  /\ blocked \in BOOLEAN

GroupInit ==
  /\ key = NoKey
  /\ open = {}
  /\ stale = {}
  /\ failed = FALSE
  /\ blocked = FALSE

\* The requests in flight when their controller is aborted.
Abandoned == stale \cup {<<p, key>> : p \in open}

Begin(k, ps) ==
  /\ Cardinality(Abandoned) <= MaxStale
  /\ key' = k
  /\ open' = ps
  /\ stale' = Abandoned
  /\ failed' = FALSE
  /\ blocked' = FALSE

\* The status line is not drawn again: it keeps what it said.
CancelGroup ==
  /\ Cardinality(Abandoned) <= MaxStale
  /\ key' = NoKey
  /\ open' = {}
  /\ stale' = Abandoned
  /\ UNCHANGED <<failed, blocked>>

\* json() of the last request a part waits for returns or throws: how is "ok",
\* "error", or "later" for an error that named a Retry-After.
Answer(p, how) ==
  /\ p \in open
  /\ open' = open \ {p}
  /\ failed' = (failed \/ how # "ok")
  /\ blocked' = (blocked \/ how = "later")
  /\ UNCHANGED <<key, stale>>

\* The continuation of an aborted request runs.
Expire(p, k) ==
  /\ <<p, k>> \in stale
  /\ stale' = stale \ {<<p, k>>}
  /\ UNCHANGED <<key, open, failed, blocked>>

\* The timer that enables Retry; aborting the group removes it.
Unblock ==
  /\ blocked
  /\ open = {}
  /\ key # NoKey
  /\ blocked' = FALSE
  /\ UNCHANGED <<key, open, stale, failed>>

\* The status offers a Retry button that can be pressed.
RetryOffered == open = {} /\ failed /\ ~blocked
=============================================================================
