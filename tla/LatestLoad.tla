----------------------------- MODULE LatestLoad -----------------------------
(***************************************************************************)
(* What a view that loads data over HTTP promises: of all the loads it has *)
(* started, only the latest one that was not cancelled may put anything on *)
(* the screen.  A selection (an agent and a time range, a page of a list)  *)
(* is a key; a slot is one place on the screen that shows loaded data.     *)
(* The pages of web/src/js are shown to implement this module.             *)
(***************************************************************************)
CONSTANTS Keys,     \* what a load may be asked for
          Slots,    \* the places that show what was loaded
          NoLoad    \* no load, and nothing shown

VARIABLES asked,    \* the key of the load in force, or NoLoad
          shown     \* slot -> the key whose data it shows, or NoLoad

loadVars == <<asked, shown>>

LoadInit ==
  /\ asked = NoLoad
  /\ shown = [s \in Slots |-> NoLoad]

\* A new load replaces the one in force.
Ask(k) ==
  /\ asked' = k
  /\ UNCHANGED shown

\* Data of the load in force reaches the screen.
Show(s) ==
  /\ asked # NoLoad
  /\ shown' = [shown EXCEPT ![s] = asked]
  /\ UNCHANGED asked

\* The load in force is given up; what the screen shows stays.
Cancel ==
  /\ asked' = NoLoad
  /\ UNCHANGED shown

\* The screen is emptied, for a node or a page that is no longer shown; the
\* load for what comes next may start in the same step.
Clear ==
  /\ asked' \in Keys \cup {NoLoad}
  /\ shown' = [s \in Slots |-> NoLoad]

LoadNext ==
  \/ \E k \in Keys : Ask(k)
  \/ \E s \in Slots : Show(s)
  \/ Cancel
  \/ Clear

LoadSpec == LoadInit /\ [][LoadNext]_loadVars
=============================================================================
