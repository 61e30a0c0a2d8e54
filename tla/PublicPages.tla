------------------------------ MODULE PublicPages -----------------------------
(***************************************************************************)
(* A public status page in its two forms: the page the server renders with *)
(* its script (PublicPage) and the React application (PublicApp).  A       *)
(* visitor has one of them open; they share no state.                      *)
(***************************************************************************)
EXTENDS PublicPage, PublicApp

VARIABLE form   \* "script" or "React"

publicPagesVars == <<vars, publicVars, form>>

\* The form that is open starts in any of its states; the other has gone, or waits for
\* nothing.
PublicPagesInit ==
  /\ form \in {"script", "React"}
  /\ IF form = "script" THEN Init
     ELSE /\ known = Rendered /\ current = NoAgent
          /\ hours = Smallest(Stored) /\ bar = NoHours
          /\ tiles = NoAgent /\ reported = {} /\ readable = {}
          /\ chart = [p \in Allowed |-> NoChart]
          /\ server = [a \in Agents |-> TRUE] /\ online = server /\ counted = server
          /\ sync = NoSync /\ History!GroupInit /\ gone = TRUE
  /\ PublicAppInit
  /\ form # "React" => /\ slug = NoSlug /\ agentAt = Nobody
                       /\ layout = "list" /\ shownHours = CHOOSE h \in Periods : TRUE

PublicPagesNext ==
  \/ form = "script" /\ Next /\ UNCHANGED <<publicVars, form>>
  \/ form = "React" /\ PublicAppNext /\ UNCHANGED <<vars, form>>

\* The fairness is that of the page with the script; one that has gone enables none
\* of the steps it is about.
PublicPagesSpec ==
  PublicPagesInit /\ [][PublicPagesNext]_publicPagesVars /\ Fairness

-----------------------------------------------------------------------------
(* A property of both forms, held against each *)

\* Once nothing is under way the page shows what the visitor selected, in the detail
\* of the page with the script (SettledShowsSelection) and in the React application
\* (PublicAppSettles), with the exceptions named there.
PublicPagesSettle == SettledShowsSelection /\ PublicAppSettles
=============================================================================
