--------------------------- MODULE MCServerRequests ---------------------------
(***************************************************************************)
(* ServerRequests with semaphores of which one is taken at once, and two   *)
(* wait slots, so that one visitor can need both.                          *)
(***************************************************************************)
EXTENDS ServerRequests

SmallLimits == [s \in Semaphores |-> IF s = "wait" THEN 2 ELSE 1]
=============================================================================
