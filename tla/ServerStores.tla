----------------------------- MODULE ServerStores -----------------------------
(***************************************************************************)
(* The parts of the server that write the database from several            *)
(* goroutines: the journal of telemetry (TelemetryJournal), the cache of   *)
(* agent tokens (IdentityCache), the incidents of network monitors         *)
(* (NetworkIncidents) and, in the abstract, the attempts to notify that    *)
(* all incidents share (DeliveryLedger).  They share no state but that of  *)
(* agents and attempts, of which each models what it needs; the variable   *)
(* store names the one that is at work, the others stay as they begin.     *)
(***************************************************************************)
EXTENDS TelemetryJournal, IdentityCache, NetworkIncidents, DeliveryLedger

VARIABLE store   \* "journal", "identities", "losses" or "attempts"

storeVars == <<vars, identityVars, lossVars, ledgerVars, store>>

StoresInit ==
  /\ store \in {"journal", "identities", "losses", "attempts"}
  /\ Init /\ LossInit /\ LedgerInit /\ IdentityInit
  /\ store # "identities" => owner = [t \in Tokens |-> NoOwner]

StoresNext ==
  \/ /\ store = "journal" /\ Next
     /\ UNCHANGED <<identityVars, lossVars, ledgerVars, store>>
  \/ /\ store = "identities" /\ IdentityNext
     /\ UNCHANGED <<vars, lossVars, ledgerVars, store>>
  \/ /\ store = "losses" /\ LossNext
     /\ UNCHANGED <<vars, identityVars, ledgerVars, store>>
  \/ /\ store = "attempts" /\ LedgerNext
     /\ UNCHANGED <<vars, identityVars, lossVars, store>>

StoresSpec == StoresInit /\ [][StoresNext]_storeVars
=============================================================================
