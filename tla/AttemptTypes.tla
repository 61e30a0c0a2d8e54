---------------------------- MODULE AttemptTypes ----------------------------
(***************************************************************************)
(* The vocabulary of a notification attempt: one row of                    *)
(* alert_history_events with kind = 'notification'.  Both the abstract     *)
(* ledger of attempts and the detailed incident models use it.             *)
(***************************************************************************)
EXTENDS Naturals

Phases == {"firing", "recovery"}

(***************************************************************************)
(* "none" stands for a row that does not exist yet.                        *)
(***************************************************************************)
Statuses ==
    {"none", "queued", "pending", "success", "failed", "skipped", "unknown"}

(***************************************************************************)
(* The statuses the partial unique index idx_incident_pending ranges over. *)
(***************************************************************************)
Outstanding == {"queued", "pending"}

(***************************************************************************)
(* The statuses after which a further attempt of the phase is accepted.    *)
(***************************************************************************)
Retryable == {"failed", "unknown"}

Settled == {"success", "failed", "skipped", "unknown"}

(***************************************************************************)
(* Attempt ids are positive and grow with created_at; 0 is retry_of = ''.  *)
(* Incident ids are positive too.                                          *)
(***************************************************************************)
NoAttempt == 0
NoIncident == 0
=============================================================================
