----------------------------- MODULE Incidents -----------------------------
(***************************************************************************)
(* The life of resource-rule incidents and of their notifications: the     *)
(* central routine evaluates rules against agents and raises, resolves and *)
(* retries; delivery goroutines claim attempts and post them; the HTTP     *)
(* handlers edit and delete rules and agents and retry by hand; the        *)
(* process may crash and restart at any point.                             *)
(*                                                                         *)
(* SQLite runs on one connection (SetMaxOpenConns(1)), so one transaction, *)
(* or one statement outside a transaction, is one action here, and         *)
(* everything else interleaves between them.  Times are kept as the order  *)
(* of ids: incidents by triggered_at, attempts by created_at.              *)
(***************************************************************************)
EXTENDS AttemptTypes, FiniteSets

CONSTANTS
    Rules,          \* alert rules of one user, all of them over agents
    DownRules,      \* those that trigger on agent_down; the rest on metrics
    Agents,         \* the user's agents
    SendSlots,      \* how many deliveries run at once (sendSlots)
    Removable,      \* bound: what users delete: "rule", "target", "agent"
    MaxIncidents,   \* bound: how many incidents are ever raised
    MaxAttempts,    \* bound: how many attempts are ever queued
    MaxCrashes      \* bound: how often the process crashes

ASSUME IncidentsAssumption ==
    /\ Rules # {} /\ Agents # {}
    /\ DownRules \subseteq Rules
    /\ SendSlots \in Nat \ {0}
    /\ Removable \subseteq {"rule", "target", "agent"}
    /\ MaxIncidents \in Nat
    /\ MaxAttempts \in Nat
    /\ MaxCrashes \in Nat

VARIABLES
    rule,           \* alerts: rule -> "enabled", "disabled" or "deleted"
    target,         \* rule -> is its saved alert target still there
    agent,          \* agents: agent -> "online", "offline" or "deleted"
    row,            \* alert_agents: <<rule, agent>> -> [status, fired]
    incident,       \* alert_history: id -> its columns
    nIncidents,     \* how many incidents were raised so far
    attempt,        \* alert_history_events of kind notification
    nAttempts,      \* how many attempts were queued so far
    worker,         \* attempt -> where its delivery goroutine is
    at,             \* where the routine is in its tick
    entries,        \* the rule/agent states it has yet to evaluate
    work,           \* the failed attempts or incidents it has yet to retry
    subject,        \* the incident or attempt it is in the middle of
    crashes         \* how many crashes happened

storeVars == <<rule, target, agent, row, incident, nIncidents, attempt,
               nAttempts>>
routineVars == <<at, entries, work, subject>>
vars == <<rule, target, agent, row, incident, nIncidents, attempt, nAttempts,
          worker, at, entries, work, subject, crashes>>

IncidentIds == 1..MaxIncidents
AttemptIds == 1..MaxAttempts
Raised == 1..nIncidents
Attempts == 1..nAttempts
Pairs == Rules \X Agents

Ledger == INSTANCE DeliveryLedger

NoRow == [status |-> "absent", fired |-> NoIncident]
FreshRow == [status |-> "ok", fired |-> NoIncident]

Alarmed == {"firing", "failed"}

SomePair == CHOOSE p \in Pairs : TRUE

IncidentRecord ==
    [pair : Pairs, resolved : BOOLEAN, closed : BOOLEAN,
     notified : Statuses, legacy : BOOLEAN]

WorkerStates ==
    {"none", "waiting", "claimed", "routed", "cleared", "ineligible",
     "failed", "delivered", "dropped", "lost"}

TypeOK ==
    /\ rule \in [Rules -> {"enabled", "disabled", "deleted"}]
    /\ target \in [Rules -> BOOLEAN]
    /\ agent \in [Agents -> {"online", "offline", "deleted"}]
    /\ row \in [Pairs -> [status : {"absent", "ok", "firing", "failed"},
                          fired : 0..MaxIncidents]]
    /\ nIncidents \in 0..MaxIncidents
    /\ incident \in [IncidentIds -> IncidentRecord]
    /\ Ledger!LedgerTypeOK
    /\ worker \in [AttemptIds -> WorkerStates]
    /\ at \in {"idle", "evaluate", "announce", "resolve", "recover", "retry",
               "requeue", "legacy"}
    /\ entries \subseteq [pair : Pairs, status : {"ok", "firing", "failed"},
                          online : BOOLEAN]
    /\ work \subseteq Nat
    /\ subject \in Nat
    /\ crashes \in 0..MaxCrashes

-----------------------------------------------------------------------------
(* What the store answers about an incident. *)

Open(i) == ~incident[i].resolved /\ ~incident[i].closed

(***************************************************************************)
(* Mutant of OpenOn: "open" tests closed_at and forgets resolved_at.       *)
(***************************************************************************)
OpenOnUnclosed(S) ==
    {i \in Raised : incident[i].pair \in S /\ ~incident[i].closed}

(***************************************************************************)
(* The incidents that resolving or removing the pairs in S would end.      *)
(***************************************************************************)
OpenOn(S) == {i \in Raised : incident[i].pair \in S /\ Open(i)}

(***************************************************************************)
(* The computed columns of incidentSelect for an incident without monitor. *)
(***************************************************************************)
MonitoringAvailable(i) ==
    /\ rule[incident[i].pair[1]] # "deleted"
    /\ agent[incident[i].pair[2]] # "deleted"
    /\ ~incident[i].closed

RetryAvailable(i) ==
    MonitoringAvailable(i) /\ target[incident[i].pair[1]]

(***************************************************************************)
(* A firing notification is pointless once its incident has resolved.      *)
(***************************************************************************)
Eligible(i, ph) ==
    MonitoringAvailable(i) /\ (ph = "firing" => ~incident[i].resolved)

(***************************************************************************)
(* Mutant of Accepted: the previous attempt of the phase is not looked at. *)
(***************************************************************************)
AcceptedAgain(i, ph, p) ==
    /\ Eligible(i, ph)
    /\ p # NoAttempt \/ incident[i].legacy => RetryAvailable(i)
    /\ ph = "recovery" => incident[i].resolved

(***************************************************************************)
(* Everything AlertAttemptQueue checks inside its transaction before it    *)
(* inserts an attempt that retries p.                                      *)
(***************************************************************************)
Accepted(i, ph, p) ==
    /\ Eligible(i, ph)
    /\ p # NoAttempt \/ incident[i].legacy => RetryAvailable(i)
    /\ ph = "recovery" => incident[i].resolved
    /\ Ledger!MayFollow(p, i, ph)

(***************************************************************************)
(* Mutant of WithNotified: queueing does not set notified_status back.     *)
(***************************************************************************)
WithOutcomeOnly(i, status) ==
    IF status = "pending" THEN incident
                          ELSE [incident EXCEPT ![i].notified = status]

(***************************************************************************)
(* incident with its notified_status written.                              *)
(***************************************************************************)
WithNotified(i, status) == [incident EXCEPT ![i].notified = status]

(***************************************************************************)
(* AlertAttemptQueue, and the delivery goroutine its callers then start.   *)
(***************************************************************************)
Queue(i, ph, p) ==
    /\ Accepted(i, ph, p)
    /\ nAttempts < MaxAttempts
    /\ nAttempts' = nAttempts + 1
    /\ attempt' = [attempt EXCEPT ![nAttempts + 1] =
           [incident |-> i, phase |-> ph, status |-> "queued", retryOf |-> p]]
    /\ worker' = [worker EXCEPT ![nAttempts + 1] = "waiting"]
    /\ incident' = IF ph = "firing"
                   THEN WithNotified(i, "pending")
                   ELSE incident
    /\ UNCHANGED <<rule, target, agent, row, nIncidents, crashes>>

(***************************************************************************)
(* Queueing as the routine does it: it passes over an error of the store   *)
(* as it does over a refusal, and so over the bound on attempts.           *)
(***************************************************************************)
TryQueue(i, ph, p) ==
    Queue(i, ph, p) \/ UNCHANGED <<storeVars, worker, crashes>>

SetStatus(S, status) ==
    attempt' = [e \in AttemptIds |->
        IF e \in S THEN [attempt[e] EXCEPT !.status = status] ELSE attempt[e]]

QueuedOf(Is) ==
    {e \in Attempts : attempt[e].incident \in Is /\ attempt[e].status = "queued"}

-----------------------------------------------------------------------------

NoIncidentYet == [pair |-> SomePair, resolved |-> FALSE, closed |-> FALSE,
                  notified |-> "none", legacy |-> FALSE]

InitStore ==
    /\ rule = [r \in Rules |-> "enabled"]
    /\ target = [r \in Rules |-> TRUE]
    /\ agent = [a \in Agents |-> "online"]
    /\ attempt = [e \in AttemptIds |-> Ledger!Absent]
    /\ nAttempts = 0

(***************************************************************************)
(* A database written by a release without attempts may be upgraded while  *)
(* one of its incidents is open: the incident is marked legacy.            *)
(***************************************************************************)
InitFresh ==
    /\ row = [p \in Pairs |-> FreshRow]
    /\ incident = [i \in IncidentIds |-> NoIncidentYet]
    /\ nIncidents = 0

InitMigrated ==
    /\ MaxIncidents > 0
    /\ nIncidents = 1
    /\ \E p \in Pairs, status \in {"failed", "success", "unknown"} :
          /\ incident = [i \in IncidentIds |->
                 IF i = 1 THEN [pair |-> p, resolved |-> FALSE,
                                closed |-> FALSE, notified |-> status,
                                legacy |-> TRUE]
                          ELSE NoIncidentYet]
          /\ row = [q \in Pairs |->
                 IF q = p
                 THEN [status |-> IF status = "failed" THEN "failed"
                                  ELSE "firing", fired |-> 1]
                 ELSE FreshRow]

Init ==
    /\ InitStore
    /\ InitFresh \/ InitMigrated
    /\ worker = [e \in AttemptIds |-> "none"]
    /\ at = "idle" /\ entries = {} /\ work = {} /\ subject = 0
    /\ crashes = 0

-----------------------------------------------------------------------------
(* The central routine. *)

(***************************************************************************)
(* Mutant of Evaluated: rows whose notification failed are left out.       *)
(***************************************************************************)
EvaluatedUnlessFailed ==
    {p \in Pairs : rule[p[1]] = "enabled" /\ row[p].status \in {"ok", "firing"}}

(***************************************************************************)
(* The rows that GetActiveAlertsWithState returns.                         *)
(***************************************************************************)
Evaluated ==
    {p \in Pairs : rule[p[1]] = "enabled" /\ row[p].status # "absent"}

(***************************************************************************)
(* is_online as far as the rule looks at it: only agent_down does.         *)
(***************************************************************************)
SeenOnline(p, health) == p[1] \in DownRules => health[p[2]] = "online"

(***************************************************************************)
(* Mutant of Entry: that a rule is firing is told from last_fired_at.      *)
(***************************************************************************)
EntryByLastFired(p, health) ==
    [pair |-> p,
     status |-> IF row[p].fired = NoIncident THEN "ok" ELSE "firing",
     online |-> SeenOnline(p, health)]

(***************************************************************************)
(* What the query says of one of them.                                     *)
(***************************************************************************)
Entry(p, health) ==
    [pair |-> p, status |-> row[p].status, online |-> SeenOnline(p, health)]

(***************************************************************************)
(* A tick starts with AgentMarkOffline for the agents S that have been     *)
(* silent for three minutes, and then GetActiveAlertsWithState: one query  *)
(* whose answer the rest of the tick works from, whatever happens to the   *)
(* rules meanwhile.  The two statements are one action: only the query     *)
(* reads is_online, so a heartbeat between them is one that came before.   *)
(***************************************************************************)
BeginTick(S) ==
    /\ at = "idle"
    /\ \A a \in S : agent[a] = "online"
    /\ agent' = [a \in Agents |-> IF a \in S THEN "offline" ELSE agent[a]]
    /\ entries' = {Entry(p, agent') : p \in Evaluated}
    /\ at' = "evaluate"
    /\ UNCHANGED <<rule, target, row, incident, nIncidents, attempt, nAttempts,
                   worker, work, subject, crashes>>

(***************************************************************************)
(* Whether the rule is violated comes from the snapshot for agent_down and *)
(* from the time series, at the time of evaluation, for a metric.          *)
(***************************************************************************)
Reading(t, violating) ==
    t.pair[1] \in DownRules => (violating <=> ~t.online)

(***************************************************************************)
(* AlertTrigger: the row must still be 'ok'; otherwise, or at the bound,   *)
(* nothing happens.                                                        *)
(***************************************************************************)
Trigger(t) ==
    /\ at = "evaluate" /\ t \in entries
    /\ t.status = "ok" /\ Reading(t, TRUE)
    /\ entries' = entries \ {t}
    /\ \/ /\ row[t.pair].status = "ok"
          /\ nIncidents < MaxIncidents
          /\ nIncidents' = nIncidents + 1
          /\ row' = [row EXCEPT ![t.pair] =
                 [status |-> "firing", fired |-> nIncidents + 1]]
          /\ incident' = [incident EXCEPT ![nIncidents + 1] =
                 [pair |-> t.pair, resolved |-> FALSE, closed |-> FALSE,
                  notified |-> "pending", legacy |-> FALSE]]
          /\ at' = "announce"
          /\ subject' = nIncidents + 1
       \/ /\ row[t.pair].status # "ok" \/ nIncidents = MaxIncidents
          /\ UNCHANGED <<nIncidents, row, incident, at, subject>>
    /\ UNCHANGED <<rule, target, agent, attempt, nAttempts, worker, work,
                   crashes>>

Announce ==
    /\ at = "announce"
    /\ TryQueue(subject, "firing", NoAttempt)
    /\ at' = "evaluate" /\ subject' = 0
    /\ UNCHANGED <<entries, work>>

(***************************************************************************)
(* ResolveAlert first looks for the latest open incident of the pair and   *)
(* gives up when there is none.                                            *)
(***************************************************************************)
FindActive(t) ==
    /\ at = "evaluate" /\ t \in entries
    /\ t.status \in Alarmed /\ Reading(t, FALSE)
    /\ \/ /\ \E i \in OpenOn({t.pair}) :
                /\ \A j \in OpenOn({t.pair}) : j <= i
                /\ subject' = i
          /\ at' = "resolve"
       \/ OpenOn({t.pair}) = {} /\ UNCHANGED <<at, subject>>
    /\ entries' = entries \ {t}
    /\ UNCHANGED <<storeVars, worker, work, crashes>>

(***************************************************************************)
(* AlertResolve: the row goes back to ok, every open incident of the pair  *)
(* resolves and firing attempts nobody claimed yet are skipped.            *)
(***************************************************************************)
Resolve ==
    LET p == incident[subject].pair
        ended == OpenOn({p})
    IN  /\ at = "resolve"
        /\ row' = [row EXCEPT ![p].status =
               IF @ = "absent" THEN "absent" ELSE "ok"]
        /\ incident' = [i \in IncidentIds |->
               IF i \in ended THEN [incident[i] EXCEPT !.resolved = TRUE]
                              ELSE incident[i]]
        /\ SetStatus({e \in QueuedOf(ended) : attempt[e].phase = "firing"},
                     "skipped")
        /\ at' = "recover"
        /\ UNCHANGED <<rule, target, agent, nIncidents, nAttempts, worker,
                       entries, work, subject, crashes>>

AnnounceRecovery ==
    /\ at = "recover"
    /\ TryQueue(subject, "recovery", NoAttempt)
    /\ at' = "evaluate" /\ subject' = 0
    /\ UNCHANGED <<entries, work>>

(***************************************************************************)
(* Nothing to do: already alarmed, already ok, or no telemetry to judge.   *)
(***************************************************************************)
LeaveAsIs(t) ==
    /\ at = "evaluate" /\ t \in entries
    /\ \/ t.status \in Alarmed /\ Reading(t, TRUE)
       \/ t.status = "ok" /\ Reading(t, FALSE)
       \/ t.pair[1] \notin DownRules
    /\ entries' = entries \ {t}
    /\ UNCHANGED <<storeVars, worker, at, work, subject, crashes>>

(***************************************************************************)
(* Mutant of FailedLatest: interrupted attempts count as failed.           *)
(***************************************************************************)
NotSucceededLatest ==
    {e \in Attempts :
        /\ attempt[e].status \in Retryable
        /\ Ledger!IsLatest(e, attempt[e].incident, attempt[e].phase)}

(***************************************************************************)
(* The attempts that failed and are the latest of their phase.             *)
(***************************************************************************)
FailedLatest ==
    {e \in Attempts :
        /\ attempt[e].status = "failed"
        /\ Ledger!IsLatest(e, attempt[e].incident, attempt[e].phase)}

(***************************************************************************)
(* Once all are evaluated, AlertAttemptsFailed.  The attempts in Old were  *)
(* created more than 24 hours ago and are left alone.                      *)
(***************************************************************************)
ScanFailed(Old) ==
    /\ at = "evaluate" /\ entries = {}
    /\ work' = FailedLatest \ Old
    /\ at' = "retry"
    /\ UNCHANGED <<storeVars, worker, entries, subject, crashes>>

(***************************************************************************)
(* retryAttempt reads the incident; a firing retry of an incident that has *)
(* ended is recorded as skipped instead of being queued.                   *)
(***************************************************************************)
Retry(e) ==
    LET i == attempt[e].incident
        over == incident[i].closed
                \/ (attempt[e].phase = "firing" /\ incident[i].resolved)
    IN  /\ at = "retry" /\ e \in work
        /\ work' = work \ {e}
        /\ incident' = IF over /\ attempt[e].phase = "firing"
                       THEN WithNotified(i, "skipped")
                       ELSE incident
        /\ IF over THEN UNCHANGED <<at, subject>>
                   ELSE at' = "requeue" /\ subject' = e
        /\ UNCHANGED <<rule, target, agent, row, nIncidents, attempt,
                       nAttempts, worker, entries, crashes>>

Requeue ==
    /\ at = "requeue"
    /\ TryQueue(attempt[subject].incident, attempt[subject].phase, subject)
    /\ at' = "retry" /\ subject' = 0
    /\ UNCHANGED <<entries, work>>

(***************************************************************************)
(* Then AlertHistoryGetFailed: incidents whose firing notification failed, *)
(* and were triggered at most 24 hours ago.                                *)
(***************************************************************************)
ScanLegacy(Old) ==
    /\ at = "retry" /\ work = {}
    /\ work' = {i \in Raised \ Old : incident[i].notified = "failed"}
    /\ at' = "legacy"
    /\ UNCHANGED <<storeVars, worker, entries, subject, crashes>>

(***************************************************************************)
(* The second loop of RetryFailedAlerts: an incident that ended before the *)
(* scan is recorded as skipped; a legacy one that never had an attempt     *)
(* gets its first.                                                         *)
(***************************************************************************)
RetryLegacy(i) ==
    /\ at = "legacy" /\ i \in work
    /\ work' = work \ {i}
    /\ \/ /\ ~Open(i)
          /\ incident' = WithNotified(i, "skipped")
          /\ UNCHANGED <<rule, target, agent, row, nIncidents, attempt,
                         nAttempts, worker, crashes>>
       \/ Open(i) /\ incident[i].legacy /\ TryQueue(i, "firing", NoAttempt)
       \/ /\ Open(i) /\ ~incident[i].legacy
          /\ UNCHANGED <<storeVars, worker, crashes>>
    /\ UNCHANGED <<at, entries, subject>>

TickDone ==
    /\ at = "legacy" /\ work = {}
    /\ at' = "idle"
    /\ UNCHANGED <<storeVars, worker, entries, work, subject, crashes>>

-----------------------------------------------------------------------------
(* A delivery goroutine: alertdelivery.Go and Dispatch. *)

(***************************************************************************)
(* The goroutines that hold a slot: not those that wait for one, nor those *)
(* that are over, whether all went well or the store refused their claim   *)
(* ("dropped") or their outcome ("lost").                                  *)
(***************************************************************************)
Sending ==
    {e \in AttemptIds :
        worker[e] \notin {"none", "waiting", "dropped", "lost"}}

(***************************************************************************)
(* AlertAttemptStart: only a queued attempt is claimed; one whose incident *)
(* is over is skipped there and then.                                      *)
(***************************************************************************)
Start(e) ==
    /\ worker[e] = "waiting"
    /\ Cardinality(Sending) < SendSlots
    /\ \/ /\ attempt[e].status = "queued"
          /\ Eligible(attempt[e].incident, attempt[e].phase)
          /\ SetStatus({e}, "pending")
          /\ worker' = [worker EXCEPT ![e] = "claimed"]
       \/ /\ attempt[e].status = "queued"
          /\ ~Eligible(attempt[e].incident, attempt[e].phase)
          /\ SetStatus({e}, "skipped")
          /\ worker' = [worker EXCEPT ![e] = "none"]
       \/ /\ attempt[e].status # "queued"
          /\ worker' = [worker EXCEPT ![e] = "none"]
          /\ UNCHANGED attempt
    /\ UNCHANGED <<rule, target, agent, row, incident, nIncidents, nAttempts,
                   routineVars, crashes>>

(***************************************************************************)
(* The transaction of AlertAttemptStart fails: the goroutine is over, and  *)
(* its attempt stays queued with nobody to claim it.                       *)
(***************************************************************************)
ClaimFails(e) ==
    /\ worker[e] = "waiting" /\ attempt[e].status = "queued"
    /\ Cardinality(Sending) < SendSlots
    /\ worker' = [worker EXCEPT ![e] = "dropped"]
    /\ UNCHANGED <<storeVars, routineVars, crashes>>

(***************************************************************************)
(* destination: the rule and its target are read now, not when the         *)
(* attempt was queued.  A read that fails ends the attempt as failed.      *)
(***************************************************************************)
FindDestination(e) ==
    LET r == incident[attempt[e].incident].pair[1] IN
    /\ worker[e] = "claimed"
    /\ \/ /\ rule[r] # "deleted" /\ target[r]
          /\ worker' = [worker EXCEPT ![e] = "routed"]
       \/ worker' = [worker EXCEPT ![e] = "failed"]
    /\ UNCHANGED <<storeVars, routineVars, crashes>>

(***************************************************************************)
(* The incident is read again, because it may have ended meanwhile; here   *)
(* too a read may fail.                                                    *)
(***************************************************************************)
CheckAgain(e) ==
    /\ worker[e] = "routed"
    /\ \/ worker' = [worker EXCEPT ![e] =
              IF Eligible(attempt[e].incident, attempt[e].phase)
              THEN "cleared" ELSE "ineligible"]
       \/ worker' = [worker EXCEPT ![e] = "failed"]
    /\ UNCHANGED <<storeVars, routineVars, crashes>>

(***************************************************************************)
(* The webhook is posted; it answers, or fails, or times out.              *)
(***************************************************************************)
Post(e, outcome) ==
    /\ worker[e] = "cleared"
    /\ worker' = [worker EXCEPT ![e] = outcome]
    /\ UNCHANGED <<storeVars, routineVars, crashes>>

(***************************************************************************)
(* The status Dispatch reports for its attempt.                            *)
(***************************************************************************)
Outcome(e) ==
    CASE worker[e] = "delivered"  -> "success"
      [] worker[e] = "failed"     -> "failed"
      [] worker[e] = "ineligible" -> "skipped"

(***************************************************************************)
(* Mutant of StillAlarmed: that the incident may have ended is forgotten.  *)
(***************************************************************************)
EverAlarmed(i) ==
    LET p == incident[i].pair IN row[p].status # "absent" /\ row[p].fired = i

(***************************************************************************)
(* The incident is open, and the row of its pair is the one that raised    *)
(* it, recognised by last_fired_at being the incident's triggered_at.      *)
(***************************************************************************)
StillAlarmed(i) ==
    LET p == incident[i].pair
    IN  row[p].status # "absent" /\ row[p].fired = i /\ Open(i)

(***************************************************************************)
(* AlertAttemptComplete: a firing outcome is copied to the incident and,   *)
(* while the alarm lasts, to its row.                                      *)
(***************************************************************************)
Complete(e) ==
    LET i == attempt[e].incident
        p == incident[i].pair
    IN  /\ worker[e] \in {"delivered", "failed", "ineligible"}
        /\ worker' = [worker EXCEPT ![e] = "none"]
        /\ IF attempt[e].status = "pending"
           THEN /\ SetStatus({e}, Outcome(e))
                /\ IF attempt[e].phase = "firing"
                   THEN /\ incident' = WithNotified(i, Outcome(e))
                        /\ row' = IF Outcome(e) # "skipped" /\ StillAlarmed(i)
                                  THEN [row EXCEPT ![p].status =
                                          IF Outcome(e) = "failed"
                                          THEN "failed" ELSE "firing"]
                                  ELSE row
                   ELSE UNCHANGED <<incident, row>>
           ELSE UNCHANGED <<attempt, incident, row>>
        /\ UNCHANGED <<rule, target, agent, nIncidents, nAttempts,
                       routineVars, crashes>>

(***************************************************************************)
(* AlertAttemptComplete fails (saveErr): the message may have gone out,    *)
(* and the attempt stays pending with nobody to settle it.                 *)
(***************************************************************************)
OutcomeLost(e) ==
    /\ worker[e] \in {"delivered", "failed", "ineligible"}
    /\ worker' = [worker EXCEPT ![e] = "lost"]
    /\ UNCHANGED <<storeVars, routineVars, crashes>>

-----------------------------------------------------------------------------
(* HTTP handlers and ingestion. *)

(***************************************************************************)
(* RetryEventHandler, and RetryAlertHandler on an incident with attempts:  *)
(* the attempt they name was the latest of its phase when they looked,     *)
(* which AlertAttemptQueue checks again.                                   *)
(***************************************************************************)
RetryByHand(e) ==
    /\ e \in Attempts
    /\ Queue(attempt[e].incident, attempt[e].phase, e)
    /\ UNCHANGED routineVars

(***************************************************************************)
(* RetryAlertHandler on an incident that has no firing attempt.            *)
(***************************************************************************)
RetryLegacyByHand(i) ==
    /\ i \in Raised
    /\ incident[i].legacy /\ incident[i].notified \in Retryable
    /\ Queue(i, "firing", NoAttempt)
    /\ UNCHANGED routineVars

(***************************************************************************)
(* AlertUpdate: the rule is switched on or off and its agents become A.    *)
(* Rows that leave are deleted, rows that join start at ok, rows that stay *)
(* keep their state.                                                       *)
(***************************************************************************)
AlertUpdate(r, switch, A) ==
    /\ rule[r] # "deleted"
    /\ \A a \in A : agent[a] # "deleted"
    /\ rule' = [rule EXCEPT ![r] = switch]
    /\ row' = [p \in Pairs |->
           IF p[1] # r THEN row[p]
           ELSE IF p[2] \notin A THEN NoRow
           ELSE IF row[p].status = "absent" THEN FreshRow ELSE row[p]]
    /\ UNCHANGED <<target, agent, incident, nIncidents, attempt, nAttempts,
                   worker, routineVars, crashes>>

(***************************************************************************)
(* closeIncidentMonitoring for the pairs in S, then the cascade that       *)
(* removes their rows.  Queued attempts are skipped even when the incident *)
(* they belong to had already resolved.                                    *)
(***************************************************************************)
RemoveMonitoring(S) ==
    /\ incident' = [i \in IncidentIds |->
           IF i \in OpenOn(S) THEN [incident[i] EXCEPT !.closed = TRUE]
                              ELSE incident[i]]
    /\ SetStatus(QueuedOf({i \in Raised : incident[i].pair \in S}), "skipped")
    /\ row' = [p \in Pairs |-> IF p \in S THEN NoRow ELSE row[p]]
    /\ UNCHANGED <<target, nIncidents, nAttempts, worker, routineVars, crashes>>

AlertDelete(r) ==
    /\ rule[r] # "deleted"
    /\ rule' = [rule EXCEPT ![r] = "deleted"]
    /\ RemoveMonitoring({r} \X Agents)
    /\ UNCHANGED agent

AgentDelete(a) ==
    /\ agent[a] # "deleted"
    /\ agent' = [agent EXCEPT ![a] = "deleted"]
    /\ RemoveMonitoring(Rules \X {a})
    /\ UNCHANGED rule

TargetDelete(r) ==
    /\ target[r]
    /\ target' = [target EXCEPT ![r] = FALSE]
    /\ UNCHANGED <<rule, agent, row, incident, nIncidents, attempt, nAttempts,
                   worker, routineVars, crashes>>

(***************************************************************************)
(* A sample arrives: is_online = 1.                                        *)
(***************************************************************************)
Heartbeat(a) ==
    /\ agent[a] = "offline"
    /\ agent' = [agent EXCEPT ![a] = "online"]
    /\ UNCHANGED <<rule, target, row, incident, nIncidents, attempt, nAttempts,
                   worker, routineVars, crashes>>

(***************************************************************************)
(* Mutant of InFlight: a restart overlooks the attempts nobody claimed.    *)
(***************************************************************************)
Claimed == {e \in Attempts : attempt[e].status = "pending"}

(***************************************************************************)
(* The attempts whose outcome is not known.                                *)
(***************************************************************************)
InFlight == {e \in Attempts : attempt[e].status \in Outstanding}

(***************************************************************************)
(* The process dies and starts again: goroutines and the routine's place   *)
(* are gone, and the end of migrateIncidentHistory marks what was in       *)
(* flight as unknown.                                                      *)
(***************************************************************************)
CrashAndRestart ==
    /\ crashes < MaxCrashes
    /\ crashes' = crashes + 1
    /\ SetStatus(InFlight, "unknown")
    /\ incident' = [i \in IncidentIds |->
           IF incident[i].notified = "pending"
           THEN [incident[i] EXCEPT !.notified = "unknown"] ELSE incident[i]]
    /\ worker' = [e \in AttemptIds |-> "none"]
    /\ at' = "idle" /\ entries' = {} /\ work' = {} /\ subject' = 0
    /\ UNCHANGED <<rule, target, agent, row, nIncidents, nAttempts>>

-----------------------------------------------------------------------------

Tick ==
    \/ \E S \in SUBSET Agents : BeginTick(S)
    \/ \E t \in entries : Trigger(t) \/ FindActive(t) \/ LeaveAsIs(t)
    \/ Announce
    \/ Resolve
    \/ AnnounceRecovery
    \/ \E Old \in SUBSET Attempts : ScanFailed(Old)
    \/ \E e \in work : Retry(e)
    \/ Requeue
    \/ \E Old \in SUBSET Raised : ScanLegacy(Old)
    \/ \E i \in work : RetryLegacy(i)
    \/ TickDone

Deliver(e) ==
    \/ Start(e)
    \/ ClaimFails(e)
    \/ FindDestination(e)
    \/ CheckAgain(e)
    \/ \E outcome \in {"delivered", "failed"} : Post(e, outcome)
    \/ Complete(e)
    \/ OutcomeLost(e)

Users ==
    \/ \E e \in Attempts : RetryByHand(e)
    \/ \E i \in Raised : RetryLegacyByHand(i)
    \/ \E r \in Rules, switch \in {"enabled", "disabled"},
          A \in SUBSET Agents : AlertUpdate(r, switch, A)
    \/ "rule" \in Removable /\ \E r \in Rules : AlertDelete(r)
    \/ "target" \in Removable /\ \E r \in Rules : TargetDelete(r)
    \/ "agent" \in Removable /\ \E a \in Agents : AgentDelete(a)
    \/ \E a \in Agents : Heartbeat(a)

Next ==
    \/ Tick
    \/ \E e \in AttemptIds : Deliver(e)
    \/ Users
    \/ CrashAndRestart

Spec == Init /\ [][Next]_vars

(***************************************************************************)
(* The routine's timer keeps firing and its queries return.  Nothing       *)
(* obliges deliveries, users, agents or crashes to act.                    *)
(***************************************************************************)
RoutineSpec == Spec /\ WF_vars(Tick)

(***************************************************************************)
(* Besides, a delivery goroutine is scheduled and its post ends, at the    *)
(* latest by the client's timeout.  A goroutine waiting for a slot is not  *)
(* starved by newer ones: Go wakes the senders of a channel in order.      *)
(***************************************************************************)
FairSpec == RoutineSpec /\ \A e \in AttemptIds : SF_vars(Deliver(e))

-----------------------------------------------------------------------------
(* Safety. *)

(***************************************************************************)
(* A row of alert_agents is alarmed only on account of an open incident of *)
(* the same pair: last_fired_at names it.  A late delivery of an earlier   *)
(* incident, a rule edit that replaced the row, a resolution or a deletion *)
(* in between must not leave an alarm that nothing will ever clear.        *)
(***************************************************************************)
RowTracksIncident ==
    \A p \in Pairs : row[p].status \in Alarmed =>
        /\ row[p].fired \in Raised
        /\ incident[row[p].fired].pair = p
        /\ Open(row[p].fired)

(***************************************************************************)
(* A recovery is announced only for an incident that resolved: removing a  *)
(* rule or an agent closes its incidents without a recovery message, and   *)
(* an incident ends in one way only.                                       *)
(***************************************************************************)
NoFalseRecovery ==
    /\ \A i \in Raised : ~(incident[i].resolved /\ incident[i].closed)
    /\ \A e \in Attempts : attempt[e].phase = "recovery" =>
           /\ attempt[e].incident \in Raised
           /\ incident[attempt[e].incident].resolved

LatestFiringIs(i, status) ==
    \E e \in Attempts :
        Ledger!IsLatest(e, i, "firing") /\ attempt[e].status = status

(***************************************************************************)
(* notified_status, which the incident list shows and the routine retries  *)
(* from, agrees with the latest firing attempt: success and failed are     *)
(* that attempt's outcome, and an open incident is pending only while an   *)
(* attempt is in flight or before there ever was one: the routine is about *)
(* to queue the first, or the store refused to.                            *)
(***************************************************************************)
NotifiedAgrees ==
    \A i \in Raised :
        /\ incident[i].notified \in {"success", "failed"} =>
               \/ LatestFiringIs(i, incident[i].notified)
               \/ /\ incident[i].legacy
                  /\ \A e \in Attempts : ~Ledger!OfPhase(e, i, "firing")
        /\ incident[i].notified = "pending" =>
               \/ LatestFiringIs(i, "queued") \/ LatestFiringIs(i, "pending")
               \/ \A e \in Attempts : ~Ledger!OfPhase(e, i, "firing")
               \/ ~Open(i)

(***************************************************************************)
(* Each attempt in flight is in the hands of exactly the goroutine that    *)
(* claimed it: a pending attempt has a delivery behind it that will settle *)
(* it, unless storing the outcome failed, and a delivery that has claimed  *)
(* one finds it still pending, so no outcome is overtaken.  A queued one   *)
(* has a goroutine that waits to claim it, unless storing the claim failed.*)
(***************************************************************************)
ClaimHeld ==
    \A e \in AttemptIds :
        /\ worker[e] \notin {"none", "waiting", "dropped"}
               <=> attempt[e].status = "pending"
        /\ attempt[e].status = "queued" => worker[e] \in {"waiting", "dropped"}

(***************************************************************************)
(* What was in flight at a crash is never sent again on its own: only a    *)
(* user's retry, never a step of the routine, follows an unknown attempt   *)
(* (the comment at the end of migrateIncidentHistory).                     *)
(***************************************************************************)
NoAutomaticResend ==
    [][\A e \in AttemptIds :
          /\ attempt[e].status = "none" /\ attempt'[e].status = "queued"
          /\ attempt'[e].retryOf # NoAttempt
          /\ attempt[attempt'[e].retryOf].status = "unknown"
          => UNCHANGED routineVars]_vars

(***************************************************************************)
(* An incident that ended stays ended the same way, and an alarm is raised *)
(* for it no more: its row never returns to it.                            *)
(***************************************************************************)
EndingIsFinal ==
    [][\A i \in Raised : ~Open(i) =>
          /\ incident'[i].resolved = incident[i].resolved
          /\ incident'[i].closed = incident[i].closed
          /\ ~\E p \in Pairs : row'[p].status \in Alarmed /\ row'[p].fired = i
      ]_vars

(***************************************************************************)
(* Attempts follow the ledger's rules whoever queues them.                 *)
(***************************************************************************)
ImplementsLedger == Ledger!LedgerSpec

-----------------------------------------------------------------------------
(* Liveness. *)

(***************************************************************************)
(* Every queued attempt is eventually settled, crash or no crash, whoever  *)
(* competes for the slots - or the store refused its claim or its outcome, *)
(* and then nothing but the next restart is obliged to settle it.          *)
(***************************************************************************)
AttemptsSettle ==
    \A e \in AttemptIds :
        attempt[e].status \in Outstanding
            ~> attempt[e].status \in Settled \/ worker[e] \in {"dropped", "lost"}

(***************************************************************************)
(* The pair p is evaluated on every tick: its rule stays enabled and keeps *)
(* the agent.                                                              *)
(***************************************************************************)
Watched(p) == rule[p[1]] = "enabled" /\ row[p].status # "absent"

(***************************************************************************)
(* An agent that stays offline under a rule that watches it raises an      *)
(* alarm, whatever edits, deliveries and crashes came before: after an     *)
(* earlier outage too, whose notification failed, was retried, lost or     *)
(* interrupted.  Only the routine is needed for it.                        *)
(***************************************************************************)
OutageRaisesAlarm ==
    \A p \in DownRules \X Agents :
        <>[](Watched(p) /\ agent[p[2]] = "offline" /\ nIncidents < MaxIncidents)
            => <>[](row[p].status \in Alarmed)

(***************************************************************************)
(* Once it stays online the alarm is cleared, whatever became of its       *)
(* notification.                                                           *)
(***************************************************************************)
RecoveryClearsAlarm ==
    \A p \in DownRules \X Agents :
        <>[](Watched(p) /\ agent[p[2]] = "online")
            => <>[](row[p].status = "ok")
=============================================================================
