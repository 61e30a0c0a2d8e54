-------------------------- MODULE Incidents_proofs --------------------------
(***************************************************************************)
(* Safety of incidents and of their notifications for any number of rules, *)
(* agents, incidents, attempts, send slots and crashes.  First the rows,   *)
(* the endings and the refinement of the ledger; then the notices.         *)
(***************************************************************************)
EXTENDS Incidents, TLAPS

-----------------------------------------------------------------------------
(* Type correctness, and the ids that actions hold on to. *)

(***************************************************************************)
(* What the routine and the goroutines remember refers to rows that exist: *)
(* without this, the routine could resolve an incident never raised.       *)
(***************************************************************************)
Linked ==
    /\ \A e \in Attempts : attempt[e].incident \in Raised
    /\ \A e \in AttemptIds \ Attempts :
           attempt[e].status = "none" /\ worker[e] = "none"
    /\ at \in {"announce", "resolve", "recover"} => subject \in Raised
    /\ at = "requeue" => subject \in Attempts
    /\ at \in {"retry", "requeue"} => work \subseteq Attempts
    /\ at = "legacy" => work \subseteq Raised

Typed == TypeOK /\ Linked

LEMMA PairsExist == SomePair \in Pairs
<1>1. PICK r \in Rules, a \in Agents : TRUE
  BY IncidentsAssumption
<1>2. <<r, a>> \in Pairs
  BY <1>1 DEF Pairs
<1> QED
  BY <1>2 DEF SomePair

LEMMA InitTyped == Init => Typed
<1> SUFFICES ASSUME Init PROVE Typed
  OBVIOUS
<1> USE IncidentsAssumption, PairsExist
    DEF Init, InitStore, Pairs, IncidentIds, AttemptIds, Raised, Attempts,
        NoAttempt, NoIncident, Phases, Statuses, Ledger!NoAttempt,
        Ledger!NoIncident, Ledger!Phases, Ledger!Statuses,
        IncidentRecord, WorkerStates
<1>1. Ledger!LedgerTypeOK
  BY DEF Ledger!LedgerTypeOK, Ledger!Absent, Ledger!AttemptIds
<1>2. CASE InitFresh
  BY <1>1, <1>2 DEF InitFresh, Typed, TypeOK, Linked, FreshRow, NoIncidentYet,
     Ledger!Absent
<1>3. CASE InitMigrated
  BY <1>1, <1>3 DEF InitMigrated, Typed, TypeOK, Linked, FreshRow,
     NoIncidentYet, Ledger!Absent
<1> QED
  BY <1>2, <1>3 DEF Init

(***************************************************************************)
(* Recording a delivery status changes nothing else about any incident.    *)
(***************************************************************************)
LEMMA NotifiedTyped ==
    ASSUME incident \in [IncidentIds -> IncidentRecord],
           NEW i \in IncidentIds, NEW s \in Statuses
    PROVE  /\ WithNotified(i, s) \in [IncidentIds -> IncidentRecord]
           /\ \A j \in IncidentIds :
                  /\ WithNotified(i, s)[j].pair = incident[j].pair
                  /\ WithNotified(i, s)[j].resolved = incident[j].resolved
                  /\ WithNotified(i, s)[j].closed = incident[j].closed
<1> DEFINE new == [incident[i] EXCEPT !.notified = s]
<1>1. incident[i] \in IncidentRecord
  OBVIOUS
<1>2. /\ new \in IncidentRecord
      /\ new.pair = incident[i].pair
      /\ new.resolved = incident[i].resolved
      /\ new.closed = incident[i].closed
  BY <1>1 DEF IncidentRecord
<1>3. WithNotified(i, s) = [incident EXCEPT ![i] = new]
  BY DEF WithNotified
<1> HIDE DEF new
<1> QED
  BY <1>2, <1>3

(***************************************************************************)
(* What queueing, or being refused, leaves behind.                         *)
(***************************************************************************)
LEMMA QueueTyped ==
    ASSUME Typed, NEW i \in Raised, NEW ph \in Phases,
           NEW p \in 0..MaxAttempts, TryQueue(i, ph, p)
    PROVE  /\ Ledger!LedgerTypeOK'
           /\ incident' \in [IncidentIds -> IncidentRecord]
           /\ worker' \in [AttemptIds -> WorkerStates]
           /\ nAttempts' \in 0..MaxAttempts
           /\ Attempts \subseteq Attempts'
           /\ \A e \in Attempts' : attempt'[e].incident \in Raised
           /\ \A e \in AttemptIds \ Attempts' :
                  attempt'[e].status = "none" /\ worker'[e] = "none"
           /\ \A j \in IncidentIds :
                  /\ incident'[j].pair = incident[j].pair
                  /\ incident'[j].resolved = incident[j].resolved
                  /\ incident'[j].closed = incident[j].closed
           /\ UNCHANGED <<rule, target, agent, row, nIncidents, crashes>>
<1> USE IncidentsAssumption
    DEF Typed, TypeOK, Linked, Raised, Attempts, AttemptIds, IncidentIds,
        Ledger!LedgerTypeOK, Ledger!AttemptIds
<1>1. CASE Queue(i, ph, p)
  <2>1. nAttempts + 1 \in AttemptIds /\ i \in IncidentIds /\ i \in 0..MaxIncidents
    BY <1>1 DEF Queue
  <2>2. Ledger!LedgerTypeOK'
    BY <1>1, <2>1 DEF Queue, Ledger!Phases, Ledger!Statuses, Phases
  <2>3. /\ incident' \in [IncidentIds -> IncidentRecord]
         /\ \A j \in IncidentIds :
                /\ incident'[j].pair = incident[j].pair
                /\ incident'[j].resolved = incident[j].resolved
                /\ incident'[j].closed = incident[j].closed
    <3>1. incident' = IF ph = "firing" THEN WithNotified(i, "pending")
                                       ELSE incident
      BY <1>1 DEF Queue
    <3>2. "pending" \in Statuses
      BY DEF Statuses
    <3> QED
      BY <2>1, <3>1, <3>2, NotifiedTyped
  <2>4. worker' \in [AttemptIds -> WorkerStates]
    BY <1>1, <2>1 DEF Queue, WorkerStates
  <2>5. /\ Attempts \subseteq Attempts'
        /\ nAttempts' \in 0..MaxAttempts
        /\ \A e \in Attempts' : attempt'[e].incident \in Raised
        /\ \A e \in AttemptIds \ Attempts' :
               attempt'[e].status = "none" /\ worker'[e] = "none"
        /\ UNCHANGED <<rule, target, agent, row, nIncidents, crashes>>
    <3>1. /\ nAttempts' = nAttempts + 1
          /\ attempt' = [attempt EXCEPT ![nAttempts + 1] =
                 [incident |-> i, phase |-> ph, status |-> "queued",
                  retryOf |-> p]]
          /\ worker' = [worker EXCEPT ![nAttempts + 1] = "waiting"]
          /\ UNCHANGED <<rule, target, agent, row, nIncidents, crashes>>
      BY <1>1 DEF Queue
    <3> QED
      BY <2>1, <3>1
  <2> QED
    BY <2>2, <2>3, <2>4, <2>5
<1>2. CASE UNCHANGED <<storeVars, worker, crashes>>
  BY <1>2 DEF storeVars
<1> QED
  BY <1>1, <1>2 DEF TryQueue

(***************************************************************************)
(* Attempts in the set S of existing ones take the status s.               *)
(***************************************************************************)
LEMMA SetStatusTyped ==
    ASSUME Typed, NEW S \in SUBSET Attempts,
           NEW s \in Statuses, SetStatus(S, s), UNCHANGED nAttempts
    PROVE  /\ Ledger!LedgerTypeOK'
           /\ \A e \in AttemptIds :
                  /\ attempt'[e].incident = attempt[e].incident
                  /\ attempt'[e].phase = attempt[e].phase
           /\ \A e \in AttemptIds \ Attempts : attempt'[e] = attempt[e]
<1> USE IncidentsAssumption
    DEF Typed, TypeOK, Attempts, AttemptIds, Ledger!LedgerTypeOK,
        Ledger!AttemptIds, SetStatus, Statuses, Ledger!Statuses
<1>1. \A e \in AttemptIds :
          /\ attempt'[e] \in [incident : 0..MaxIncidents, phase : Ledger!Phases,
                              status : Ledger!Statuses,
                              retryOf : 0..MaxAttempts]
          /\ attempt'[e].incident = attempt[e].incident
          /\ attempt'[e].phase = attempt[e].phase
  OBVIOUS
<1> QED
  BY <1>1

LEMMA IdsTyped ==
    ASSUME Typed
    PROVE  Raised \subseteq IncidentIds /\ Attempts \subseteq AttemptIds
<1>1. nIncidents \in 0..MaxIncidents /\ nAttempts \in 0..MaxAttempts
  BY DEF Typed, TypeOK, Ledger!LedgerTypeOK
<1> QED
  BY <1>1, IncidentsAssumption DEF Raised, IncidentIds, Attempts, AttemptIds

LEMMA TickTyped == ASSUME Typed, Tick PROVE Typed'
<1> USE IncidentsAssumption DEF Typed, TypeOK
<1>1. ASSUME NEW S \in SUBSET Agents, BeginTick(S) PROVE Typed'
  <2>1. Ledger!LedgerTypeOK'
    BY <1>1 DEF BeginTick, Ledger!LedgerTypeOK
  <2>2. agent' \in [Agents -> {"online", "offline", "deleted"}]
    BY <1>1 DEF BeginTick
  <2>3. entries' \subseteq [pair : Pairs, status : {"ok", "firing", "failed"},
                           online : BOOLEAN]
    <3> SUFFICES ASSUME NEW p \in Evaluated
                 PROVE  Entry(p, agent')
                        \in [pair : Pairs, status : {"ok", "firing", "failed"},
                            online : BOOLEAN]
      BY <1>1 DEF BeginTick
    <3>1. p \in Pairs /\ row[p].status \in {"ok", "firing", "failed"}
      BY DEF Evaluated
    <3>2. SeenOnline(p, agent') \in BOOLEAN
      BY Zenon DEF SeenOnline
    <3> QED
      BY <3>1, <3>2 DEF Entry
  <2> QED
    BY <1>1, <2>1, <2>2, <2>3 DEF BeginTick, Linked, Attempts, Raised
<1>2. ASSUME NEW t \in entries, Trigger(t) PROVE Typed'
  <2>1. t.pair \in Pairs
    OBVIOUS
  <2>2. Ledger!LedgerTypeOK'
    BY <1>2 DEF Trigger, Ledger!LedgerTypeOK
  <2>3. CASE UNCHANGED <<nIncidents, row, incident, at, subject>>
    BY <1>2, <2>2, <2>3 DEF Trigger, Linked, Attempts, Raised
  <2>4. CASE /\ nIncidents < MaxIncidents
             /\ nIncidents' = nIncidents + 1
             /\ row' = [row EXCEPT ![t.pair] =
                    [status |-> "firing", fired |-> nIncidents + 1]]
             /\ incident' = [incident EXCEPT ![nIncidents + 1] =
                    [pair |-> t.pair, resolved |-> FALSE, closed |-> FALSE,
                     notified |-> "pending", legacy |-> FALSE]]
             /\ at' = "announce"
             /\ subject' = nIncidents + 1
    <3>1. nIncidents + 1 \in IncidentIds
      BY <2>4 DEF IncidentIds
    <3>2. incident' \in [IncidentIds -> IncidentRecord]
      BY <2>1, <2>4, <3>1 DEF IncidentRecord, Statuses
    <3> QED
      BY <1>2, <2>1, <2>2, <2>4, <3>1, <3>2
      DEF Trigger, Linked, Attempts, Raised
  <2> QED
    BY <1>2, <2>3, <2>4 DEF Trigger
<1>3. ASSUME NEW t \in entries, FindActive(t) PROVE Typed'
  <2>1. at' = "resolve" => subject' \in Raised
    BY <1>3 DEF FindActive, OpenOn, Alarmed
  <2> QED
    BY <1>3, <2>1
    DEF FindActive, storeVars, Linked, Attempts, Raised, Ledger!LedgerTypeOK
<1>4. ASSUME NEW t \in entries, LeaveAsIs(t) PROVE Typed'
  BY <1>4
  DEF LeaveAsIs, storeVars, Linked, Attempts, Raised, Ledger!LedgerTypeOK
<1>5. CASE Announce
  <2>1. TryQueue(subject, "firing", NoAttempt) /\ subject \in Raised
    BY <1>5 DEF Announce, Linked
  <2> QED
    BY <1>5, <2>1, QueueTyped DEF Announce, Linked, Phases, NoAttempt, Raised
<1>6. CASE Resolve
  <2> DEFINE p == incident[subject].pair
             ended == OpenOn({p})
             S == {e \in QueuedOf(ended) : attempt[e].phase = "firing"}
  <2>1. subject \in Raised /\ Raised \subseteq IncidentIds /\ p \in Pairs
    BY <1>6 DEF Resolve, Linked, Raised, IncidentIds, IncidentRecord
  <2>2. SetStatus(S, "skipped") /\ S \in SUBSET Attempts
    BY <1>6 DEF Resolve, QueuedOf
  <2>3. /\ Ledger!LedgerTypeOK'
        /\ \A e \in AttemptIds : attempt'[e].incident = attempt[e].incident
        /\ \A e \in AttemptIds \ Attempts : attempt'[e] = attempt[e]
    <3> HIDE DEF S, Typed, TypeOK
    <3> QED
      BY <1>6, <2>2, SetStatusTyped DEF Resolve, Statuses
  <2>4. row' \in [Pairs -> [status : {"absent", "ok", "firing", "failed"},
                            fired : 0..MaxIncidents]]
    BY <1>6, <2>1 DEF Resolve
  <2>5. incident' \in [IncidentIds -> IncidentRecord]
    BY <1>6 DEF Resolve, IncidentRecord
  <2>6. UNCHANGED <<rule, target, agent, nIncidents, nAttempts, worker,
                    entries, work, subject, crashes>> /\ at' = "recover"
    BY <1>6 DEF Resolve
  <2>7. TypeOK'
    BY <2>3, <2>4, <2>5, <2>6
  <2>8. Linked'
    BY <2>1, <2>3, <2>6, IdsTyped DEF Linked, Attempts, Raised
  <2> QED
    BY <2>7, <2>8
<1>7. CASE AnnounceRecovery
  <2>1. TryQueue(subject, "recovery", NoAttempt) /\ subject \in Raised
    BY <1>7 DEF AnnounceRecovery, Linked
  <2> QED
    BY <1>7, <2>1, QueueTyped
    DEF AnnounceRecovery, Linked, Phases, NoAttempt, Raised
<1>8. ASSUME NEW Old \in SUBSET Attempts, ScanFailed(Old) PROVE Typed'
  BY <1>8
  DEF ScanFailed, FailedLatest, storeVars, Linked, Attempts, Raised, Ledger!LedgerTypeOK
<1>9. ASSUME NEW e \in work, Retry(e) PROVE Typed'
  <2>1. e \in Attempts /\ attempt[e].incident \in IncidentIds
    <3>1. e \in Attempts
      BY <1>9 DEF Retry, Linked
    <3> QED
      BY <3>1, IdsTyped DEF Linked
  <2>2. incident' \in [IncidentIds -> IncidentRecord]
    BY <1>9, <2>1, NotifiedTyped DEF Retry, Statuses
  <2> QED
    BY <1>9, <2>1, <2>2
    DEF Retry, Linked, Attempts, Raised, Ledger!LedgerTypeOK
<1>10. CASE Requeue
  <2>1. subject \in Attempts /\ subject \in AttemptIds
    <3>1. subject \in Attempts
      BY <1>10 DEF Requeue, Linked
    <3> QED
      BY <3>1, IdsTyped
  <2>2. /\ attempt[subject].incident \in Raised
        /\ attempt[subject].phase \in Phases
        /\ subject \in 0..MaxAttempts
    BY <2>1 DEF Linked, Ledger!LedgerTypeOK, Ledger!AttemptIds, AttemptIds,
                Ledger!Phases, Phases
  <2>3. TryQueue(attempt[subject].incident, attempt[subject].phase,
                      subject)
    BY <1>10 DEF Requeue
  <2> QED
    <3>1. /\ at' = "retry" /\ work \subseteq Attempts /\ work' = work
          /\ subject' = 0 /\ entries' = entries
      BY <1>10 DEF Requeue, Linked
    <3> QED
      BY <2>2, <2>3, <3>1, QueueTyped DEF Linked, Raised
<1>11. ASSUME NEW Old \in SUBSET Raised, ScanLegacy(Old) PROVE Typed'
  BY <1>11
  DEF ScanLegacy, storeVars, Linked, Attempts, Raised, Ledger!LedgerTypeOK
<1>12. ASSUME NEW i \in work, RetryLegacy(i) PROVE Typed'
  <2>1. i \in Raised /\ i \in IncidentIds
    BY <1>12, IdsTyped DEF RetryLegacy, Linked
  <2>2. CASE incident' = WithNotified(i, "skipped")
             /\ UNCHANGED <<rule, target, agent, row, nIncidents, attempt,
                            nAttempts, worker, crashes>>
    <3>1. incident' \in [IncidentIds -> IncidentRecord]
      BY <2>1, <2>2, NotifiedTyped DEF Statuses
    <3> QED
      BY <1>12, <2>2, <3>1
      DEF RetryLegacy, Linked, Attempts, Raised, Ledger!LedgerTypeOK
  <2>3. CASE TryQueue(i, "firing", NoAttempt)
    BY <1>12, <2>1, <2>3, QueueTyped
    DEF RetryLegacy, Linked, Phases, NoAttempt, Raised
  <2>4. CASE UNCHANGED <<storeVars, worker, crashes>>
    BY <1>12, <2>4
    DEF RetryLegacy, storeVars, Linked, Attempts, Raised, Ledger!LedgerTypeOK
  <2> QED
    BY <1>12, <2>2, <2>3, <2>4 DEF RetryLegacy
<1>13. CASE TickDone
  BY <1>13
  DEF TickDone, storeVars, Linked, Attempts, Raised, Ledger!LedgerTypeOK
<1> QED
  BY <1>1, <1>2, <1>3, <1>4, <1>5, <1>6, <1>7, <1>8, <1>9, <1>10, <1>11,
     <1>12, <1>13 DEF Tick

(***************************************************************************)
(* A goroutine exists only for an attempt that was queued.                 *)
(***************************************************************************)
LEMMA WorkersTyped ==
    ASSUME Typed, NEW e \in AttemptIds, worker[e] # "none"
    PROVE  /\ e \in Attempts
           /\ attempt[e].incident \in Raised
           /\ attempt[e].incident \in IncidentIds
           /\ incident[attempt[e].incident].pair \in Pairs
  BY IdsTyped DEF Typed, TypeOK, Linked, IncidentRecord

LEMMA DeliverTyped ==
    ASSUME Typed, NEW e \in AttemptIds, Deliver(e) PROVE Typed'
<1> USE DEF Typed, TypeOK
<1>1. ASSUME NEW s \in Statuses, SetStatus({e}, s), worker[e] # "none",
             UNCHANGED <<nIncidents, nAttempts, routineVars>>,
             worker' = [worker EXCEPT ![e] = "none"]
             \/ worker' = [worker EXCEPT ![e] = "claimed"]
      PROVE  Ledger!LedgerTypeOK' /\ Linked'
             /\ worker' \in [AttemptIds -> WorkerStates]
  <2>1. e \in Attempts
    BY <1>1, WorkersTyped
  <2>2. {e} \in SUBSET Attempts
    BY <2>1
  <2>3. /\ Ledger!LedgerTypeOK'
        /\ \A f \in AttemptIds : attempt'[f].incident = attempt[f].incident
        /\ \A f \in AttemptIds \ Attempts : attempt'[f] = attempt[f]
    <3> HIDE DEF Typed, TypeOK
    <3> QED
      BY <1>1, <2>2, SetStatusTyped
  <2>4. Linked'
    BY <1>1, <2>1, <2>3, IdsTyped DEF Linked, routineVars, Attempts, Raised
  <2> QED
    BY <1>1, <2>3, <2>4 DEF WorkerStates
<1>2. ASSUME UNCHANGED <<storeVars, routineVars, crashes>>, worker[e] # "none",
             NEW s \in WorkerStates, worker' = [worker EXCEPT ![e] = s]
      PROVE  Typed'
  <2>1. e \in Attempts
    BY <1>2, WorkersTyped
  <2> QED
    BY <1>2, <2>1
    DEF storeVars, routineVars, Linked, Attempts, Raised, Ledger!LedgerTypeOK
<1>3. CASE Start(e)
  <2>1. CASE attempt' = attempt
    BY <1>2, <1>3, <2>1 DEF Start, storeVars, WorkerStates
  <2>2. CASE SetStatus({e}, "pending") \/ SetStatus({e}, "skipped")
    BY <1>1, <1>3, <2>2 DEF Start, Statuses, routineVars
  <2> QED
    BY <1>3, <2>1, <2>2 DEF Start
<1>4. CASE FindDestination(e)
  BY <1>2, <1>4 DEF FindDestination, WorkerStates
<1>5. CASE CheckAgain(e)
  BY <1>2, <1>5 DEF CheckAgain, WorkerStates
<1>6. ASSUME NEW o \in {"delivered", "failed"}, Post(e, o) PROVE Typed'
  BY <1>2, <1>6 DEF Post, WorkerStates
<1>7. CASE Complete(e)
  <2> DEFINE i == attempt[e].incident
             p == incident[i].pair
  <2>1. worker[e] # "none" /\ i \in IncidentIds /\ p \in Pairs
    BY <1>7, WorkersTyped DEF Complete
  <2>2. Outcome(e) \in {"success", "failed", "skipped"}
    BY <1>7 DEF Complete, Outcome
  <2>3. row' \in [Pairs -> [status : {"absent", "ok", "firing", "failed"},
                            fired : 0..MaxIncidents]]
    BY <1>7, <2>1 DEF Complete
  <2>4. incident' \in [IncidentIds -> IncidentRecord]
    <3>1. incident' = incident \/ incident' = WithNotified(i, Outcome(e))
      BY <1>7 DEF Complete
    <3> QED
      BY <2>1, <2>2, <3>1, NotifiedTyped DEF Statuses
  <2>5. /\ UNCHANGED <<rule, target, agent, nIncidents, nAttempts,
                       routineVars, crashes>>
        /\ worker' = [worker EXCEPT ![e] = "none"]
        /\ attempt' = attempt \/ SetStatus({e}, Outcome(e))
    BY <1>7 DEF Complete
  <2>6. CASE attempt' = attempt
    BY <2>1, <2>3, <2>4, <2>5, <2>6
    DEF routineVars, Linked, Attempts, Raised, Ledger!LedgerTypeOK, WorkerStates
  <2>7. CASE SetStatus({e}, Outcome(e))
    <3>1. Ledger!LedgerTypeOK' /\ Linked'
          /\ worker' \in [AttemptIds -> WorkerStates]
      BY <1>1, <2>1, <2>2, <2>5, <2>7 DEF Statuses
    <3> QED
      BY <2>3, <2>4, <2>5, <3>1 DEF routineVars
  <2> QED
    BY <2>5, <2>6, <2>7
<1>8. CASE ClaimFails(e)
  BY <1>2, <1>8 DEF ClaimFails, WorkerStates
<1>9. CASE OutcomeLost(e)
  BY <1>2, <1>9 DEF OutcomeLost, WorkerStates
<1> QED
  BY <1>3, <1>4, <1>5, <1>6, <1>7, <1>8, <1>9 DEF Deliver

LEMMA UsersTyped == ASSUME Typed, Users PROVE Typed'
<1> USE DEF Typed, TypeOK
<1>1. ASSUME NEW i \in Raised, NEW ph \in Phases, NEW p \in 0..MaxAttempts,
             Queue(i, ph, p), UNCHANGED routineVars
      PROVE  Typed'
  <2>1. TryQueue(i, ph, p)
    BY <1>1 DEF TryQueue
  <2> QED
    BY <1>1, <2>1, QueueTyped DEF routineVars, Linked, Raised
<1>2. ASSUME NEW e \in Attempts, RetryByHand(e) PROVE Typed'
  <2>1. e \in AttemptIds
    BY IdsTyped
  <2>2. /\ attempt[e].incident \in Raised
        /\ attempt[e].phase \in Phases
        /\ e \in 0..MaxAttempts
    BY <2>1 DEF Linked, Ledger!LedgerTypeOK, Ledger!AttemptIds, AttemptIds,
                Ledger!Phases, Phases
  <2> QED
    BY <1>1, <1>2, <2>2 DEF RetryByHand
<1>3. ASSUME NEW i \in Raised, RetryLegacyByHand(i) PROVE Typed'
  <2>1. NoAttempt \in 0..MaxAttempts
    BY IncidentsAssumption DEF NoAttempt
  <2> QED
    BY <1>1, <1>3, <2>1 DEF RetryLegacyByHand, Phases
<1>4. ASSUME NEW r \in Rules, NEW switch \in {"enabled", "disabled"},
             NEW A \in SUBSET Agents, AlertUpdate(r, switch, A)
      PROVE  Typed'
  <2>1. row' \in [Pairs -> [status : {"absent", "ok", "firing", "failed"},
                            fired : 0..MaxIncidents]]
    BY <1>4, IncidentsAssumption DEF AlertUpdate, NoRow, FreshRow, NoIncident
  <2> QED
    BY <1>4, <2>1
    DEF AlertUpdate, routineVars, Linked, Attempts, Raised, Ledger!LedgerTypeOK
<1>5. ASSUME NEW S \in SUBSET Pairs, RemoveMonitoring(S),
             rule' \in [Rules -> {"enabled", "disabled", "deleted"}],
             agent' \in [Agents -> {"online", "offline", "deleted"}]
      PROVE  Typed'
  <2> DEFINE Q == QueuedOf({i \in Raised : incident[i].pair \in S})
  <2>1. Q \in SUBSET Attempts /\ SetStatus(Q, "skipped")
    BY <1>5 DEF RemoveMonitoring, QueuedOf
  <2>2. UNCHANGED <<target, nIncidents, nAttempts, worker, routineVars, crashes>>
    BY <1>5 DEF RemoveMonitoring
  <2>3. /\ Ledger!LedgerTypeOK'
        /\ \A e \in AttemptIds : attempt'[e].incident = attempt[e].incident
        /\ \A e \in AttemptIds \ Attempts : attempt'[e] = attempt[e]
    <3> HIDE DEF Q, Typed, TypeOK
    <3> QED
      BY <2>1, <2>2, SetStatusTyped DEF Statuses
  <2>4. row' \in [Pairs -> [status : {"absent", "ok", "firing", "failed"},
                            fired : 0..MaxIncidents]]
    BY <1>5, IncidentsAssumption DEF RemoveMonitoring, NoRow, NoIncident
  <2>5. incident' \in [IncidentIds -> IncidentRecord]
    BY <1>5 DEF RemoveMonitoring, IncidentRecord
  <2>6. Linked'
    BY <2>2, <2>3, IdsTyped DEF Linked, Attempts, Raised, routineVars
  <2> QED
    BY <1>5, <2>2, <2>3, <2>4, <2>5, <2>6 DEF routineVars
<1>6. ASSUME NEW r \in Rules, AlertDelete(r) PROVE Typed'
  <2>1. {r} \X Agents \in SUBSET Pairs
    BY DEF Pairs
  <2> QED
    BY <1>5, <1>6, <2>1 DEF AlertDelete
<1>7. ASSUME NEW a \in Agents, AgentDelete(a) PROVE Typed'
  <2>1. Rules \X {a} \in SUBSET Pairs
    BY DEF Pairs
  <2> QED
    BY <1>5, <1>7, <2>1 DEF AgentDelete
<1>8. ASSUME NEW r \in Rules, TargetDelete(r) PROVE Typed'
  BY <1>8
  DEF TargetDelete, routineVars, Linked, Attempts, Raised, Ledger!LedgerTypeOK
<1>9. ASSUME NEW a \in Agents, Heartbeat(a) PROVE Typed'
  BY <1>9
  DEF Heartbeat, routineVars, Linked, Attempts, Raised, Ledger!LedgerTypeOK
<1> QED
  BY <1>2, <1>3, <1>4, <1>6, <1>7, <1>8, <1>9 DEF Users

LEMMA CrashTyped == ASSUME Typed, CrashAndRestart PROVE Typed'
<1> DEFINE S == InFlight
<1>1. S \in SUBSET Attempts /\ SetStatus(S, "unknown") /\ UNCHANGED nAttempts
  BY DEF CrashAndRestart, InFlight
<1>2. /\ Ledger!LedgerTypeOK'
      /\ \A e \in AttemptIds : attempt'[e].incident = attempt[e].incident
      /\ \A e \in AttemptIds \ Attempts : attempt'[e] = attempt[e]
  <2> HIDE DEF S
  <2> QED
    BY <1>1, SetStatusTyped DEF Statuses
<1>3. incident' \in [IncidentIds -> IncidentRecord]
  BY DEF CrashAndRestart, Typed, TypeOK, IncidentRecord, Statuses
<1>4. /\ crashes' \in 0..MaxCrashes
      /\ worker' \in [AttemptIds -> WorkerStates]
  BY IncidentsAssumption DEF CrashAndRestart, Typed, TypeOK, WorkerStates
<1>5. Linked'
  BY <1>2, IdsTyped DEF CrashAndRestart, Typed, Linked, Attempts, Raised
<1> QED
  BY <1>2, <1>3, <1>4, <1>5 DEF CrashAndRestart, Typed, TypeOK

LEMMA StutterTyped == ASSUME Typed, UNCHANGED vars PROVE Typed'
  BY DEF vars, Typed, TypeOK, Linked, Attempts, Raised, Ledger!LedgerTypeOK

(***************************************************************************)
(* Every reachable state is well typed, and nothing that the routine or a  *)
(* goroutine holds on to can be missing from the database.                 *)
(***************************************************************************)
THEOREM IncidentsTyped == Spec => []Typed
<1>1. Typed /\ [Next]_vars => Typed'
  BY TickTyped, DeliverTyped, UsersTyped, CrashTyped, StutterTyped DEF Next
<1> QED
  BY <1>1, InitTyped, PTL DEF Spec

(***************************************************************************)
(* Every table and every program counter keeps its type.                   *)
(***************************************************************************)
THEOREM IncidentsTypeOK == Spec => []TypeOK
<1>1. Typed => TypeOK
  BY DEF Typed
<1> QED
  BY <1>1, IncidentsTyped, PTL

-----------------------------------------------------------------------------
(* The alarm of a row and the end of an incident. *)

Safe == Typed /\ RowTracksIncident /\ NoFalseRecovery

(***************************************************************************)
(* Steps that leave rows and the way incidents ended alone, and raise      *)
(* nothing, keep the safety properties, provided each recovery attempt     *)
(* they add belongs to a resolved incident.                                *)
(***************************************************************************)
SameEndings ==
    /\ nIncidents' = nIncidents
    /\ \A i \in IncidentIds : /\ incident'[i].pair = incident[i].pair
                              /\ incident'[i].resolved = incident[i].resolved
                              /\ incident'[i].closed = incident[i].closed

NewRecoveries ==
    \A e \in Attempts' :
        \/ e \in Attempts /\ attempt'[e].incident = attempt[e].incident
                          /\ attempt'[e].phase = attempt[e].phase
        \/ /\ attempt'[e].incident \in Raised
           /\ attempt'[e].phase = "recovery"
                 => incident[attempt'[e].incident].resolved

LEMMA QuietSafe ==
    ASSUME Safe, SameEndings, NewRecoveries, row' = row
    PROVE  RowTracksIncident' /\ NoFalseRecovery'
<1>1. Raised' = Raised /\ Raised \subseteq IncidentIds
  BY IdsTyped DEF Safe, SameEndings, Raised
<1>2. RowTracksIncident'
  BY <1>1 DEF Safe, SameEndings, RowTracksIncident, Open
<1>3. NoFalseRecovery'
  BY <1>1 DEF Safe, SameEndings, NewRecoveries, NoFalseRecovery
<1> QED
  BY <1>2, <1>3

LEMMA QueueSafe ==
    ASSUME Safe, NEW i \in Raised, NEW ph \in Phases,
           NEW p \in 0..MaxAttempts, TryQueue(i, ph, p)
    PROVE  RowTracksIncident' /\ NoFalseRecovery'
<1>1. SameEndings /\ row' = row
  BY QueueTyped DEF Safe, SameEndings
<1>2. NewRecoveries
  <2>1. CASE Queue(i, ph, p)
    <3>1. nAttempts \in Nat /\ nAttempts + 1 \in AttemptIds
      BY <2>1, IncidentsAssumption
      DEF Queue, Safe, Typed, TypeOK, Ledger!LedgerTypeOK, AttemptIds
    <3>2. attempt \in [AttemptIds -> [incident : 0..MaxIncidents,
                                     phase : Ledger!Phases,
                                     status : Ledger!Statuses,
                                     retryOf : 0..MaxAttempts]]
      BY DEF Safe, Typed, TypeOK, Ledger!LedgerTypeOK, Ledger!AttemptIds,
             AttemptIds
    <3>3. ph = "recovery" => incident[i].resolved
      BY <2>1 DEF Queue, Accepted
    <3> QED
      BY <2>1, <3>1, <3>2, <3>3, IdsTyped
      DEF Queue, NewRecoveries, Attempts, Safe, AttemptIds
  <2>2. CASE UNCHANGED <<storeVars, worker, crashes>>
    BY <2>2 DEF storeVars, NewRecoveries, Attempts
  <2> QED
    BY <2>1, <2>2 DEF TryQueue
<1> QED
  BY <1>1, <1>2, QuietSafe

LEMMA StoreUnchangedSafe ==
    ASSUME Safe, UNCHANGED <<row, incident, nIncidents, attempt, nAttempts>>
    PROVE  RowTracksIncident' /\ NoFalseRecovery'
  BY QuietSafe DEF SameEndings, NewRecoveries, Attempts

(***************************************************************************)
(* Statuses of existing attempts, and delivery statuses of incidents, may  *)
(* move freely.                                                            *)
(***************************************************************************)
LEMMA StatusSafe ==
    ASSUME Safe, UNCHANGED <<nIncidents, nAttempts, row>>,
           NEW S \in SUBSET Attempts, NEW s \in Statuses,
           SetStatus(S, s) \/ attempt' = attempt,
           SameEndings
    PROVE  RowTracksIncident' /\ NoFalseRecovery'
<1>1. NewRecoveries
  BY SetStatusTyped, IdsTyped DEF Safe, NewRecoveries, Attempts
<1> QED
  BY <1>1, QuietSafe

(***************************************************************************)
(* Incidents in the set Is, open until now, end one way or the other, and  *)
(* the rows of their pairs are no longer alarmed.                          *)
(***************************************************************************)
LEMMA EndingSafe ==
    ASSUME Safe, NEW P \in SUBSET Pairs, NEW S \in SUBSET Attempts,
           SetStatus(S, "skipped"), UNCHANGED <<nIncidents, nAttempts>>,
           \/ \A i \in IncidentIds :
                 incident'[i] = IF i \in OpenOn(P)
                                THEN [incident[i] EXCEPT !.resolved = TRUE]
                                ELSE incident[i]
           \/ \A i \in IncidentIds :
                 incident'[i] = IF i \in OpenOn(P)
                                THEN [incident[i] EXCEPT !.closed = TRUE]
                                ELSE incident[i],
           \A p \in P : row'[p].status \notin Alarmed,
           \A p \in Pairs \ P : row'[p] = row[p]
    PROVE  RowTracksIncident' /\ NoFalseRecovery'
<1> USE DEF Safe, Typed
<1>1. Raised' = Raised /\ Raised \subseteq IncidentIds
  BY IdsTyped DEF Raised
<1>2. incident \in [IncidentIds -> IncidentRecord]
  BY DEF TypeOK
<1>3. \A i \in IncidentIds :
          /\ incident'[i].pair = incident[i].pair
          /\ incident[i].resolved => incident'[i].resolved
          /\ i \in Raised /\ incident[i].pair \notin P
                => incident'[i] = incident[i]
          /\ i \notin OpenOn(P) => incident'[i] = incident[i]
          /\ i \in OpenOn(P) =>
                ~(incident'[i].resolved /\ incident'[i].closed)
  BY <1>2 DEF OpenOn, Open, IncidentRecord
<1>4. RowTracksIncident'
  BY <1>1, <1>3 DEF RowTracksIncident, Open
<1>5. \A e \in Attempts : /\ attempt'[e].incident = attempt[e].incident
                          /\ attempt'[e].phase = attempt[e].phase
  BY SetStatusTyped, IdsTyped DEF Statuses
<1>6. Attempts' = Attempts
  BY DEF Attempts
<1>7. NoFalseRecovery'
  BY <1>1, <1>3, <1>5, <1>6 DEF NoFalseRecovery
<1> QED
  BY <1>4, <1>7

LEMMA InitSafe == Init => RowTracksIncident /\ NoFalseRecovery
<1> SUFFICES ASSUME Init PROVE RowTracksIncident /\ NoFalseRecovery
  OBVIOUS
<1>1. Attempts = {}
  BY DEF Init, InitStore, Attempts
<1>2. CASE InitFresh
  BY <1>1, <1>2 DEF InitFresh, RowTracksIncident, NoFalseRecovery, FreshRow,
     Alarmed, Raised
<1>3. CASE InitMigrated
  BY <1>1, <1>3, IncidentsAssumption
  DEF InitMigrated, RowTracksIncident, NoFalseRecovery, FreshRow, Alarmed,
      Raised, Open, NoIncidentYet, IncidentIds, NoIncident
<1> QED
  BY <1>2, <1>3 DEF Init

LEMMA TickSafe ==
    ASSUME Safe, Tick PROVE RowTracksIncident' /\ NoFalseRecovery'
<1>1. ASSUME NEW S \in SUBSET Agents, BeginTick(S)
      PROVE  RowTracksIncident' /\ NoFalseRecovery'
  BY <1>1, StoreUnchangedSafe DEF BeginTick
<1>2. ASSUME NEW t \in entries, Trigger(t)
      PROVE  RowTracksIncident' /\ NoFalseRecovery'
  <2>1. CASE UNCHANGED <<nIncidents, row, incident, at, subject>>
    BY <1>2, <2>1, StoreUnchangedSafe DEF Trigger
  <2>2. CASE /\ nIncidents < MaxIncidents
             /\ nIncidents' = nIncidents + 1
             /\ row' = [row EXCEPT ![t.pair] =
                    [status |-> "firing", fired |-> nIncidents + 1]]
             /\ incident' = [incident EXCEPT ![nIncidents + 1] =
                    [pair |-> t.pair, resolved |-> FALSE, closed |-> FALSE,
                     notified |-> "pending", legacy |-> FALSE]]
    <3> DEFINE n == nIncidents + 1
    <3>1. /\ n \in IncidentIds /\ n \notin Raised
          /\ Raised' = Raised \cup {n} /\ Raised \subseteq IncidentIds
      BY <2>2, IdsTyped, IncidentsAssumption
      DEF Safe, Typed, TypeOK, IncidentIds, Raised
    <3>2. /\ incident \in [IncidentIds -> IncidentRecord]
          /\ row \in [Pairs -> [status : {"absent", "ok", "firing", "failed"},
                               fired : 0..MaxIncidents]]
          /\ t.pair \in Pairs
      BY DEF Safe, Typed, TypeOK
    <3>3. /\ \A i \in Raised : incident'[i] = incident[i]
          /\ incident'[n].pair = t.pair
          /\ ~incident'[n].resolved /\ ~incident'[n].closed
          /\ row'[t.pair].fired = n
          /\ \A p \in Pairs \ {t.pair} : row'[p] = row[p]
      BY <2>2, <3>1, <3>2
    <3>4. RowTracksIncident'
      BY <3>1, <3>3 DEF Safe, RowTracksIncident, Open
    <3>5. UNCHANGED <<attempt, nAttempts>>
      BY <1>2 DEF Trigger
    <3>6. NoFalseRecovery'
      BY <3>1, <3>3, <3>5 DEF Safe, NoFalseRecovery, Attempts
    <3> QED
      BY <3>4, <3>6
  <2> QED
    BY <1>2, <2>1, <2>2 DEF Trigger
<1>3. ASSUME NEW t \in entries, FindActive(t) \/ LeaveAsIs(t)
      PROVE  RowTracksIncident' /\ NoFalseRecovery'
  BY <1>3, StoreUnchangedSafe DEF FindActive, LeaveAsIs, storeVars
<1>4. CASE Announce
  BY <1>4, QueueSafe, IncidentsAssumption
  DEF Announce, Safe, Typed, Linked, Phases, NoAttempt
<1>5. CASE Resolve
  <2> DEFINE p == incident[subject].pair
             ended == OpenOn({p})
             S == {e \in QueuedOf(ended) : attempt[e].phase = "firing"}
  <2>1. p \in Pairs
    BY <1>5, IdsTyped DEF Resolve, Safe, Typed, TypeOK, Linked, IncidentRecord
  <2>2. /\ SetStatus(S, "skipped")
        /\ UNCHANGED <<nIncidents, nAttempts>>
        /\ incident' = [i \in IncidentIds |->
               IF i \in OpenOn({p}) THEN [incident[i] EXCEPT !.resolved = TRUE]
                                    ELSE incident[i]]
    BY <1>5 DEF Resolve
  <2>3. S \in SUBSET Attempts
    BY DEF QueuedOf
  <2>4. /\ row'[p].status \notin Alarmed
        /\ \A q \in Pairs \ {p} : row'[q] = row[q]
    BY <1>5, <2>1 DEF Resolve, Safe, Typed, TypeOK, Alarmed
  <2> HIDE DEF p, S
  <2>5. {p} \in SUBSET Pairs
    BY <2>1
  <2> QED
    BY <2>2, <2>3, <2>4, <2>5, EndingSafe
<1>6. CASE AnnounceRecovery
  BY <1>6, QueueSafe, IncidentsAssumption
  DEF AnnounceRecovery, Safe, Typed, Linked, Phases, NoAttempt
<1>7. ASSUME NEW Old \in SUBSET Attempts, ScanFailed(Old)
      PROVE  RowTracksIncident' /\ NoFalseRecovery'
  BY <1>7, StoreUnchangedSafe DEF ScanFailed, storeVars
<1>8. ASSUME NEW e \in work, Retry(e)
      PROVE  RowTracksIncident' /\ NoFalseRecovery'
  <2>1. e \in Attempts /\ attempt[e].incident \in IncidentIds
    <3>1. e \in Attempts
      BY <1>8 DEF Retry, Safe, Typed, Linked
    <3> QED
      BY <3>1, IdsTyped DEF Safe, Typed, Linked
  <2>2. SameEndings
    <3>1. incident' = incident
          \/ incident' = WithNotified(attempt[e].incident, "skipped")
      BY <1>8 DEF Retry
    <3>2. nIncidents' = nIncidents
      BY <1>8 DEF Retry
    <3> QED
      BY <2>1, <3>1, <3>2, NotifiedTyped
      DEF SameEndings, Statuses, Safe, Typed, TypeOK
  <2> QED
    BY <1>8, <2>2, QuietSafe DEF Retry, NewRecoveries, Attempts
<1>9. CASE Requeue
  <2>1. subject \in Attempts /\ subject \in AttemptIds
    <3>1. subject \in Attempts
      BY <1>9 DEF Requeue, Safe, Typed, Linked
    <3> QED
      BY <3>1, IdsTyped DEF Safe
  <2>2. /\ attempt[subject].incident \in Raised
        /\ attempt[subject].phase \in Phases
        /\ subject \in 0..MaxAttempts
    BY <2>1 DEF Safe, Typed, TypeOK, Linked, Ledger!LedgerTypeOK,
                Ledger!AttemptIds, AttemptIds, Ledger!Phases, Phases
  <2> QED
    BY <1>9, <2>2, QueueSafe DEF Requeue
<1>10. ASSUME NEW Old \in SUBSET Raised, ScanLegacy(Old)
       PROVE  RowTracksIncident' /\ NoFalseRecovery'
  BY <1>10, StoreUnchangedSafe DEF ScanLegacy, storeVars
<1>11. ASSUME NEW i \in work, RetryLegacy(i)
       PROVE  RowTracksIncident' /\ NoFalseRecovery'
  <2>1. i \in Raised /\ i \in IncidentIds
    BY <1>11, IdsTyped DEF RetryLegacy, Safe, Typed, Linked
  <2>2. CASE incident' = WithNotified(i, "skipped")
             /\ UNCHANGED <<rule, target, agent, row, nIncidents, attempt,
                            nAttempts, worker, crashes>>
    <3>1. SameEndings
      BY <2>1, <2>2, NotifiedTyped
      DEF SameEndings, Statuses, Safe, Typed, TypeOK
    <3> QED
      BY <2>2, <3>1, QuietSafe DEF NewRecoveries, Attempts
  <2>3. CASE TryQueue(i, "firing", NoAttempt)
    BY <2>1, <2>3, QueueSafe, IncidentsAssumption DEF Phases, NoAttempt
  <2>4. CASE UNCHANGED <<storeVars, worker, crashes>>
    BY <2>4, StoreUnchangedSafe DEF storeVars
  <2> QED
    BY <1>11, <2>2, <2>3, <2>4 DEF RetryLegacy
<1>12. CASE TickDone
  BY <1>12, StoreUnchangedSafe DEF TickDone, storeVars
<1> QED
  BY <1>1, <1>2, <1>3, <1>4, <1>5, <1>6, <1>7, <1>8, <1>9, <1>10, <1>11,
     <1>12 DEF Tick

LEMMA DeliverSafe ==
    ASSUME Safe, NEW e \in AttemptIds, Deliver(e)
    PROVE  RowTracksIncident' /\ NoFalseRecovery'
<1>1. ASSUME worker[e] # "none" PROVE {e} \in SUBSET Attempts
  BY <1>1, WorkersTyped DEF Safe
<1>2. CASE Start(e)
  <2>1. /\ attempt' = attempt \/ \E s \in Statuses : SetStatus({e}, s)
        /\ UNCHANGED <<row, incident, nIncidents, nAttempts>>
        /\ worker[e] # "none"
    BY <1>2 DEF Start, Statuses
  <2>2. CASE attempt' = attempt
    BY <2>1, <2>2, StoreUnchangedSafe
  <2>3. ASSUME NEW s \in Statuses, SetStatus({e}, s)
        PROVE  RowTracksIncident' /\ NoFalseRecovery'
    <3>1. SameEndings
      BY <2>1 DEF SameEndings
    <3> QED
      BY <1>1, <2>1, <2>3, <3>1, StatusSafe
  <2> QED
    BY <2>1, <2>2, <2>3
<1>3. ASSUME NEW o \in {"delivered", "failed"},
             \/ ClaimFails(e) \/ OutcomeLost(e)
             \/ FindDestination(e) \/ CheckAgain(e) \/ Post(e, o)
      PROVE  RowTracksIncident' /\ NoFalseRecovery'
  BY <1>3, StoreUnchangedSafe
  DEF ClaimFails, OutcomeLost, FindDestination, CheckAgain, Post, storeVars
<1>4. CASE Complete(e)
  <2> DEFINE i == attempt[e].incident
             p == incident[i].pair
  <2>1. /\ worker[e] # "none" /\ i \in Raised /\ i \in IncidentIds
        /\ p \in Pairs /\ {e} \in SUBSET Attempts
    BY <1>1, <1>4, WorkersTyped DEF Complete, Safe
  <2>2. Outcome(e) \in Statuses
    BY <1>4 DEF Complete, Outcome, Statuses
  <2>3. SameEndings
    <3>1. incident' = incident \/ incident' = WithNotified(i, Outcome(e))
      BY <1>4 DEF Complete
    <3>2. nIncidents' = nIncidents
      BY <1>4 DEF Complete
    <3> QED
      BY <2>1, <2>2, <3>1, <3>2, NotifiedTyped
      DEF SameEndings, Safe, Typed, TypeOK
  <2>4. NewRecoveries
    <3>1. nAttempts' = nAttempts
          /\ (attempt' = attempt \/ SetStatus({e}, Outcome(e)))
      BY <1>4 DEF Complete
    <3> QED
      BY <2>1, <2>2, <3>1, SetStatusTyped, IdsTyped
      DEF NewRecoveries, Safe, Attempts
  <2>5. CASE row' = row
    BY <2>3, <2>4, <2>5, QuietSafe
  <2>6. CASE row' # row
    <3>1. /\ Open(i) /\ row[p].fired = i
          /\ row' = [row EXCEPT ![p].status =
                       IF Outcome(e) = "failed" THEN "failed" ELSE "firing"]
      BY <1>4, <2>6 DEF Complete, StillAlarmed
    <3>2. /\ row'[p].fired = i
          /\ \A q \in Pairs \ {p} : row'[q] = row[q]
      BY <2>1, <3>1 DEF Safe, Typed, TypeOK
    <3>3. Raised' = Raised /\ Raised \subseteq IncidentIds
      BY <2>3, IdsTyped DEF SameEndings, Raised, Safe
    <3>4. RowTracksIncident'
      <4> SUFFICES ASSUME NEW q \in Pairs, row'[q].status \in Alarmed
                   PROVE  /\ row'[q].fired \in Raised
                          /\ incident'[row'[q].fired].pair = q
                          /\ ~incident'[row'[q].fired].resolved
                          /\ ~incident'[row'[q].fired].closed
        BY <3>3 DEF RowTracksIncident, Open
      <4>1. CASE q = p
        BY <2>1, <2>3, <3>1, <3>2, <4>1 DEF SameEndings, Open
      <4>2. CASE q # p
        <5>1. row'[q] = row[q]
          BY <3>2, <4>2
        <5>2. /\ row[q].fired \in Raised /\ incident[row[q].fired].pair = q
              /\ Open(row[q].fired)
          BY <5>1 DEF Safe, RowTracksIncident
        <5> QED
          BY <2>3, <3>3, <5>1, <5>2 DEF SameEndings, Open
      <4> QED
        BY <4>1, <4>2
    <3>5. NoFalseRecovery'
      BY <2>3, <2>4, <3>3
      DEF Safe, SameEndings, NewRecoveries, NoFalseRecovery
    <3> QED
      BY <3>4, <3>5
  <2> QED
    BY <2>5, <2>6
<1> QED
  BY <1>2, <1>3, <1>4 DEF Deliver

LEMMA UsersSafe ==
    ASSUME Safe, Users PROVE RowTracksIncident' /\ NoFalseRecovery'
<1>1. ASSUME NEW e \in Attempts, RetryByHand(e)
      PROVE  RowTracksIncident' /\ NoFalseRecovery'
  <2>1. /\ attempt[e].incident \in Raised
        /\ attempt[e].phase \in Phases
        /\ e \in 0..MaxAttempts
    BY IdsTyped DEF Safe, Typed, TypeOK, Linked, Ledger!LedgerTypeOK,
                    Ledger!AttemptIds, AttemptIds, Ledger!Phases, Phases
  <2> QED
    BY <1>1, <2>1, QueueSafe DEF RetryByHand, TryQueue
<1>2. ASSUME NEW i \in Raised, RetryLegacyByHand(i)
      PROVE  RowTracksIncident' /\ NoFalseRecovery'
  BY <1>2, QueueSafe, IncidentsAssumption
  DEF RetryLegacyByHand, TryQueue, Phases, NoAttempt
<1>3. ASSUME NEW r \in Rules, NEW switch \in {"enabled", "disabled"},
             NEW A \in SUBSET Agents, AlertUpdate(r, switch, A)
      PROVE  RowTracksIncident' /\ NoFalseRecovery'
  <2>1. \A p \in Pairs : row'[p].status \in Alarmed => row'[p] = row[p]
    BY <1>3 DEF AlertUpdate, NoRow, FreshRow, Alarmed
  <2>2. UNCHANGED <<incident, nIncidents, attempt, nAttempts>>
    BY <1>3 DEF AlertUpdate
  <2>3. RowTracksIncident'
    BY <2>1, <2>2 DEF Safe, RowTracksIncident, Open, Raised
  <2>4. NoFalseRecovery'
    BY <2>2 DEF Safe, NoFalseRecovery, Raised, Attempts
  <2> QED
    BY <2>3, <2>4
<1>4. ASSUME NEW P \in SUBSET Pairs, RemoveMonitoring(P)
      PROVE  RowTracksIncident' /\ NoFalseRecovery'
  <2> DEFINE S == QueuedOf({i \in Raised : incident[i].pair \in P})
  <2>1. /\ SetStatus(S, "skipped") /\ UNCHANGED <<nIncidents, nAttempts>>
        /\ S \in SUBSET Attempts
        /\ incident' = [i \in IncidentIds |->
               IF i \in OpenOn(P) THEN [incident[i] EXCEPT !.closed = TRUE]
                                  ELSE incident[i]]
    BY <1>4 DEF RemoveMonitoring, QueuedOf
  <2>2. /\ \A p \in P : row'[p].status \notin Alarmed
        /\ \A p \in Pairs \ P : row'[p] = row[p]
    BY <1>4 DEF RemoveMonitoring, NoRow, Alarmed
  <2> HIDE DEF S
  <2> QED
    BY <2>1, <2>2, EndingSafe
<1>5. ASSUME NEW r \in Rules, AlertDelete(r)
      PROVE  RowTracksIncident' /\ NoFalseRecovery'
  <2>1. {r} \X Agents \in SUBSET Pairs
    BY DEF Pairs
  <2> QED
    BY <1>4, <1>5, <2>1 DEF AlertDelete
<1>6. ASSUME NEW a \in Agents, AgentDelete(a)
      PROVE  RowTracksIncident' /\ NoFalseRecovery'
  <2>1. Rules \X {a} \in SUBSET Pairs
    BY DEF Pairs
  <2> QED
    BY <1>4, <1>6, <2>1 DEF AgentDelete
<1>7. ASSUME NEW r \in Rules, NEW a \in Agents, TargetDelete(r) \/ Heartbeat(a)
      PROVE  RowTracksIncident' /\ NoFalseRecovery'
  BY <1>7, StoreUnchangedSafe DEF TargetDelete, Heartbeat
<1> QED
  BY <1>1, <1>2, <1>3, <1>5, <1>6, <1>7, IncidentsAssumption DEF Users

LEMMA CrashSafe ==
    ASSUME Safe, CrashAndRestart PROVE RowTracksIncident' /\ NoFalseRecovery'
<1> DEFINE S == InFlight
<1>1. S \in SUBSET Attempts /\ SetStatus(S, "unknown")
      /\ UNCHANGED <<nIncidents, nAttempts, row>>
  BY DEF CrashAndRestart, InFlight
<1>2. SameEndings
  BY DEF CrashAndRestart, SameEndings, Safe, Typed, TypeOK, IncidentRecord
<1>3. "unknown" \in Statuses
  BY DEF Statuses
<1> HIDE DEF S
<1> QED
  BY <1>1, <1>2, <1>3, StatusSafe

LEMMA NextSafe == Safe /\ [Next]_vars => Safe'
<1> SUFFICES ASSUME Safe, [Next]_vars PROVE Safe'
  OBVIOUS
<1>1. Typed'
  BY TickTyped, DeliverTyped, UsersTyped, CrashTyped, StutterTyped
  DEF Next, Safe
<1>2. RowTracksIncident' /\ NoFalseRecovery'
  BY TickSafe, DeliverSafe, UsersSafe, CrashSafe, StoreUnchangedSafe
  DEF Next, vars
<1> QED
  BY <1>1, <1>2 DEF Safe

(***************************************************************************)
(* The inductive invariant: types, every alarmed row with its incident,    *)
(* and no recovery message about an incident that goes on.                 *)
(***************************************************************************)
THEOREM IncidentsSafe == Spec => []Safe
<1>1. Init => Safe
  BY InitTyped, InitSafe DEF Safe
<1> QED
  BY <1>1, NextSafe, PTL DEF Spec

(***************************************************************************)
(* An alarmed row always names an open incident of its own pair.           *)
(***************************************************************************)
THEOREM RowsTrackIncidents == Spec => []RowTracksIncident
<1>1. Safe => RowTracksIncident
  BY DEF Safe
<1> QED
  BY <1>1, IncidentsSafe, PTL

(***************************************************************************)
(* No recovery is announced for an incident that did not resolve, and none *)
(* both resolves and closes.                                               *)
(***************************************************************************)
THEOREM RecoveriesAreReal == Spec => []NoFalseRecovery
<1>1. Safe => NoFalseRecovery
  BY DEF Safe
<1> QED
  BY <1>1, IncidentsSafe, PTL

-----------------------------------------------------------------------------
(* An ended incident stays as it ended. *)

KeepsEnded ==
    \A i \in Raised : ~Open(i) =>
        /\ incident'[i].resolved = incident[i].resolved
        /\ incident'[i].closed = incident[i].closed

LEMMA SameKeepsEnded == ASSUME Safe, incident' = incident PROVE KeepsEnded
  BY DEF KeepsEnded

LEMMA QueueKeepsEnded ==
    ASSUME Safe, NEW i \in Raised, NEW ph \in Phases,
           NEW p \in 0..MaxAttempts, TryQueue(i, ph, p)
    PROVE  KeepsEnded
  BY QueueTyped, IdsTyped DEF Safe, KeepsEnded

LEMMA NotifiedKeepsEnded ==
    ASSUME Safe, NEW i \in Raised, NEW s \in Statuses,
           incident' = WithNotified(i, s)
    PROVE  KeepsEnded
<1>1. i \in IncidentIds /\ incident \in [IncidentIds -> IncidentRecord]
  BY IdsTyped DEF Safe, Typed, TypeOK
<1> QED
  BY <1>1, NotifiedTyped, IdsTyped DEF Safe, KeepsEnded

LEMMA TickKeepsEnded == ASSUME Safe, Tick PROVE KeepsEnded
<1>1. ASSUME NEW t \in entries, Trigger(t) PROVE KeepsEnded
  <2>1. CASE incident' = incident
    BY <2>1, SameKeepsEnded
  <2>2. CASE /\ nIncidents < MaxIncidents
             /\ incident' = [incident EXCEPT ![nIncidents + 1] =
                    [pair |-> t.pair, resolved |-> FALSE, closed |-> FALSE,
                     notified |-> "pending", legacy |-> FALSE]]
    <3>1. \A i \in Raised : i \in IncidentIds /\ i # nIncidents + 1
      BY <2>2, IdsTyped, IncidentsAssumption
      DEF Safe, Typed, TypeOK, Raised, IncidentIds
    <3> QED
      BY <2>2, <3>1 DEF KeepsEnded, Safe, Typed, TypeOK
  <2> QED
    BY <1>1, <2>1, <2>2 DEF Trigger
<1>2. CASE Announce
  BY <1>2, QueueKeepsEnded, IncidentsAssumption
  DEF Announce, Safe, Typed, Linked, Phases, NoAttempt
<1>3. CASE Resolve
  BY <1>3, IdsTyped DEF Resolve, KeepsEnded, OpenOn, Safe
<1>4. CASE AnnounceRecovery
  BY <1>4, QueueKeepsEnded, IncidentsAssumption
  DEF AnnounceRecovery, Safe, Typed, Linked, Phases, NoAttempt
<1>5. ASSUME NEW e \in work, Retry(e) PROVE KeepsEnded
  <2>1. e \in Attempts /\ attempt[e].incident \in Raised
    BY <1>5 DEF Retry, Safe, Typed, Linked
  <2>2. incident' = incident
        \/ incident' = WithNotified(attempt[e].incident, "skipped")
    BY <1>5 DEF Retry
  <2> QED
    BY <2>1, <2>2, SameKeepsEnded, NotifiedKeepsEnded DEF Statuses
<1>6. CASE Requeue
  <2>1. subject \in Attempts /\ subject \in AttemptIds
    <3>1. subject \in Attempts
      BY <1>6 DEF Requeue, Safe, Typed, Linked
    <3> QED
      BY <3>1, IdsTyped DEF Safe
  <2>2. /\ attempt[subject].incident \in Raised
        /\ attempt[subject].phase \in Phases
        /\ subject \in 0..MaxAttempts
    BY <2>1 DEF Safe, Typed, TypeOK, Linked, Ledger!LedgerTypeOK,
                Ledger!AttemptIds, AttemptIds, Ledger!Phases, Phases
  <2> QED
    BY <1>6, <2>2, QueueKeepsEnded DEF Requeue
<1>7. ASSUME NEW i \in work, RetryLegacy(i) PROVE KeepsEnded
  <2>1. i \in Raised
    BY <1>7 DEF RetryLegacy, Safe, Typed, Linked
  <2>2. \/ incident' = incident
        \/ incident' = WithNotified(i, "skipped")
        \/ TryQueue(i, "firing", NoAttempt)
    BY <1>7 DEF RetryLegacy, storeVars
  <2> QED
    BY <2>1, <2>2, SameKeepsEnded, NotifiedKeepsEnded, QueueKeepsEnded,
       IncidentsAssumption
    DEF Statuses, Phases, NoAttempt
<1>8. CASE incident' = incident
  BY <1>8, SameKeepsEnded
<1> QED
  BY <1>1, <1>2, <1>3, <1>4, <1>5, <1>6, <1>7, <1>8
  DEF Tick, BeginTick, FindActive, LeaveAsIs, ScanFailed, ScanLegacy, TickDone,
      storeVars

LEMMA NextKeepsEnded == ASSUME Safe, Next PROVE KeepsEnded
<1>1. ASSUME NEW e \in AttemptIds, Deliver(e) PROVE KeepsEnded
  <2>1. CASE Complete(e)
    <3>1. worker[e] # "none" /\ Outcome(e) \in Statuses
      BY <2>1 DEF Complete, Outcome, Statuses
    <3>2. attempt[e].incident \in Raised
      BY <3>1, WorkersTyped DEF Safe
    <3>3. incident' = incident
          \/ incident' = WithNotified(attempt[e].incident, Outcome(e))
      BY <2>1 DEF Complete
    <3> QED
      BY <3>1, <3>2, <3>3, SameKeepsEnded, NotifiedKeepsEnded
  <2>2. CASE incident' = incident
    BY <2>2, SameKeepsEnded
  <2> QED
    BY <1>1, <2>1, <2>2
    DEF Deliver, Start, ClaimFails, OutcomeLost, FindDestination, CheckAgain,
        Post, storeVars
<1>2. CASE Users
  <2>1. ASSUME NEW e \in Attempts, RetryByHand(e) PROVE KeepsEnded
    <3>1. /\ attempt[e].incident \in Raised
          /\ attempt[e].phase \in Phases
          /\ e \in 0..MaxAttempts
      BY IdsTyped DEF Safe, Typed, TypeOK, Linked, Ledger!LedgerTypeOK,
                      Ledger!AttemptIds, AttemptIds, Ledger!Phases, Phases
    <3> QED
      BY <2>1, <3>1, QueueKeepsEnded DEF RetryByHand, TryQueue
  <2>2. ASSUME NEW i \in Raised, RetryLegacyByHand(i) PROVE KeepsEnded
    BY <2>2, QueueKeepsEnded, IncidentsAssumption
    DEF RetryLegacyByHand, TryQueue, Phases, NoAttempt
  <2>3. ASSUME NEW P, RemoveMonitoring(P) PROVE KeepsEnded
    BY <2>3, IdsTyped DEF RemoveMonitoring, KeepsEnded, OpenOn, Safe
  <2>4. CASE incident' = incident
    BY <2>4, SameKeepsEnded
  <2> QED
    BY <1>2, <2>1, <2>2, <2>3, <2>4
    DEF Users, AlertUpdate, AlertDelete, AgentDelete, TargetDelete, Heartbeat
<1>3. CASE CrashAndRestart
  BY <1>3, IdsTyped
  DEF CrashAndRestart, KeepsEnded, Safe, Typed, TypeOK, IncidentRecord
<1> QED
  BY <1>1, <1>2, <1>3, TickKeepsEnded DEF Next

(***************************************************************************)
(* Neither a late delivery, nor a retry, nor an edit, nor a restart turns  *)
(* an ended incident back, or alarms a row in its name.                    *)
(***************************************************************************)
THEOREM EndingsAreFinal == Spec => EndingIsFinal
<1> DEFINE Final ==
        \A i \in Raised : ~Open(i) =>
            /\ incident'[i].resolved = incident[i].resolved
            /\ incident'[i].closed = incident[i].closed
            /\ ~\E p \in Pairs : row'[p].status \in Alarmed /\ row'[p].fired = i
<1>1. Safe /\ Safe' /\ [Next]_vars => [Final]_vars
  <2> SUFFICES ASSUME Safe, Safe', Next, NEW i \in Raised, ~Open(i)
               PROVE  /\ incident'[i].resolved = incident[i].resolved
                      /\ incident'[i].closed = incident[i].closed
                      /\ \A p \in Pairs : row'[p].status \in Alarmed
                                            => row'[p].fired # i
    BY Zenon
  <2>1. /\ incident'[i].resolved = incident[i].resolved
        /\ incident'[i].closed = incident[i].closed
    BY NextKeepsEnded DEF KeepsEnded
  <2>2. incident'[i].resolved \/ incident'[i].closed
    BY <2>1 DEF Open
  <2>3. \A p \in Pairs : row'[p].status \in Alarmed => row'[p].fired # i
    BY <2>2 DEF Safe, RowTracksIncident, Open
  <2> QED
    BY <2>1, <2>3
<1> QED
  BY <1>1, IncidentsSafe, PTL DEF Spec, EndingIsFinal

-----------------------------------------------------------------------------
(* The incidents follow the ledger of attempts. *)

LEMMA LedgerStutter ==
    ASSUME UNCHANGED <<attempt, nAttempts>>
    PROVE  [Ledger!LedgerNext]_Ledger!ledgerVars
  BY DEF Ledger!ledgerVars

LEMMA LedgerWithdraw ==
    ASSUME Typed, NEW S \in SUBSET Attempts, SetStatus(S, "skipped"),
           UNCHANGED nAttempts, \A e \in S : attempt[e].status = "queued"
    PROVE  [Ledger!LedgerNext]_Ledger!ledgerVars
<1>1. S \in SUBSET Ledger!AttemptIds
  BY IdsTyped DEF AttemptIds, Ledger!AttemptIds
<1>2. Ledger!Withdraw(S)
  BY DEF SetStatus, Ledger!Withdraw, AttemptIds, Ledger!AttemptIds
<1> QED
  BY <1>1, <1>2 DEF Ledger!LedgerNext

LEMMA LedgerQueue ==
    ASSUME Typed, NEW i \in Raised, NEW ph \in Phases,
           NEW p \in 0..MaxAttempts, TryQueue(i, ph, p)
    PROVE  [Ledger!LedgerNext]_Ledger!ledgerVars
<1>1. CASE Queue(i, ph, p)
  <2>1. Ledger!Enqueue(i, ph, p)
    BY <1>1 DEF Queue, Accepted, Ledger!Enqueue
  <2>2. i \in Ledger!IncidentIds /\ ph \in Ledger!Phases
    BY IdsTyped DEF IncidentIds, Ledger!IncidentIds, Phases, Ledger!Phases
  <2> QED
    BY <2>1, <2>2 DEF Ledger!LedgerNext
<1>2. CASE UNCHANGED <<storeVars, worker, crashes>>
  BY <1>2, LedgerStutter DEF storeVars
<1> QED
  BY <1>1, <1>2 DEF TryQueue

LEMMA TickLedger ==
    ASSUME Typed, Tick PROVE [Ledger!LedgerNext]_Ledger!ledgerVars
<1>1. CASE Announce
  BY <1>1, LedgerQueue, IncidentsAssumption
  DEF Announce, Typed, Linked, Phases, NoAttempt
<1>2. CASE Resolve
  <2> DEFINE S == {e \in QueuedOf(OpenOn({incident[subject].pair})) :
                       attempt[e].phase = "firing"}
  <2>1. /\ S \in SUBSET Attempts
        /\ \A e \in S : attempt[e].status = "queued"
    BY DEF QueuedOf
  <2>2. SetStatus(S, "skipped") /\ UNCHANGED nAttempts
    BY <1>2 DEF Resolve
  <2> HIDE DEF S
  <2> QED
    BY <2>1, <2>2, LedgerWithdraw
<1>3. CASE AnnounceRecovery
  BY <1>3, LedgerQueue, IncidentsAssumption
  DEF AnnounceRecovery, Typed, Linked, Phases, NoAttempt
<1>4. CASE Requeue
  <2>1. subject \in Attempts /\ subject \in AttemptIds
    BY <1>4, IdsTyped DEF Requeue, Typed, Linked
  <2>2. /\ attempt[subject].incident \in Raised
        /\ attempt[subject].phase \in Phases
        /\ subject \in 0..MaxAttempts
    BY <2>1 DEF Typed, TypeOK, Linked, Ledger!LedgerTypeOK,
                Ledger!AttemptIds, AttemptIds, Ledger!Phases, Phases
  <2> QED
    BY <1>4, <2>2, LedgerQueue DEF Requeue
<1>5. ASSUME NEW i \in work, RetryLegacy(i)
      PROVE  [Ledger!LedgerNext]_Ledger!ledgerVars
  <2>1. i \in Raised
    BY <1>5 DEF RetryLegacy, Typed, Linked
  <2>2. \/ UNCHANGED <<attempt, nAttempts>>
        \/ TryQueue(i, "firing", NoAttempt)
    BY <1>5 DEF RetryLegacy, storeVars
  <2> QED
    BY <2>1, <2>2, LedgerStutter, LedgerQueue, IncidentsAssumption
    DEF Phases, NoAttempt
<1>6. CASE UNCHANGED <<attempt, nAttempts>>
  BY <1>6, LedgerStutter
<1> QED
  BY <1>1, <1>2, <1>3, <1>4, <1>5, <1>6
  DEF Tick, BeginTick, Trigger, FindActive, LeaveAsIs, ScanFailed, Retry,
      ScanLegacy, TickDone, storeVars

LEMMA DeliverLedger ==
    ASSUME Typed, NEW e \in AttemptIds, Deliver(e)
    PROVE  [Ledger!LedgerNext]_Ledger!ledgerVars
<1> USE DEF SetStatus, AttemptIds, Ledger!AttemptIds
<1>1. attempt \in [AttemptIds -> [incident : 0..MaxIncidents,
                                 phase : Ledger!Phases,
                                 status : Ledger!Statuses,
                                 retryOf : 0..MaxAttempts]]
  BY DEF Typed, TypeOK, Ledger!LedgerTypeOK
<1>2. ASSUME NEW s \in Ledger!Statuses, SetStatus({e}, s)
      PROVE  attempt' = [attempt EXCEPT ![e].status = s]
  BY <1>1, <1>2
<1>3. CASE Start(e)
  <2>1. CASE attempt[e].status = "queued" /\ SetStatus({e}, "pending")
    <3>1. Ledger!Claim(e)
      BY <1>2, <1>3, <2>1 DEF Start, Ledger!Claim, Ledger!Statuses
    <3> QED
      BY <3>1 DEF Ledger!LedgerNext
  <2>2. CASE attempt[e].status = "queued" /\ SetStatus({e}, "skipped")
    <3>1. Ledger!Withdraw({e})
      BY <1>3, <2>2 DEF Start, Ledger!Withdraw
    <3>2. {e} \in SUBSET Ledger!AttemptIds
      OBVIOUS
    <3> QED
      BY <3>1, <3>2 DEF Ledger!LedgerNext
  <2>3. CASE attempt' = attempt
    BY <1>3, <2>3, LedgerStutter DEF Start
  <2> QED
    BY <1>3, <2>1, <2>2, <2>3 DEF Start
<1>4. CASE Complete(e)
  <2>1. CASE attempt[e].status = "pending" /\ SetStatus({e}, Outcome(e))
    <3>1. Outcome(e) \in {"success", "failed", "skipped"}
      BY <1>4 DEF Complete, Outcome
    <3>2. Ledger!Settle(e, Outcome(e))
      BY <1>2, <1>4, <2>1, <3>1 DEF Complete, Ledger!Settle, Ledger!Statuses
    <3> QED
      BY <3>1, <3>2 DEF Ledger!LedgerNext
  <2>2. CASE attempt' = attempt
    BY <1>4, <2>2, LedgerStutter DEF Complete
  <2> QED
    BY <1>4, <2>1, <2>2 DEF Complete
<1>5. CASE UNCHANGED <<attempt, nAttempts>>
  BY <1>5, LedgerStutter
<1> QED
  BY <1>3, <1>4, <1>5
  DEF Deliver, ClaimFails, OutcomeLost, FindDestination, CheckAgain, Post,
      storeVars

LEMMA UsersLedger ==
    ASSUME Typed, Users PROVE [Ledger!LedgerNext]_Ledger!ledgerVars
<1>1. ASSUME NEW e \in Attempts, RetryByHand(e)
      PROVE  [Ledger!LedgerNext]_Ledger!ledgerVars
  <2>1. /\ attempt[e].incident \in Raised
        /\ attempt[e].phase \in Phases
        /\ e \in 0..MaxAttempts
    BY IdsTyped DEF Typed, TypeOK, Linked, Ledger!LedgerTypeOK,
                    Ledger!AttemptIds, AttemptIds, Ledger!Phases, Phases
  <2> QED
    BY <1>1, <2>1, LedgerQueue DEF RetryByHand, TryQueue
<1>2. ASSUME NEW i \in Raised, RetryLegacyByHand(i)
      PROVE  [Ledger!LedgerNext]_Ledger!ledgerVars
  BY <1>2, LedgerQueue, IncidentsAssumption
  DEF RetryLegacyByHand, TryQueue, Phases, NoAttempt
<1>3. ASSUME NEW P, RemoveMonitoring(P)
      PROVE  [Ledger!LedgerNext]_Ledger!ledgerVars
  <2> DEFINE S == QueuedOf({i \in Raised : incident[i].pair \in P})
  <2>1. /\ S \in SUBSET Attempts
        /\ \A e \in S : attempt[e].status = "queued"
    BY DEF QueuedOf
  <2>2. SetStatus(S, "skipped") /\ UNCHANGED nAttempts
    BY <1>3 DEF RemoveMonitoring
  <2> HIDE DEF S
  <2> QED
    BY <2>1, <2>2, LedgerWithdraw
<1>4. CASE UNCHANGED <<attempt, nAttempts>>
  BY <1>4, LedgerStutter
<1> QED
  BY <1>1, <1>2, <1>3, <1>4
  DEF Users, AlertUpdate, AlertDelete, AgentDelete, TargetDelete, Heartbeat

LEMMA CrashLedger ==
    ASSUME Typed, CrashAndRestart
    PROVE  [Ledger!LedgerNext]_Ledger!ledgerVars
<1>1. \A e \in AttemptIds : attempt[e].status \in Outstanding => e \in Attempts
  BY DEF Typed, Linked, Outstanding
<1>2. Ledger!Interrupt
  BY <1>1 DEF CrashAndRestart, InFlight, SetStatus, Ledger!Interrupt, AttemptIds,
              Ledger!AttemptIds, Outstanding, Ledger!Outstanding
<1> QED
  BY <1>2 DEF Ledger!LedgerNext

(***************************************************************************)
(* Whatever the routine, the deliveries, the users and crashes do to       *)
(* attempts is a behaviour of the ledger.                                  *)
(***************************************************************************)
THEOREM IncidentsImplementLedger == Spec => ImplementsLedger
<1>1. Init => Ledger!LedgerInit
  BY DEF Init, InitStore, Ledger!LedgerInit, AttemptIds, Ledger!AttemptIds
<1>2. Typed /\ [Next]_vars => [Ledger!LedgerNext]_Ledger!ledgerVars
  BY TickLedger, DeliverLedger, UsersLedger, CrashLedger, LedgerStutter
  DEF Next, vars
<1> QED
  BY <1>1, <1>2, IncidentsTyped, PTL
  DEF Spec, ImplementsLedger, Ledger!LedgerSpec

-----------------------------------------------------------------------------
(***************************************************************************)
(* What the notification columns of incidents and the delivery goroutines  *)
(* can be relied on for: claims are held by the goroutine that made them,  *)
(* an interrupted attempt is never sent again unasked, and notified_status *)
(* agrees with the latest firing attempt.                                  *)
(***************************************************************************)
(* What a step may do to the attempts. *)

Idle == UNCHANGED <<attempt, nAttempts, worker>>

Withdraws(S) ==
    /\ S \in SUBSET Attempts
    /\ \A e \in S : attempt[e].status = "queued"
    /\ SetStatus(S, "skipped")
    /\ UNCHANGED <<nAttempts, worker>>

(***************************************************************************)
(* On whose account an attempt that retries p may be queued.               *)
(***************************************************************************)
MayQueue(i, p) ==
    \/ /\ UNCHANGED routineVars
       /\ p = NoAttempt => incident[i].legacy
    \/ at = "announce" /\ at' = "evaluate" /\ p = NoAttempt /\ i = subject
    \/ at \in {"recover", "legacy"} /\ p = NoAttempt
    \/ at = "requeue" /\ p = subject

Queues ==
    \E i \in Raised, ph \in Phases, p \in 0..MaxAttempts :
        Queue(i, ph, p) /\ MayQueue(i, p)

LEMMA AttemptsTyped ==
    ASSUME Typed, NEW e \in Attempts
    PROVE  /\ e \in AttemptIds /\ e \in Nat /\ e \in 0..MaxAttempts
           /\ e # NoAttempt
           /\ attempt[e].incident \in Raised
           /\ attempt[e].phase \in Phases
<1>1. e \in AttemptIds
  BY IdsTyped
<1> QED
  BY <1>1, IncidentsAssumption
  DEF Typed, TypeOK, Linked, Ledger!LedgerTypeOK, Ledger!AttemptIds,
      AttemptIds, Ledger!Phases, Phases, NoAttempt

LEMMA TickAttempts ==
    ASSUME Typed, Tick PROVE Idle \/ (\E S : Withdraws(S)) \/ Queues
<1> USE DEF storeVars, Idle
<1>1. NoAttempt \in 0..MaxAttempts
  BY IncidentsAssumption DEF NoAttempt
<1>2. ASSUME NEW i \in Raised, NEW ph \in Phases, NEW p \in 0..MaxAttempts,
             TryQueue(i, ph, p), MayQueue(i, p)
      PROVE  Idle \/ Queues
  BY <1>2 DEF TryQueue, Queues
<1>3. CASE Announce
  BY <1>1, <1>2, <1>3
  DEF Announce, Typed, Linked, Phases, MayQueue
<1>4. CASE Resolve
  <2> DEFINE S == {e \in QueuedOf(OpenOn({incident[subject].pair})) :
                       attempt[e].phase = "firing"}
  <2>1. /\ S \in SUBSET Attempts
        /\ \A e \in S : attempt[e].status = "queued"
    BY DEF QueuedOf
  <2>2. SetStatus(S, "skipped") /\ UNCHANGED <<nAttempts, worker>>
    BY <1>4 DEF Resolve
  <2> HIDE DEF S
  <2> QED
    BY <2>1, <2>2 DEF Withdraws
<1>5. CASE AnnounceRecovery
  BY <1>1, <1>2, <1>5 DEF AnnounceRecovery, Typed, Linked, Phases, MayQueue
<1>6. CASE Requeue
  <2>1. subject \in Attempts
    BY <1>6 DEF Requeue, Typed, Linked
  <2>2. MayQueue(attempt[subject].incident, subject)
    BY <1>6 DEF Requeue, MayQueue
  <2> QED
    BY <1>2, <1>6, <2>1, <2>2, AttemptsTyped DEF Requeue
<1>7. ASSUME NEW i \in work, RetryLegacy(i) PROVE Idle \/ Queues
  <2>1. i \in Raised
    BY <1>7 DEF RetryLegacy, Typed, Linked
  <2> QED
    BY <1>1, <1>2, <1>7, <2>1 DEF RetryLegacy, Phases, MayQueue
<1>8. CASE Idle
  BY <1>8
<1> QED
  BY <1>3, <1>4, <1>5, <1>6, <1>7, <1>8
  DEF Tick, BeginTick, Trigger, FindActive, LeaveAsIs, ScanFailed, Retry,
      ScanLegacy, TickDone

LEMMA UsersAttempts ==
    ASSUME Typed, Users PROVE Idle \/ (\E S : Withdraws(S)) \/ Queues
<1>1. ASSUME NEW e \in Attempts, RetryByHand(e) PROVE Queues
  BY <1>1, AttemptsTyped DEF RetryByHand, Queues, MayQueue
<1>2. ASSUME NEW i \in Raised, RetryLegacyByHand(i) PROVE Queues
  BY <1>2, IncidentsAssumption
  DEF RetryLegacyByHand, Queues, MayQueue, Phases, NoAttempt
<1>3. ASSUME NEW P, RemoveMonitoring(P) PROVE \E S : Withdraws(S)
  <2> DEFINE S == QueuedOf({i \in Raised : incident[i].pair \in P})
  <2>1. /\ S \in SUBSET Attempts
        /\ \A e \in S : attempt[e].status = "queued"
    BY DEF QueuedOf
  <2>2. SetStatus(S, "skipped") /\ UNCHANGED <<nAttempts, worker>>
    BY <1>3 DEF RemoveMonitoring
  <2> HIDE DEF S
  <2> QED
    BY <2>1, <2>2 DEF Withdraws
<1>4. CASE Idle
  BY <1>4
<1> QED
  BY <1>1, <1>2, <1>3, <1>4
  DEF Users, AlertUpdate, AlertDelete, AgentDelete, TargetDelete, Heartbeat,
      Idle

(***************************************************************************)
(* Queueing fills the next free row and touches no other.                  *)
(***************************************************************************)
NewId == nAttempts + 1

LEMMA QueueShape ==
    ASSUME Typed, NEW i \in Raised, NEW ph \in Phases,
           NEW p \in 0..MaxAttempts, Queue(i, ph, p)
    PROVE  /\ NewId \in AttemptIds /\ NewId \notin Attempts
           /\ NewId \in Nat
           /\ Attempts' = Attempts \cup {NewId}
           /\ \A e \in Attempts : e < NewId
           /\ attempt[NewId].status = "none" /\ worker[NewId] = "none"
           /\ attempt'[NewId] = [incident |-> i, phase |-> ph,
                                 status |-> "queued", retryOf |-> p]
           /\ worker'[NewId] = "waiting"
           /\ \A e \in AttemptIds \ {NewId} :
                  attempt'[e] = attempt[e] /\ worker'[e] = worker[e]
<1>1. /\ nAttempts \in Nat /\ nAttempts < MaxAttempts
      /\ nAttempts' = nAttempts + 1
  BY IncidentsAssumption DEF Queue, Typed, TypeOK, Ledger!LedgerTypeOK
<1>2. /\ NewId \in AttemptIds /\ NewId \notin Attempts /\ NewId \in Nat
      /\ \A e \in Attempts : e < NewId
  BY <1>1, IncidentsAssumption DEF NewId, AttemptIds, Attempts
<1>3. Attempts' = Attempts \cup {NewId}
  BY <1>1 DEF Attempts, NewId
<1>4. attempt[NewId].status = "none" /\ worker[NewId] = "none"
  BY <1>2 DEF Typed, Linked
<1>5. /\ attempt' = [attempt EXCEPT ![NewId] =
             [incident |-> i, phase |-> ph, status |-> "queued", retryOf |-> p]]
      /\ worker' = [worker EXCEPT ![NewId] = "waiting"]
  BY DEF Queue, NewId
<1>6. DOMAIN attempt = AttemptIds /\ DOMAIN worker = AttemptIds
      /\ attempt = [e \in AttemptIds |-> attempt[e]]
  BY DEF Typed, TypeOK, Ledger!LedgerTypeOK, Ledger!AttemptIds, AttemptIds
<1>7. worker = [e \in AttemptIds |-> worker[e]]
  BY DEF Typed, TypeOK
<1> HIDE DEF NewId
<1>8. /\ attempt'[NewId] = [incident |-> i, phase |-> ph,
                            status |-> "queued", retryOf |-> p]
      /\ worker'[NewId] = "waiting"
      /\ \A e \in AttemptIds \ {NewId} :
             attempt'[e] = attempt[e] /\ worker'[e] = worker[e]
  BY <1>2, <1>5, <1>6, <1>7
<1> QED
  BY <1>2, <1>3, <1>4, <1>8

-----------------------------------------------------------------------------
(* Claims. *)

LEMMA IdleHeld == ASSUME ClaimHeld, Idle PROVE ClaimHeld'
  BY DEF Idle, ClaimHeld

LEMMA WithdrawsShape ==
    ASSUME Typed, NEW S, Withdraws(S), NEW e \in AttemptIds
    PROVE  /\ attempt'[e].incident = attempt[e].incident
           /\ attempt'[e].phase = attempt[e].phase
           /\ attempt'[e].retryOf = attempt[e].retryOf
           /\ attempt'[e].status = IF e \in S THEN "skipped"
                                              ELSE attempt[e].status
           /\ e \in S => attempt[e].status = "queued"
<1>1. attempt[e] \in [incident : 0..MaxIncidents, phase : Ledger!Phases,
                      status : Ledger!Statuses, retryOf : 0..MaxAttempts]
  BY DEF Typed, TypeOK, Ledger!LedgerTypeOK, Ledger!AttemptIds, AttemptIds
<1> QED
  BY <1>1 DEF Withdraws, SetStatus

LEMMA WithdrawsHeld ==
    ASSUME Typed, ClaimHeld, NEW S, Withdraws(S) PROVE ClaimHeld'
<1>1. worker' = worker
  BY DEF Withdraws
<1> SUFFICES ASSUME NEW e \in AttemptIds
             PROVE  /\ worker'[e] \notin {"none", "waiting", "dropped"}
                          <=> attempt'[e].status = "pending"
                    /\ attempt'[e].status = "queued"
                          => worker'[e] \in {"waiting", "dropped"}
  BY Zenon DEF ClaimHeld
<1> QED
  BY <1>1, WithdrawsShape DEF ClaimHeld

LEMMA QueuesHeld == ASSUME Typed, ClaimHeld, Queues PROVE ClaimHeld'
<1>1. PICK i \in Raised, ph \in Phases, p \in 0..MaxAttempts : Queue(i, ph, p)
  BY DEF Queues
<1> SUFFICES ASSUME NEW e \in AttemptIds
             PROVE  /\ worker'[e] \notin {"none", "waiting", "dropped"}
                          <=> attempt'[e].status = "pending"
                    /\ attempt'[e].status = "queued"
                          => worker'[e] \in {"waiting", "dropped"}
  BY Zenon DEF ClaimHeld
<1>2. CASE e = NewId
  <2>1. /\ attempt'[NewId] = [incident |-> i, phase |-> ph,
                              status |-> "queued", retryOf |-> p]
        /\ worker'[NewId] = "waiting"
    BY <1>1, QueueShape
  <2>2. attempt'[e].status = "queued" /\ worker'[e] = "waiting"
    BY <1>2, <2>1
  <2> QED
    BY <2>2
<1>3. CASE e # NewId
  <2>1. attempt'[e] = attempt[e] /\ worker'[e] = worker[e]
    BY <1>1, <1>3, QueueShape
  <2> QED
    BY <2>1 DEF ClaimHeld
<1> QED
  BY <1>2, <1>3

(***************************************************************************)
(* What one delivery step does to its own attempt; it touches no other.    *)
(***************************************************************************)
LEMMA DeliverShape ==
    ASSUME Typed, NEW e \in AttemptIds, Deliver(e)
    PROVE  /\ e \in Attempts
           /\ UNCHANGED <<nAttempts, routineVars>>
           /\ \A f \in AttemptIds :
                  /\ attempt'[f].incident = attempt[f].incident
                  /\ attempt'[f].phase = attempt[f].phase
                  /\ attempt'[f].retryOf = attempt[f].retryOf
                  /\ f # e => /\ attempt'[f].status = attempt[f].status
                              /\ worker'[f] = worker[f]
           /\ \/ /\ worker[e] \notin {"none", "waiting", "dropped"}
                 /\ worker'[e] \notin {"none", "waiting", "dropped"}
                 /\ attempt'[e].status = attempt[e].status
                 /\ incident' = incident
              \/ /\ worker[e] = "waiting" /\ worker'[e] = "dropped"
                 /\ attempt[e].status = "queued"
                 /\ attempt'[e].status = "queued"
                 /\ incident' = incident
              \/ /\ Start(e) /\ worker[e] = "waiting"
                 /\ attempt[e].status = "queued"
                 /\ Eligible(attempt[e].incident, attempt[e].phase)
                 /\ attempt'[e].status = "pending" /\ worker'[e] = "claimed"
                 /\ incident' = incident
              \/ /\ Start(e) /\ worker[e] = "waiting"
                 /\ attempt[e].status = "queued"
                 /\ ~Eligible(attempt[e].incident, attempt[e].phase)
                 /\ attempt'[e].status = "skipped" /\ worker'[e] = "none"
                 /\ incident' = incident
              \/ /\ Start(e) /\ worker[e] = "waiting"
                 /\ attempt[e].status # "queued"
                 /\ attempt'[e].status = attempt[e].status
                 /\ worker'[e] = "none"
                 /\ incident' = incident
              \/ /\ Complete(e)
                 /\ worker[e] \notin {"none", "waiting", "dropped"}
                 /\ worker'[e] = "none"
                 /\ attempt'[e].status = IF attempt[e].status = "pending"
                                         THEN Outcome(e) ELSE attempt[e].status
                 /\ Outcome(e) \in {"success", "failed", "skipped"}
                 /\ incident' = IF /\ attempt[e].status = "pending"
                                   /\ attempt[e].phase = "firing"
                                THEN WithNotified(attempt[e].incident, Outcome(e))
                                ELSE incident
<1>1. /\ attempt \in [AttemptIds -> [incident : 0..MaxIncidents,
                                     phase : Ledger!Phases,
                                     status : Ledger!Statuses,
                                     retryOf : 0..MaxAttempts]]
      /\ worker \in [AttemptIds -> WorkerStates]
  BY DEF Typed, TypeOK, Ledger!LedgerTypeOK, Ledger!AttemptIds, AttemptIds
<1>2. \/ attempt' = attempt
      \/ \E s \in Statuses : SetStatus({e}, s)
  BY DEF Deliver, Start, ClaimFails, OutcomeLost, FindDestination, CheckAgain,
         Post, Complete, Outcome, storeVars, Statuses
<1>3. \E s \in WorkerStates : worker' = [worker EXCEPT ![e] = s]
  BY DEF Deliver, Start, ClaimFails, OutcomeLost, FindDestination, CheckAgain,
         Post, Complete, WorkerStates
<1>4. worker[e] # "none"
  BY DEF Deliver, Start, ClaimFails, OutcomeLost, FindDestination, CheckAgain,
         Post, Complete
<1>5. e \in Attempts
  BY <1>4, WorkersTyped
<1>6. UNCHANGED <<nAttempts, routineVars>>
  BY DEF Deliver, Start, ClaimFails, OutcomeLost, FindDestination, CheckAgain,
         Post, Complete, storeVars, routineVars
<1>7. \A f \in AttemptIds :
          /\ attempt'[f].incident = attempt[f].incident
          /\ attempt'[f].phase = attempt[f].phase
          /\ attempt'[f].retryOf = attempt[f].retryOf
          /\ f # e => /\ attempt'[f].status = attempt[f].status
                      /\ worker'[f] = worker[f]
  BY <1>1, <1>2, <1>3 DEF SetStatus
<1>8. ASSUME NEW s, SetStatus({e}, s) PROVE attempt'[e].status = s
  BY <1>1, <1>8 DEF SetStatus
<1>9. ASSUME NEW s, worker' = [worker EXCEPT ![e] = s] PROVE worker'[e] = s
  BY <1>1, <1>9
<1>10. CASE Start(e)
  BY <1>8, <1>9, <1>5, <1>6, <1>7, <1>10 DEF Start
<1>11. CASE FindDestination(e)
  BY <1>5, <1>6, <1>7, <1>9, <1>11 DEF FindDestination, storeVars
<1>12. CASE CheckAgain(e)
  BY <1>5, <1>6, <1>7, <1>9, <1>12 DEF CheckAgain, storeVars
<1>13. ASSUME NEW o \in {"delivered", "failed"}, Post(e, o)
       PROVE  /\ worker[e] \notin {"none", "waiting", "dropped"}
              /\ worker'[e] \notin {"none", "waiting", "dropped"}
              /\ attempt'[e].status = attempt[e].status
              /\ incident' = incident
  BY <1>9, <1>13 DEF Post, storeVars
<1>14. ASSUME Complete(e)
       PROVE  /\ worker[e] \notin {"none", "waiting", "dropped"}
              /\ worker'[e] = "none"
              /\ attempt'[e].status = IF attempt[e].status = "pending"
                                      THEN Outcome(e) ELSE attempt[e].status
              /\ Outcome(e) \in {"success", "failed", "skipped"}
              /\ incident' = IF /\ attempt[e].status = "pending"
                                /\ attempt[e].phase = "firing"
                             THEN WithNotified(attempt[e].incident, Outcome(e))
                             ELSE incident
  <2>1. /\ worker[e] \in {"delivered", "failed", "ineligible"}
        /\ worker' = [worker EXCEPT ![e] = "none"]
        /\ IF attempt[e].status = "pending" THEN SetStatus({e}, Outcome(e))
                                            ELSE attempt' = attempt
        /\ incident' = IF /\ attempt[e].status = "pending"
                          /\ attempt[e].phase = "firing"
                       THEN WithNotified(attempt[e].incident, Outcome(e))
                       ELSE incident
    BY <1>14 DEF Complete
  <2>2. Outcome(e) \in {"success", "failed", "skipped"}
    BY <2>1 DEF Outcome
  <2> QED
    BY <2>1, <2>2, <1>8, <1>9
<1>15. CASE ClaimFails(e)
  BY <1>5, <1>6, <1>7, <1>9, <1>15 DEF ClaimFails, storeVars
<1>16. CASE OutcomeLost(e)
  BY <1>5, <1>6, <1>7, <1>9, <1>16 DEF OutcomeLost, storeVars
<1> QED
  BY <1>5, <1>6, <1>7, <1>10, <1>11, <1>12, <1>13, <1>14, <1>15, <1>16
  DEF Deliver

LEMMA DeliverHeld ==
    ASSUME Typed, ClaimHeld, NEW e \in AttemptIds, Deliver(e) PROVE ClaimHeld'
<1> SUFFICES ASSUME NEW f \in AttemptIds
             PROVE  /\ worker'[f] \notin {"none", "waiting", "dropped"}
                          <=> attempt'[f].status = "pending"
                    /\ attempt'[f].status = "queued"
                          => worker'[f] \in {"waiting", "dropped"}
  BY Zenon DEF ClaimHeld
<1>1. /\ worker[f] \notin {"none", "waiting", "dropped"}
             <=> attempt[f].status = "pending"
      /\ attempt[f].status = "queued" => worker[f] \in {"waiting", "dropped"}
  BY DEF ClaimHeld
<1>2. CASE f # e
  BY <1>1, <1>2, DeliverShape
<1>3. CASE f = e
  <2>1. \/ /\ worker[e] \notin {"none", "waiting", "dropped"}
           /\ worker'[e] \notin {"none", "waiting", "dropped"}
           /\ attempt'[e].status = attempt[e].status
        \/ attempt'[e].status = "queued" /\ worker'[e] = "dropped"
        \/ attempt'[e].status = "pending" /\ worker'[e] = "claimed"
        \/ attempt'[e].status = "skipped" /\ worker'[e] = "none"
        \/ /\ worker[e] = "waiting" /\ attempt[e].status # "queued"
           /\ attempt'[e].status = attempt[e].status /\ worker'[e] = "none"
        \/ /\ worker[e] \notin {"none", "waiting", "dropped"}
           /\ worker'[e] = "none"
           /\ attempt'[e].status = IF attempt[e].status = "pending"
                                   THEN Outcome(e) ELSE attempt[e].status
           /\ Outcome(e) \in {"success", "failed", "skipped"}
    BY DeliverShape
  <2> QED
    BY <1>1, <1>3, <2>1
<1> QED
  BY <1>2, <1>3

LEMMA CrashShape ==
    ASSUME Typed, CrashAndRestart, NEW e \in AttemptIds
    PROVE  /\ attempt'[e].incident = attempt[e].incident
           /\ attempt'[e].phase = attempt[e].phase
           /\ attempt'[e].retryOf = attempt[e].retryOf
           /\ attempt'[e].status = IF attempt[e].status \in Outstanding
                                   THEN "unknown" ELSE attempt[e].status
           /\ worker'[e] = "none"
           /\ nAttempts' = nAttempts
<1>1. attempt[e] \in [incident : 0..MaxIncidents, phase : Ledger!Phases,
                      status : Ledger!Statuses, retryOf : 0..MaxAttempts]
  BY DEF Typed, TypeOK, Ledger!LedgerTypeOK, Ledger!AttemptIds, AttemptIds
<1>2. e \in InFlight <=> attempt[e].status \in Outstanding
  BY DEF InFlight, Typed, Linked, Outstanding
<1> QED
  BY <1>1, <1>2 DEF CrashAndRestart, SetStatus

LEMMA CrashHeld == ASSUME Typed, CrashAndRestart PROVE ClaimHeld'
<1> SUFFICES ASSUME NEW e \in AttemptIds
             PROVE  /\ worker'[e] \notin {"none", "waiting", "dropped"}
                          <=> attempt'[e].status = "pending"
                    /\ attempt'[e].status = "queued"
                          => worker'[e] \in {"waiting", "dropped"}
  BY Zenon DEF ClaimHeld
<1> QED
  BY CrashShape DEF Outstanding

LEMMA NextHeld == Typed /\ ClaimHeld /\ [Next]_vars => ClaimHeld'
<1> SUFFICES ASSUME Typed, ClaimHeld, [Next]_vars PROVE ClaimHeld'
  OBVIOUS
<1>1. CASE Tick
  BY <1>1, TickAttempts, IdleHeld, WithdrawsHeld, QueuesHeld
<1>2. CASE Users
  BY <1>2, UsersAttempts, IdleHeld, WithdrawsHeld, QueuesHeld
<1>3. CASE UNCHANGED vars
  BY <1>3, IdleHeld DEF vars, Idle
<1> QED
  BY <1>1, <1>2, <1>3, DeliverHeld, CrashHeld DEF Next

(***************************************************************************)
(* A pending attempt always has the delivery behind it that claimed it,    *)
(* and that delivery finds it pending: neither a resolution, a deletion, a *)
(* retry nor a restart takes it away in between.                           *)
(***************************************************************************)
THEOREM ClaimsAreHeld == Spec => []ClaimHeld
<1>1. Init => ClaimHeld
  BY DEF Init, InitStore, ClaimHeld, Ledger!Absent
<1> QED
  BY <1>1, NextHeld, IncidentsTyped, PTL DEF Spec

-----------------------------------------------------------------------------
(* Nothing interrupted is sent again unasked. *)

(***************************************************************************)
(* The attempts that the routine has still to retry failed, and stay so: a *)
(* crash in between would forget them.                                     *)
(***************************************************************************)
WorkFailed ==
    /\ at \in {"retry", "requeue"} =>
           \A e \in work : attempt[e].status = "failed"
    /\ at = "requeue" => attempt[subject].status = "failed"

LEMMA FailedStays ==
    ASSUME Typed, Tick \/ Users, NEW e \in Attempts,
           attempt[e].status = "failed"
    PROVE  attempt'[e].status = "failed"
<1>1. e \in AttemptIds
  BY AttemptsTyped
<1>2. CASE Idle
  BY <1>2 DEF Idle
<1>3. ASSUME NEW S, Withdraws(S) PROVE attempt'[e].status = "failed"
  BY <1>1, <1>3, WithdrawsShape
<1>4. CASE Queues
  <2>1. PICK i \in Raised, ph \in Phases, p \in 0..MaxAttempts : Queue(i, ph, p)
    BY <1>4 DEF Queues
  <2>2. attempt'[e] = attempt[e]
    BY <1>1, <2>1, QueueShape
  <2> QED
    BY <2>2
<1> QED
  BY <1>2, <1>3, <1>4, TickAttempts, UsersAttempts

LEMMA TickFailed == ASSUME Typed, WorkFailed, Tick PROVE WorkFailed'
<1>1. at \in {"retry", "requeue"} => work \subseteq Attempts
  BY DEF Typed, Linked
<1>2. at = "requeue" => subject \in Attempts
  BY DEF Typed, Linked
<1>3. ASSUME NEW Old \in SUBSET Attempts, ScanFailed(Old) PROVE WorkFailed'
  BY <1>3 DEF ScanFailed, FailedLatest, WorkFailed, storeVars
<1>4. ASSUME NEW e \in work, Retry(e) PROVE WorkFailed'
  BY <1>4 DEF Retry, WorkFailed
<1>5. CASE Requeue
  BY <1>1, <1>5, FailedStays DEF Requeue, WorkFailed
<1>6. CASE at' \notin {"retry", "requeue"}
  BY <1>6 DEF WorkFailed
<1> QED
  BY <1>3, <1>4, <1>5, <1>6
  DEF Tick, BeginTick, Trigger, Announce, FindActive, Resolve,
      AnnounceRecovery, LeaveAsIs, ScanLegacy, RetryLegacy, TickDone

LEMMA NextFailed == Typed /\ WorkFailed /\ [Next]_vars => WorkFailed'
<1> SUFFICES ASSUME Typed, WorkFailed, [Next]_vars PROVE WorkFailed'
  OBVIOUS
<1>1. /\ at \in {"retry", "requeue"} => work \subseteq Attempts
      /\ at = "requeue" => subject \in Attempts
  BY DEF Typed, Linked
<1>2. CASE Users
  <2>1. UNCHANGED routineVars
    BY <1>2
    DEF Users, RetryByHand, RetryLegacyByHand, AlertUpdate, AlertDelete,
        AgentDelete, RemoveMonitoring, TargetDelete, Heartbeat, routineVars
  <2> QED
    BY <1>1, <1>2, <2>1, FailedStays DEF WorkFailed, routineVars
<1>3. ASSUME NEW e \in AttemptIds, Deliver(e) PROVE WorkFailed'
  <2>1. \A f \in Attempts : attempt[f].status = "failed"
                                => attempt'[f].status = "failed"
    <3> SUFFICES ASSUME NEW f \in Attempts, attempt[f].status = "failed"
                 PROVE  attempt'[f].status = "failed"
      OBVIOUS
    <3>1. f \in AttemptIds
      BY AttemptsTyped
    <3>2. CASE f # e
      BY <1>3, <3>1, <3>2, DeliverShape
    <3>3. CASE f = e
      <4>1. \/ attempt'[e].status = attempt[e].status
            \/ attempt[e].status = "queued"
            \/ attempt'[e].status = IF attempt[e].status = "pending"
                                    THEN Outcome(e) ELSE attempt[e].status
        BY <1>3, DeliverShape
      <4> QED
        BY <3>3, <4>1
    <3> QED
      BY <3>2, <3>3
  <2>2. UNCHANGED routineVars
    BY <1>3, DeliverShape
  <2> QED
    BY <1>1, <2>1, <2>2 DEF WorkFailed, routineVars
<1>4. CASE CrashAndRestart
  BY <1>4 DEF CrashAndRestart, WorkFailed
<1>5. CASE UNCHANGED vars
  BY <1>5 DEF vars, WorkFailed
<1> QED
  BY <1>2, <1>3, <1>4, <1>5, TickFailed DEF Next

(***************************************************************************)
(* An attempt that a restart interrupted is followed by a user's retry     *)
(* only: the routine's scans do not pick it up, and what they picked up    *)
(* before cannot become unknown without the routine forgetting it.         *)
(***************************************************************************)
THEOREM NothingIsResentUnasked == Spec => NoAutomaticResend
<1> DEFINE Unasked(e) ==
        /\ attempt[e].status = "none" /\ attempt'[e].status = "queued"
        /\ attempt'[e].retryOf # NoAttempt
        /\ attempt[attempt'[e].retryOf].status = "unknown"
<1>1. Init => WorkFailed
  BY DEF Init, WorkFailed
<1>2. Typed /\ WorkFailed /\ [Next]_vars =>
          [\A e \in AttemptIds : Unasked(e) => UNCHANGED routineVars]_vars
  <2> SUFFICES ASSUME Typed, WorkFailed, Next, NEW e \in AttemptIds, Unasked(e)
               PROVE  UNCHANGED routineVars
    BY Zenon
  <2>1. CASE Queues
    <3>1. PICK i \in Raised, ph \in Phases, p \in 0..MaxAttempts :
              Queue(i, ph, p) /\ MayQueue(i, p)
      BY <2>1 DEF Queues
    <3>2. e = NewId
      BY <3>1, QueueShape
    <3>3. attempt'[NewId] = [incident |-> i, phase |-> ph,
                             status |-> "queued", retryOf |-> p]
      BY <3>1, QueueShape
    <3>4. attempt'[e].retryOf = p
      BY <3>2, <3>3
    <3>5. p # NoAttempt /\ attempt[p].status = "unknown"
      BY <3>4
    <3> QED
      BY <3>1, <3>5 DEF MayQueue, WorkFailed
  <2>2. ASSUME NEW S, Withdraws(S) PROVE FALSE
    BY <2>2, WithdrawsShape
  <2>3. CASE Idle
    BY <2>3 DEF Idle
  <2>4. ASSUME NEW f \in AttemptIds, Deliver(f) PROVE UNCHANGED routineVars
    BY <2>4, DeliverShape
  <2>5. CASE CrashAndRestart
    BY <2>5, CrashShape
  <2> QED
    BY <2>1, <2>2, <2>3, <2>4, <2>5, TickAttempts, UsersAttempts DEF Next
<1> QED
  BY <1>1, <1>2, NextFailed, IncidentsTyped, PTL DEF Spec, NoAutomaticResend

-----------------------------------------------------------------------------
(* Only the latest attempt of a phase may still have an outcome to come. *)

LatestOnly ==
    \A e, f \in Attempts :
        /\ f > e
        /\ attempt[f].incident = attempt[e].incident
        /\ attempt[f].phase = attempt[e].phase
        => attempt[e].status \in Retryable

(***************************************************************************)
(* The attempts stay the same ones, and only statuses of those in flight   *)
(* move.                                                                   *)
(***************************************************************************)
Moved ==
    /\ nAttempts' = nAttempts
    /\ \A e \in AttemptIds :
           /\ attempt'[e].incident = attempt[e].incident
           /\ attempt'[e].phase = attempt[e].phase
           /\ \/ attempt'[e].status = attempt[e].status
              \/ attempt[e].status \in Outstanding

LEMMA IdleMoved == ASSUME Idle PROVE Moved
  BY DEF Idle, Moved

LEMMA WithdrawsMoved == ASSUME Typed, NEW S, Withdraws(S) PROVE Moved
<1>1. nAttempts' = nAttempts
  BY DEF Withdraws
<1> QED
  BY <1>1, WithdrawsShape DEF Moved, Outstanding

LEMMA DeliverMoved ==
    ASSUME Typed, NEW e \in AttemptIds, Deliver(e) PROVE Moved
<1>1. \/ attempt'[e].status = attempt[e].status
      \/ attempt[e].status \in Outstanding
  <2>1. \/ attempt'[e].status = attempt[e].status
        \/ attempt[e].status = "queued"
        \/ attempt'[e].status = IF attempt[e].status = "pending"
                                THEN Outcome(e) ELSE attempt[e].status
    BY DeliverShape
  <2> QED
    BY <2>1 DEF Outstanding
<1> QED
  BY <1>1, DeliverShape DEF Moved

LEMMA CrashMoved == ASSUME Typed, CrashAndRestart PROVE Moved
<1>1. nAttempts' = nAttempts
  BY DEF CrashAndRestart
<1> QED
  BY <1>1, CrashShape DEF Moved

LEMMA MovedLatest == ASSUME Typed, LatestOnly, Moved PROVE LatestOnly'
<1>1. Attempts' = Attempts /\ Attempts \subseteq AttemptIds
  BY IdsTyped DEF Moved, Attempts
<1> SUFFICES ASSUME NEW e \in Attempts, NEW f \in Attempts, f > e,
                    attempt'[f].incident = attempt'[e].incident,
                    attempt'[f].phase = attempt'[e].phase
             PROVE  attempt'[e].status \in Retryable
  BY <1>1 DEF LatestOnly
<1>2. attempt[e].status \in Retryable
  BY <1>1 DEF LatestOnly, Moved
<1> QED
  BY <1>1, <1>2 DEF Moved, Retryable, Outstanding

(***************************************************************************)
(* AlertAttemptQueue follows the latest attempt only, and only once that   *)
(* one may be retried.                                                     *)
(***************************************************************************)
LEMMA QueueFollows ==
    ASSUME Typed, LatestOnly, NEW i \in Raised, NEW ph \in Phases,
           NEW p \in 0..MaxAttempts, Queue(i, ph, p), NEW e \in Attempts,
           attempt[e].incident = i, attempt[e].phase = ph
    PROVE  attempt[e].status \in Retryable /\ p # NoAttempt
<1>1. Ledger!MayFollow(p, i, ph)
  BY DEF Queue, Accepted
<1>2. /\ p \in Attempts
      /\ attempt[p].incident = i /\ attempt[p].phase = ph
      /\ attempt[p].status \in Retryable
      /\ ~(e > p)
  BY <1>1
  DEF Ledger!MayFollow, Ledger!IsLatest, Ledger!OfPhase, Ledger!Attempts,
      Ledger!Retryable, Retryable, Attempts
<1>3. p = e \/ p > e
  BY <1>2, AttemptsTyped
<1>4. p # NoAttempt
  BY <1>2, AttemptsTyped
<1> QED
  BY <1>2, <1>3, <1>4 DEF LatestOnly

LEMMA QueuesLatest == ASSUME Typed, LatestOnly, Queues PROVE LatestOnly'
<1>1. PICK i \in Raised, ph \in Phases, p \in 0..MaxAttempts : Queue(i, ph, p)
  BY DEF Queues
<1>2. /\ Attempts' = Attempts \cup {NewId}
      /\ \A e \in Attempts : e < NewId
      /\ NewId \in Nat /\ NewId \notin Attempts
      /\ \A e \in Attempts : attempt'[e] = attempt[e] /\ e \in Nat
  BY <1>1, QueueShape, AttemptsTyped
<1>3. attempt'[NewId] = [incident |-> i, phase |-> ph,
                         status |-> "queued", retryOf |-> p]
  BY <1>1, QueueShape
<1>4. attempt'[NewId].incident = i /\ attempt'[NewId].phase = ph
  BY <1>3
<1> SUFFICES ASSUME NEW e \in Attempts', NEW f \in Attempts', f > e,
                    attempt'[f].incident = attempt'[e].incident,
                    attempt'[f].phase = attempt'[e].phase
             PROVE  attempt'[e].status \in Retryable
  BY DEF LatestOnly
<1>5. CASE f \in Attempts /\ e \in Attempts
  BY <1>2, <1>5 DEF LatestOnly
<1>6. CASE f = NewId /\ e \in Attempts
  BY <1>1, <1>2, <1>4, <1>6, QueueFollows
<1>7. CASE e = NewId
  BY <1>2, <1>7
<1> QED
  BY <1>2, <1>5, <1>6, <1>7

LEMMA NextLatest == Typed /\ LatestOnly /\ [Next]_vars => LatestOnly'
<1> SUFFICES ASSUME Typed, LatestOnly, [Next]_vars PROVE LatestOnly'
  OBVIOUS
<1>1. CASE Tick \/ Users
  BY <1>1, TickAttempts, UsersAttempts, IdleMoved, WithdrawsMoved, MovedLatest,
     QueuesLatest
<1>2. CASE UNCHANGED vars
  BY <1>2, IdleMoved, MovedLatest DEF vars, Idle
<1> QED
  BY <1>1, <1>2, DeliverMoved, CrashMoved, MovedLatest DEF Next

-----------------------------------------------------------------------------
(* What is deleted is watched no more. *)

Gone ==
    \A p \in Pairs : rule[p[1]] = "deleted" \/ agent[p[2]] = "deleted" =>
        /\ row[p].status = "absent"
        /\ \A i \in Raised : incident[i].pair = p => ~Open(i)

(***************************************************************************)
(* An incident that cannot be announced any more has ended.                *)
(***************************************************************************)
LEMMA IneligibleEnded ==
    ASSUME Typed, Gone, NEW i \in Raised, ~Eligible(i, "firing")
    PROVE  ~Open(i)
<1>1. incident[i].pair \in Pairs
  BY IdsTyped DEF Typed, TypeOK, IncidentRecord
<1> QED
  BY <1>1 DEF Eligible, MonitoringAvailable, Open, Gone

(***************************************************************************)
(* What an incident is about never changes.                                *)
(***************************************************************************)
SamePairs ==
    \A j \in Raised : /\ incident'[j].pair = incident[j].pair
                      /\ incident'[j].legacy = incident[j].legacy

LEMMA NotifiedShape ==
    ASSUME Typed, NEW i \in Raised, NEW s, NEW j \in Raised
    PROVE  /\ WithNotified(i, s)[j].pair = incident[j].pair
           /\ WithNotified(i, s)[j].legacy = incident[j].legacy
           /\ WithNotified(i, s)[j].resolved = incident[j].resolved
           /\ WithNotified(i, s)[j].closed = incident[j].closed
           /\ WithNotified(i, s)[j].notified =
                  IF j = i THEN s ELSE incident[j].notified
<1> DEFINE new == [incident[i] EXCEPT !.notified = s]
<1>1. incident \in [IncidentIds -> IncidentRecord]
  BY DEF Typed, TypeOK
<1>2. i \in IncidentIds /\ j \in IncidentIds
  BY IdsTyped
<1>3. incident[i] \in IncidentRecord
  BY <1>1, <1>2
<1>4. /\ new.pair = incident[i].pair
      /\ new.legacy = incident[i].legacy
      /\ new.resolved = incident[i].resolved
      /\ new.closed = incident[i].closed
      /\ new.notified = s
  BY <1>3 DEF IncidentRecord
<1>5. WithNotified(i, s) = [incident EXCEPT ![i] = new]
  BY DEF WithNotified
<1> HIDE DEF new
<1>6. WithNotified(i, s)[j] = IF j = i THEN new ELSE incident[j]
  BY <1>1, <1>2, <1>5
<1> QED
  BY <1>4, <1>6

LEMMA NotifiedPairs ==
    ASSUME Typed, NEW i \in Raised, NEW s, incident' = WithNotified(i, s)
    PROVE  SamePairs
  BY NotifiedShape DEF SamePairs

LEMMA QueuePairs ==
    ASSUME Typed, NEW i \in Raised, NEW ph, NEW p, TryQueue(i, ph, p)
    PROVE  SamePairs
<1>1. incident' = incident \/ incident' = WithNotified(i, "pending")
  BY DEF TryQueue, Queue, storeVars
<1>2. CASE incident' = incident
  BY <1>2 DEF SamePairs
<1> QED
  BY <1>1, <1>2, NotifiedPairs

LEMMA TickPairs == ASSUME Typed, Tick PROVE SamePairs
<1>1. ASSUME NEW t \in entries, Trigger(t) PROVE SamePairs
  <2>1. CASE incident' = incident
    BY <2>1 DEF SamePairs
  <2>2. CASE /\ nIncidents < MaxIncidents
             /\ incident' = [incident EXCEPT ![nIncidents + 1] =
                    [pair |-> t.pair, resolved |-> FALSE, closed |-> FALSE,
                     notified |-> "pending", legacy |-> FALSE]]
    <3>1. \A i \in Raised : i \in IncidentIds /\ i # nIncidents + 1
      BY <2>2, IdsTyped, IncidentsAssumption
      DEF Typed, TypeOK, Raised, IncidentIds
    <3> QED
      BY <2>2, <3>1 DEF SamePairs, Typed, TypeOK
  <2> QED
    BY <1>1, <2>1, <2>2 DEF Trigger
<1>2. CASE Announce
  BY <1>2, QueuePairs DEF Announce, Typed, Linked
<1>3. CASE Resolve
  BY <1>3, IdsTyped DEF Resolve, SamePairs, Typed, TypeOK, IncidentRecord
<1>4. CASE AnnounceRecovery
  BY <1>4, QueuePairs DEF AnnounceRecovery, Typed, Linked
<1>5. ASSUME NEW e \in work, Retry(e) PROVE SamePairs
  <2>1. attempt[e].incident \in Raised
    BY <1>5 DEF Retry, Typed, Linked
  <2>2. incident' = incident
        \/ incident' = WithNotified(attempt[e].incident, "skipped")
    BY <1>5 DEF Retry
  <2>3. CASE incident' = incident
    BY <2>3 DEF SamePairs
  <2> QED
    BY <2>1, <2>2, <2>3, NotifiedPairs
<1>6. CASE Requeue
  <2>1. attempt[subject].incident \in Raised
    BY <1>6 DEF Requeue, Typed, Linked
  <2> QED
    BY <1>6, <2>1, QueuePairs DEF Requeue
<1>7. ASSUME NEW i \in work, RetryLegacy(i) PROVE SamePairs
  <2>1. i \in Raised
    BY <1>7 DEF RetryLegacy, Typed, Linked
  <2>2. \/ incident' = incident
        \/ incident' = WithNotified(i, "skipped")
        \/ TryQueue(i, "firing", NoAttempt)
    BY <1>7 DEF RetryLegacy, storeVars
  <2>3. CASE incident' = incident
    BY <2>3 DEF SamePairs
  <2> QED
    BY <2>1, <2>2, <2>3, NotifiedPairs, QueuePairs
<1>8. CASE incident' = incident
  BY <1>8 DEF SamePairs
<1> QED
  BY <1>1, <1>2, <1>3, <1>4, <1>5, <1>6, <1>7, <1>8
  DEF Tick, BeginTick, FindActive, LeaveAsIs, ScanFailed, ScanLegacy, TickDone,
      storeVars

LEMMA NextPairs == ASSUME Typed, Next PROVE SamePairs
<1>1. CASE incident' = incident
  BY <1>1 DEF SamePairs
<1>2. ASSUME NEW e \in AttemptIds, Deliver(e) PROVE SamePairs
  <2>1. \/ incident' = incident
        \/ incident' = WithNotified(attempt[e].incident, Outcome(e))
    BY <1>2, DeliverShape
  <2>2. attempt[e].incident \in Raised
    BY <1>2, DeliverShape, AttemptsTyped
  <2> QED
    BY <1>1, <2>1, <2>2, NotifiedPairs
<1>3. CASE Users
  <2>1. ASSUME NEW e \in Attempts, RetryByHand(e) PROVE SamePairs
    <3>1. attempt[e].incident \in Raised
      BY AttemptsTyped
    <3> QED
      BY <2>1, <3>1, QueuePairs DEF RetryByHand, TryQueue
  <2>2. ASSUME NEW i \in Raised, RetryLegacyByHand(i) PROVE SamePairs
    BY <2>2, QueuePairs DEF RetryLegacyByHand, TryQueue
  <2>3. ASSUME NEW P, RemoveMonitoring(P) PROVE SamePairs
    BY <2>3, IdsTyped
    DEF RemoveMonitoring, SamePairs, Typed, TypeOK, IncidentRecord
  <2> QED
    BY <1>1, <1>3, <2>1, <2>2, <2>3
    DEF Users, AlertUpdate, AlertDelete, AgentDelete, TargetDelete, Heartbeat
<1>4. CASE CrashAndRestart
  BY <1>4, IdsTyped
  DEF CrashAndRestart, SamePairs, Typed, TypeOK, IncidentRecord
<1> QED
  BY <1>2, <1>3, <1>4, TickPairs DEF Next

(***************************************************************************)
(* Steps that delete nothing, raise nothing and add no row.                *)
(***************************************************************************)
LEMMA GoneKept ==
    ASSUME Safe, Gone, Next, nIncidents' = nIncidents,
           \A r \in Rules : rule'[r] = "deleted" => rule[r] = "deleted",
           \A a \in Agents : agent'[a] = "deleted" => agent[a] = "deleted",
           \A p \in Pairs :
               /\ row[p].status = "absent"
               /\ rule[p[1]] = "deleted" \/ agent[p[2]] = "deleted"
               => row'[p].status = "absent"
    PROVE  Gone'
<1>1. Raised' = Raised
  BY DEF Raised
<1>2. SamePairs /\ KeepsEnded
  BY NextPairs, NextKeepsEnded DEF Safe
<1> SUFFICES ASSUME NEW p \in Pairs,
                    rule'[p[1]] = "deleted" \/ agent'[p[2]] = "deleted"
             PROVE  /\ row'[p].status = "absent"
                    /\ \A i \in Raised : incident'[i].pair = p =>
                           incident'[i].resolved \/ incident'[i].closed
  BY <1>1 DEF Gone, Open
<1>3. rule[p[1]] = "deleted" \/ agent[p[2]] = "deleted"
  BY DEF Pairs
<1> QED
  BY <1>2, <1>3 DEF Gone, SamePairs, KeepsEnded, Open

LEMMA TriggerGone ==
    ASSUME Safe, Gone, Next, NEW t \in entries, Trigger(t) PROVE Gone'
<1>1. UNCHANGED <<rule, agent>> /\ t.pair \in Pairs
  BY DEF Trigger, Safe, Typed, TypeOK
<1>2. CASE UNCHANGED <<nIncidents, row>>
  BY <1>1, <1>2, GoneKept
<1>3. CASE /\ row[t.pair].status = "ok"
           /\ nIncidents' = nIncidents + 1
           /\ nIncidents < MaxIncidents
           /\ row' = [row EXCEPT ![t.pair] =
                  [status |-> "firing", fired |-> nIncidents + 1]]
           /\ incident' = [incident EXCEPT ![nIncidents + 1] =
                  [pair |-> t.pair, resolved |-> FALSE, closed |-> FALSE,
                   notified |-> "pending", legacy |-> FALSE]]
  <2> DEFINE n == nIncidents + 1
  <2>1. n \in IncidentIds /\ Raised' = Raised \cup {n}
    BY <1>3, IncidentsAssumption
    DEF Safe, Typed, TypeOK, IncidentIds, Raised
  <2>2. /\ incident'[n].pair = t.pair
        /\ \A p \in Pairs \ {t.pair} : row'[p] = row[p]
    BY <1>1, <1>3, <2>1 DEF Safe, Typed, TypeOK
  <2>3. SamePairs /\ KeepsEnded
    BY NextPairs, NextKeepsEnded DEF Safe
  <2> HIDE DEF n
  <2> SUFFICES ASSUME NEW p \in Pairs,
                      rule[p[1]] = "deleted" \/ agent[p[2]] = "deleted"
               PROVE  /\ row'[p].status = "absent"
                      /\ \A i \in Raised \cup {n} : incident'[i].pair = p =>
                             incident'[i].resolved \/ incident'[i].closed
    BY <1>1, <2>1 DEF Gone, Open
  <2>4. p # t.pair
    BY <1>3 DEF Gone
  <2> QED
    BY <2>2, <2>3, <2>4 DEF Gone, SamePairs, KeepsEnded, Open
<1> QED
  BY <1>2, <1>3 DEF Trigger

LEMMA RemoveGone ==
    ASSUME Safe, Gone, Next, NEW P \in SUBSET Pairs, RemoveMonitoring(P),
           \A p \in Pairs \ P :
               /\ rule'[p[1]] = rule[p[1]] /\ agent'[p[2]] = agent[p[2]]
    PROVE  Gone'
<1>1. Raised' = Raised /\ Raised \subseteq IncidentIds
  BY IdsTyped DEF Raised, RemoveMonitoring, Safe
<1>2. SamePairs /\ KeepsEnded
  BY NextPairs, NextKeepsEnded DEF Safe
<1>3. \A i \in Raised : incident[i].pair \in P =>
          incident'[i].resolved \/ incident'[i].closed
  <2> SUFFICES ASSUME NEW i \in Raised, incident[i].pair \in P
               PROVE  incident'[i].resolved \/ incident'[i].closed
    OBVIOUS
  <2>1. CASE Open(i)
    <3>1. incident'[i] = [incident[i] EXCEPT !.closed = TRUE]
      BY <1>1, <2>1 DEF RemoveMonitoring, OpenOn
    <3>2. incident[i] \in IncidentRecord
      BY <1>1 DEF Safe, Typed, TypeOK
    <3> QED
      BY <3>1, <3>2 DEF IncidentRecord
  <2>2. CASE ~Open(i)
    BY <1>2, <2>2 DEF KeepsEnded, Open
  <2> QED
    BY <2>1, <2>2
<1>4. \A p \in Pairs : row'[p] = IF p \in P THEN NoRow ELSE row[p]
  BY DEF RemoveMonitoring
<1> SUFFICES ASSUME NEW p \in Pairs,
                    rule'[p[1]] = "deleted" \/ agent'[p[2]] = "deleted"
             PROVE  /\ row'[p].status = "absent"
                    /\ \A i \in Raised : incident'[i].pair = p =>
                           incident'[i].resolved \/ incident'[i].closed
  BY <1>1 DEF Gone, Open
<1>5. CASE p \in P
  BY <1>2, <1>3, <1>4, <1>5 DEF NoRow, SamePairs
<1>6. CASE p \notin P
  BY <1>2, <1>4, <1>6 DEF Gone, SamePairs, KeepsEnded, Open
<1> QED
  BY <1>5, <1>6

LEMMA UsersGone == ASSUME Safe, Gone, Next, Users PROVE Gone'
<1>1. ASSUME NEW r \in Rules, NEW switch \in {"enabled", "disabled"},
             NEW A \in SUBSET Agents, AlertUpdate(r, switch, A)
      PROVE  Gone'
  <2>1. /\ \A p \in Pairs :
              /\ row[p].status = "absent"
              /\ rule[p[1]] = "deleted" \/ agent[p[2]] = "deleted"
              => row'[p].status = "absent"
        /\ UNCHANGED <<agent, nIncidents>>
    BY <1>1 DEF AlertUpdate, NoRow, Pairs
  <2>2. \A q \in Rules : rule'[q] = "deleted" => rule[q] = "deleted"
    BY <1>1 DEF AlertUpdate, Safe, Typed, TypeOK
  <2> QED
    BY <2>1, <2>2, GoneKept
<1>2. ASSUME NEW r \in Rules, AlertDelete(r) PROVE Gone'
  <2>1. {r} \X Agents \in SUBSET Pairs
    BY DEF Pairs
  <2>2. \A p \in Pairs \ ({r} \X Agents) :
            rule'[p[1]] = rule[p[1]] /\ agent'[p[2]] = agent[p[2]]
    BY <1>2 DEF AlertDelete, Pairs, Safe, Typed, TypeOK
  <2> QED
    BY <1>2, <2>1, <2>2, RemoveGone DEF AlertDelete
<1>3. ASSUME NEW a \in Agents, AgentDelete(a) PROVE Gone'
  <2>1. Rules \X {a} \in SUBSET Pairs
    BY DEF Pairs
  <2>2. \A p \in Pairs \ (Rules \X {a}) :
            rule'[p[1]] = rule[p[1]] /\ agent'[p[2]] = agent[p[2]]
    BY <1>3 DEF AgentDelete, Pairs, Safe, Typed, TypeOK
  <2> QED
    BY <1>3, <2>1, <2>2, RemoveGone DEF AgentDelete
<1>4. ASSUME NEW a \in Agents, Heartbeat(a) PROVE Gone'
  <2>1. UNCHANGED <<rule, row, nIncidents>>
    BY <1>4 DEF Heartbeat
  <2>2. \A b \in Agents : agent'[b] = "deleted" => agent[b] = "deleted"
    BY <1>4 DEF Heartbeat, Safe, Typed, TypeOK
  <2> QED
    BY <2>1, <2>2, GoneKept
<1>5. CASE UNCHANGED <<rule, agent, row, nIncidents>>
  BY <1>5, GoneKept
<1> QED
  BY <1>1, <1>2, <1>3, <1>4, <1>5
  DEF Users, RetryByHand, RetryLegacyByHand, Queue, TargetDelete

LEMMA NextGone == ASSUME Safe, Gone, [Next]_vars PROVE Gone'
<1>1. CASE UNCHANGED vars
  BY <1>1 DEF vars, Gone, Raised, Open
<1>2. ASSUME NEW S \in SUBSET Agents, BeginTick(S), Next PROVE Gone'
  <2>1. \A a \in Agents : agent'[a] = "deleted" => agent[a] = "deleted"
    BY <1>2 DEF BeginTick
  <2> QED
    BY <1>2, <2>1, GoneKept DEF BeginTick
<1>3. ASSUME Resolve, Next PROVE Gone'
  <2>1. incident[subject].pair \in Pairs
    BY <1>3, IdsTyped DEF Resolve, Safe, Typed, TypeOK, Linked, IncidentRecord
  <2>2. \A p \in Pairs : row[p].status = "absent" => row'[p].status = "absent"
    BY <1>3, <2>1 DEF Resolve, Safe, Typed, TypeOK
  <2> QED
    BY <1>3, <2>2, GoneKept DEF Resolve
<1>4. ASSUME NEW e \in AttemptIds, Complete(e), Next PROVE Gone'
  <2>1. incident[attempt[e].incident].pair \in Pairs
    BY <1>4, WorkersTyped DEF Complete, Safe
  <2>2. \A p \in Pairs : row[p].status = "absent" => row'[p].status = "absent"
    BY <1>4, <2>1 DEF Complete, StillAlarmed, Safe, Typed, TypeOK
  <2> QED
    BY <1>4, <2>2, GoneKept DEF Complete
<1>5. ASSUME UNCHANGED <<rule, agent, row, nIncidents>>, Next PROVE Gone'
  BY <1>5, GoneKept
<1>6. ASSUME NEW t \in entries, Trigger(t), Next PROVE Gone'
  BY <1>6, TriggerGone
<1>7. ASSUME Tick, Next PROVE Gone'
  BY <1>2, <1>3, <1>5, <1>6, <1>7
  DEF Tick, Announce, FindActive, AnnounceRecovery, LeaveAsIs, ScanFailed,
      Retry, Requeue, ScanLegacy, RetryLegacy, TickDone, TryQueue, Queue, storeVars
<1>8. ASSUME NEW e \in AttemptIds, Deliver(e), Next PROVE Gone'
  BY <1>4, <1>5, <1>8
  DEF Deliver, Start, ClaimFails, OutcomeLost, FindDestination, CheckAgain,
      Post, storeVars
<1>9. ASSUME CrashAndRestart, Next PROVE Gone'
  BY <1>5, <1>9 DEF CrashAndRestart
<1> QED
  BY <1>1, <1>7, <1>8, <1>9, UsersGone DEF Next

-----------------------------------------------------------------------------
(* The incident's own record of its notification. *)

FiringOf(e, i) == attempt[e].incident = i /\ attempt[e].phase = "firing"

LatestOf(e, i) ==
    FiringOf(e, i) /\ \A f \in Attempts : f > e => ~FiringOf(f, i)

Reported(i) ==
    incident[i].notified \in {"success", "failed"} =>
        \/ \E e \in Attempts :
               LatestOf(e, i) /\ attempt[e].status = incident[i].notified
        \/ incident[i].legacy /\ \A e \in Attempts : ~FiringOf(e, i)

Awaited(i) ==
    incident[i].notified = "pending" =>
        \/ \E e \in Attempts :
               LatestOf(e, i) /\ attempt[e].status \in Outstanding
        \/ \A e \in Attempts : ~FiringOf(e, i)
        \/ incident[i].resolved \/ incident[i].closed

Agree == \A i \in Raised : Reported(i) /\ Awaited(i)

(***************************************************************************)
(* A step that moves outcomes but writes nothing to the incident.          *)
(***************************************************************************)
LEMMA AgreeKept ==
    ASSUME Typed, Moved, SamePairs, KeepsEnded, NEW i \in Raised,
           Reported(i), Awaited(i),
           incident'[i].notified = incident[i].notified,
           \A e \in Attempts :
               /\ FiringOf(e, i)
               /\ attempt[e].status \in Outstanding
               => \/ attempt'[e].status \in Outstanding
                  \/ incident'[i].resolved \/ incident'[i].closed
    PROVE  Reported(i)' /\ Awaited(i)'
<1>1. Attempts' = Attempts /\ Attempts \subseteq AttemptIds
  BY IdsTyped DEF Moved, Attempts
<1>2. \A e \in Attempts :
          /\ (attempt'[e].incident = i /\ attempt'[e].phase = "firing")
                <=> FiringOf(e, i)
          /\ attempt[e].status \in {"success", "failed"}
                => attempt'[e].status = attempt[e].status
  BY <1>1 DEF Moved, FiringOf, Outstanding
<1>3. incident[i].resolved \/ incident[i].closed
          => incident'[i].resolved \/ incident'[i].closed
  BY DEF KeepsEnded, Open
<1>4. Reported(i)'
  BY <1>1, <1>2 DEF Reported, LatestOf, FiringOf, SamePairs
<1>5. Awaited(i)'
  BY <1>1, <1>2, <1>3 DEF Awaited, LatestOf, FiringOf
<1> QED
  BY <1>4, <1>5

LEMMA QueueAgree ==
    ASSUME Typed, SamePairs, KeepsEnded, NEW i \in Raised, NEW ph \in Phases,
           NEW p \in 0..MaxAttempts, Queue(i, ph, p), NEW j \in Raised,
           Reported(j), Awaited(j)
    PROVE  Reported(j)' /\ Awaited(j)'
<1>1. attempt'[NewId] = [incident |-> i, phase |-> ph,
                         status |-> "queued", retryOf |-> p]
  BY QueueShape
<1>2. /\ attempt'[NewId].incident = i /\ attempt'[NewId].phase = ph
      /\ attempt'[NewId].status = "queued"
  BY <1>1
<1>3. /\ Attempts' = Attempts \cup {NewId}
      /\ \A e \in Attempts : attempt'[e] = attempt[e]
      /\ \A e \in Attempts : ~(e > NewId)
      /\ ~(NewId > NewId)
  <2>1. /\ Attempts' = Attempts \cup {NewId}
        /\ \A e \in AttemptIds \ {NewId} : attempt'[e] = attempt[e]
        /\ \A e \in Attempts : e < NewId
        /\ NewId \in Nat /\ NewId \notin Attempts
    BY QueueShape
  <2>2. \A e \in Attempts : e \in AttemptIds /\ e \in Nat
    BY AttemptsTyped
  <2> HIDE DEF NewId
  <2> QED
    BY <2>1, <2>2
<1> HIDE DEF NewId
<1>4. CASE i = j /\ ph = "firing"
  <2>1. incident' = WithNotified(i, "pending")
    BY <1>4 DEF Queue
  <2>2. incident'[j].notified = "pending"
    BY <1>4, <2>1, NotifiedShape
  <2>3. /\ attempt'[NewId].incident = j /\ attempt'[NewId].phase = "firing"
        /\ \A f \in Attempts' : ~(f > NewId)
    BY <1>2, <1>3, <1>4
  <2>4. attempt'[NewId].status \in Outstanding /\ NewId \in Attempts'
    BY <1>2, <1>3 DEF Outstanding
  <2>5. Reported(j)'
    BY <2>2 DEF Reported
  <2>6. Awaited(j)'
    BY <2>3, <2>4 DEF Awaited, LatestOf, FiringOf
  <2> QED
    BY <2>5, <2>6
<1>5. CASE ~(i = j /\ ph = "firing")
  <2>1. \/ incident' = incident
        \/ i # j /\ incident' = WithNotified(i, "pending")
    BY <1>5 DEF Queue
  <2>2. incident'[j].notified = incident[j].notified
    BY <2>1, NotifiedShape
  <2>3. /\ ~(attempt'[NewId].incident = j /\ attempt'[NewId].phase = "firing")
        /\ \A e \in Attempts :
               (attempt'[e].incident = j /\ attempt'[e].phase = "firing")
                  <=> FiringOf(e, j)
    BY <1>2, <1>3, <1>5 DEF FiringOf
  <2>4. Reported(j)'
    BY <1>3, <2>2, <2>3 DEF Reported, LatestOf, FiringOf, SamePairs
  <2>5. incident[j].resolved \/ incident[j].closed
            => incident'[j].resolved \/ incident'[j].closed
    BY DEF KeepsEnded, Open
  <2>6. Awaited(j)'
    BY <1>3, <2>2, <2>3, <2>5 DEF Awaited, LatestOf, FiringOf
  <2> QED
    BY <2>4, <2>6
<1> QED
  BY <1>4, <1>5

(***************************************************************************)
(* Steps that leave attempts and incidents alone.                          *)
(***************************************************************************)
LEMMA QuietAgree ==
    ASSUME Safe, Agree, Next, UNCHANGED <<incident, nIncidents>>, Idle
    PROVE  Agree'
<1>1. Raised' = Raised /\ Moved
  BY IdleMoved DEF Raised
<1>2. SamePairs /\ KeepsEnded
  BY NextPairs, NextKeepsEnded DEF Safe
<1>3. attempt' = attempt
  BY DEF Idle
<1> SUFFICES ASSUME NEW i \in Raised PROVE Reported(i)' /\ Awaited(i)'
  BY <1>1 DEF Agree
<1>4. Reported(i) /\ Awaited(i)
  BY DEF Agree
<1> QED
  BY <1>1, <1>2, <1>3, <1>4, AgreeKept DEF Safe

LEMMA QueuesAgree ==
    ASSUME Safe, Agree, Next, NEW i \in Raised, NEW ph \in Phases,
           NEW p \in 0..MaxAttempts, Queue(i, ph, p)
    PROVE  Agree'
<1>1. Raised' = Raised
  BY DEF Queue, Raised
<1>2. SamePairs /\ KeepsEnded
  BY NextPairs, NextKeepsEnded DEF Safe
<1> SUFFICES ASSUME NEW j \in Raised PROVE Reported(j)' /\ Awaited(j)'
  BY <1>1 DEF Agree
<1>3. Reported(j) /\ Awaited(j)
  BY DEF Agree
<1> QED
  BY <1>2, <1>3, QueueAgree DEF Safe

(***************************************************************************)
(* The routine records that a retry came too late.                         *)
(***************************************************************************)
LEMMA SkippedAgree ==
    ASSUME Safe, Agree, Next, NEW i \in Raised, Idle,
           incident' = WithNotified(i, "skipped"),
           nIncidents' = nIncidents
    PROVE  Agree'
<1>1. Raised' = Raised /\ Moved
  BY IdleMoved DEF Raised
<1>2. SamePairs /\ KeepsEnded
  BY NextPairs, NextKeepsEnded DEF Safe
<1> SUFFICES ASSUME NEW j \in Raised PROVE Reported(j)' /\ Awaited(j)'
  BY <1>1 DEF Agree
<1>3. Reported(j) /\ Awaited(j) /\ Typed
  BY DEF Agree, Safe
<1>4. CASE j = i
  <2>1. incident'[j].notified = "skipped"
    BY <1>3, <1>4, NotifiedShape
  <2> QED
    BY <2>1 DEF Reported, Awaited
<1>5. CASE j # i
  <2>1. incident'[j].notified = incident[j].notified
    BY <1>3, <1>5, NotifiedShape
  <2> QED
    BY <1>1, <1>2, <1>3, <2>1, AgreeKept DEF Idle
<1> QED
  BY <1>4, <1>5

(***************************************************************************)
(* Incidents end, and the attempts that are withdrawn belong to ones that  *)
(* have ended.                                                             *)
(***************************************************************************)
LEMMA WithdrawsAgree ==
    ASSUME Safe, Agree, Next, NEW S, Withdraws(S), nIncidents' = nIncidents,
           \A i \in Raised : incident'[i].notified = incident[i].notified,
           \A e \in S : \/ attempt[e].phase # "firing"
                        \/ incident'[attempt[e].incident].resolved
                        \/ incident'[attempt[e].incident].closed
    PROVE  Agree'
<1>1. Raised' = Raised
  BY DEF Raised
<1>2. SamePairs /\ KeepsEnded
  BY NextPairs, NextKeepsEnded DEF Safe
<1>3. Moved /\ Typed
  BY WithdrawsMoved DEF Safe
<1> SUFFICES ASSUME NEW i \in Raised PROVE Reported(i)' /\ Awaited(i)'
  BY <1>1 DEF Agree
<1>4. Reported(i) /\ Awaited(i)
  BY DEF Agree
<1>5. ASSUME NEW e \in Attempts, FiringOf(e, i),
             attempt[e].status \in Outstanding
      PROVE  \/ attempt'[e].status \in Outstanding
             \/ incident'[i].resolved \/ incident'[i].closed
  <2>1. e \in AttemptIds
    BY <1>3, AttemptsTyped
  <2>2. CASE e \in S
    BY <1>5, <2>2 DEF FiringOf
  <2>3. CASE e \notin S
    <3>1. attempt'[e].status = attempt[e].status
      BY <1>3, <2>1, <2>3, WithdrawsShape
    <3> QED
      BY <1>5, <3>1
  <2> QED
    BY <2>2, <2>3
<1> QED
  BY <1>1, <1>2, <1>3, <1>4, <1>5, AgreeKept

LEMMA TriggerAgree ==
    ASSUME Safe, Agree, Next, NEW t \in entries, Trigger(t) PROVE Agree'
<1>1. Idle
  BY DEF Trigger, Idle
<1>2. CASE UNCHANGED <<incident, nIncidents>>
  BY <1>1, <1>2, QuietAgree
<1>3. CASE /\ nIncidents < MaxIncidents
           /\ nIncidents' = nIncidents + 1
           /\ incident' = [incident EXCEPT ![nIncidents + 1] =
                  [pair |-> t.pair, resolved |-> FALSE, closed |-> FALSE,
                   notified |-> "pending", legacy |-> FALSE]]
  <2>0. PICK n \in IncidentIds : n = nIncidents + 1
    BY <1>3, IncidentsAssumption DEF Safe, Typed, TypeOK, IncidentIds
  <2>1. /\ n \notin Raised /\ Raised' = Raised \cup {n}
        /\ Raised \subseteq IncidentIds
    BY <1>3, <2>0, IncidentsAssumption
    DEF Safe, Typed, TypeOK, IncidentIds, Raised
  <2>2. /\ incident'[n].notified = "pending"
        /\ \A i \in Raised : incident'[i].notified = incident[i].notified
    BY <1>3, <2>0, <2>1 DEF Safe, Typed, TypeOK
  <2>3. SamePairs /\ KeepsEnded /\ Typed /\ Moved
    BY <1>1, NextPairs, NextKeepsEnded, IdleMoved DEF Safe
  <2>4. attempt' = attempt /\ Attempts' = Attempts
    BY <1>1 DEF Idle, Attempts
  <2>5. ASSUME NEW i \in Raised PROVE Reported(i)' /\ Awaited(i)'
    <3>1. Reported(i) /\ Awaited(i)
      BY DEF Agree
    <3> QED
      BY <1>1, <2>2, <2>3, <2>4, <3>1, AgreeKept
  <2>6. Reported(n)' /\ Awaited(n)'
    <3>1. \A e \in Attempts : attempt[e].incident # n
      BY <2>1, AttemptsTyped DEF Safe
    <3> QED
      BY <2>2, <2>4, <3>1 DEF Reported, Awaited, FiringOf
  <2> QED
    BY <2>1, <2>5, <2>6 DEF Agree
<1> QED
  BY <1>2, <1>3 DEF Trigger

LEMMA TickAgree == ASSUME Safe, Agree, Next, Tick PROVE Agree'
<1> USE DEF Safe
<1>1. NoAttempt \in 0..MaxAttempts
  BY IncidentsAssumption DEF NoAttempt
<1>2. ASSUME NEW i \in Raised, NEW ph \in Phases, NEW p \in 0..MaxAttempts,
             TryQueue(i, ph, p)
      PROVE  Agree'
  BY <1>2, QueuesAgree, QuietAgree DEF TryQueue, storeVars, Idle
<1>3. CASE Resolve
  <2> DEFINE ended == OpenOn({incident[subject].pair})
             S == {e \in QueuedOf(ended) : attempt[e].phase = "firing"}
  <2>1. /\ S \in SUBSET Attempts
        /\ \A e \in S : attempt[e].status = "queued"
        /\ \A e \in S : attempt[e].incident \in ended
        /\ ended \subseteq Raised
    BY DEF QueuedOf, OpenOn
  <2>2. /\ SetStatus(S, "skipped") /\ UNCHANGED <<nAttempts, worker>>
        /\ nIncidents' = nIncidents
        /\ incident' = [i \in IncidentIds |->
               IF i \in ended THEN [incident[i] EXCEPT !.resolved = TRUE]
                              ELSE incident[i]]
    BY <1>3 DEF Resolve
  <2> HIDE DEF S, ended
  <2>3. /\ \A i \in Raised : incident'[i].notified = incident[i].notified
        /\ \A i \in ended : incident'[i].resolved
    BY <2>1, <2>2, IdsTyped DEF Typed, TypeOK, IncidentRecord
  <2>4. Withdraws(S)
    BY <2>1, <2>2 DEF Withdraws
  <2> QED
    BY <2>1, <2>2, <2>3, <2>4, WithdrawsAgree
<1>4. CASE Announce \/ AnnounceRecovery
  BY <1>1, <1>2, <1>4 DEF Announce, AnnounceRecovery, Typed, Linked, Phases
<1>5. CASE Requeue
  <2>1. subject \in Attempts
    BY <1>5 DEF Requeue, Typed, Linked
  <2> QED
    BY <1>2, <1>5, <2>1, AttemptsTyped DEF Requeue
<1>6. ASSUME NEW i \in work, RetryLegacy(i) PROVE Agree'
  <2>1. i \in Raised
    BY <1>6 DEF RetryLegacy, Typed, Linked
  <2>2. CASE UNCHANGED <<storeVars, worker, crashes>>
    BY <2>1, <2>2, QuietAgree DEF storeVars, Idle
  <2> QED
    BY <1>1, <1>2, <1>6, <2>1, <2>2, SkippedAgree DEF RetryLegacy, Phases, Idle
<1>7. ASSUME NEW e \in work, Retry(e) PROVE Agree'
  <2>1. attempt[e].incident \in Raised
    BY <1>7 DEF Retry, Typed, Linked
  <2>2. /\ Idle /\ nIncidents' = nIncidents
        /\ \/ incident' = incident
           \/ incident' = WithNotified(attempt[e].incident, "skipped")
    BY <1>7 DEF Retry, Idle
  <2> QED
    BY <2>1, <2>2, SkippedAgree, QuietAgree
<1>8. CASE UNCHANGED <<incident, nIncidents>> /\ Idle
  BY <1>8, QuietAgree
<1> QED
  BY <1>3, <1>4, <1>5, <1>6, <1>7, <1>8, TriggerAgree
  DEF Tick, BeginTick, FindActive, LeaveAsIs, ScanFailed, ScanLegacy, TickDone,
      storeVars, Idle

(***************************************************************************)
(* A delivery settles the latest attempt of its phase, because only that   *)
(* one can be pending; one that finds its incident over skips it.          *)
(***************************************************************************)
LEMMA DeliverAgree ==
    ASSUME Safe, ClaimHeld, LatestOnly, Gone, Agree, Next,
           NEW e \in AttemptIds, Deliver(e)
    PROVE  Agree'
<1> DEFINE k == attempt[e].incident
<1>1. /\ Typed /\ Moved /\ SamePairs /\ KeepsEnded
      /\ Raised' = Raised
      /\ e \in Attempts /\ k \in Raised /\ attempt[e].phase \in Phases
  <2>1. nIncidents' = nIncidents
    BY DEF Deliver, Start, ClaimFails, OutcomeLost, FindDestination, CheckAgain,
           Post, Complete, storeVars
  <2>2. Typed /\ e \in Attempts
    BY DeliverShape DEF Safe
  <2> QED
    BY <2>1, <2>2, DeliverMoved, NextPairs, NextKeepsEnded, AttemptsTyped
    DEF Raised, Safe
<1>2. \A f \in AttemptIds : f # e => attempt'[f].status = attempt[f].status
  BY <1>1, DeliverShape
<1> SUFFICES ASSUME NEW i \in Raised PROVE Reported(i)' /\ Awaited(i)'
  BY <1>1 DEF Agree
<1>3. Reported(i) /\ Awaited(i)
  BY DEF Agree
<1>4. ASSUME incident'[i].notified = incident[i].notified,
             \/ attempt'[e].status = attempt[e].status
             \/ attempt'[e].status \in Outstanding
             \/ ~FiringOf(e, i)
             \/ incident'[i].resolved \/ incident'[i].closed
      PROVE  Reported(i)' /\ Awaited(i)'
  <2>1. \A f \in Attempts :
            /\ FiringOf(f, i)
            /\ attempt[f].status \in Outstanding
            => \/ attempt'[f].status \in Outstanding
               \/ incident'[i].resolved \/ incident'[i].closed
    BY <1>1, <1>2, <1>4, IdsTyped
  <2> QED
    BY <1>1, <1>3, <1>4, <2>1, AgreeKept
<1>5. \/ /\ incident' = incident
         /\ \/ attempt'[e].status = attempt[e].status
            \/ attempt'[e].status = "pending"
            \/ ~Eligible(k, attempt[e].phase)
      \/ /\ worker[e] \notin {"none", "waiting", "dropped"}
         /\ attempt'[e].status = IF attempt[e].status = "pending"
                                 THEN Outcome(e) ELSE attempt[e].status
         /\ Outcome(e) \in {"success", "failed", "skipped"}
         /\ incident' = IF /\ attempt[e].status = "pending"
                           /\ attempt[e].phase = "firing"
                        THEN WithNotified(k, Outcome(e)) ELSE incident
  BY <1>1, DeliverShape
<1> HIDE DEF k
<1>6. CASE /\ incident' = incident
           /\ \/ attempt'[e].status = attempt[e].status
              \/ attempt'[e].status = "pending"
  BY <1>4, <1>6 DEF Outstanding
<1>7. CASE incident' = incident /\ ~Eligible(k, attempt[e].phase)
  <2>1. attempt[e].phase = "firing" => ~Open(k)
    BY <1>1, <1>7, IneligibleEnded
  <2> QED
    BY <1>4, <1>7, <2>1 DEF FiringOf, Open, k
<1>8. CASE /\ worker[e] \notin {"none", "waiting", "dropped"}
           /\ attempt'[e].status = IF attempt[e].status = "pending"
                                   THEN Outcome(e) ELSE attempt[e].status
           /\ Outcome(e) \in {"success", "failed", "skipped"}
           /\ incident' = IF /\ attempt[e].status = "pending"
                             /\ attempt[e].phase = "firing"
                          THEN WithNotified(k, Outcome(e)) ELSE incident
  <2>1. attempt[e].status = "pending"
    BY <1>8 DEF ClaimHeld
  <2>2. CASE attempt[e].phase # "firing"
    BY <1>4, <1>8, <2>2 DEF FiringOf
  <2>3. CASE attempt[e].phase = "firing" /\ i # k
    <3>1. incident'[i].notified = incident[i].notified
      BY <1>1, <1>8, <2>1, <2>3, NotifiedShape
    <3> QED
      BY <1>4, <2>3, <3>1 DEF FiringOf, k
  <2>4. CASE attempt[e].phase = "firing" /\ i = k
    <3>1. incident'[i].notified = Outcome(e) /\ attempt'[e].status = Outcome(e)
      BY <1>1, <1>8, <2>1, <2>4, NotifiedShape
    <3>2. \A f \in Attempts : f > e => ~FiringOf(f, i)
      BY <1>1, <2>1, <2>4 DEF LatestOnly, FiringOf, Retryable, k
    <3>3. Attempts' = Attempts /\ Attempts \subseteq AttemptIds
      BY <1>1, IdsTyped DEF Moved, Attempts
    <3>4. /\ attempt'[e].incident = i /\ attempt'[e].phase = "firing"
          /\ \A f \in Attempts : f > e =>
                 ~(attempt'[f].incident = i /\ attempt'[f].phase = "firing")
      BY <1>1, <2>4, <3>2, <3>3 DEF Moved, FiringOf, k
    <3>5. Reported(i)'
      BY <1>1, <3>1, <3>3, <3>4 DEF Reported, LatestOf, FiringOf
    <3>6. Awaited(i)'
      BY <1>8, <3>1 DEF Awaited
    <3> QED
      BY <3>5, <3>6
  <2> QED
    BY <2>2, <2>3, <2>4
<1> QED
  BY <1>5, <1>6, <1>7, <1>8

LEMMA UsersAgree == ASSUME Safe, Agree, Next, Users PROVE Agree'
<1> USE DEF Safe
<1>1. ASSUME NEW e \in Attempts, RetryByHand(e) PROVE Agree'
  BY <1>1, QueuesAgree, AttemptsTyped DEF RetryByHand
<1>2. ASSUME NEW i \in Raised, RetryLegacyByHand(i) PROVE Agree'
  BY <1>2, QueuesAgree, IncidentsAssumption
  DEF RetryLegacyByHand, Phases, NoAttempt
<1>3. ASSUME NEW P, RemoveMonitoring(P) PROVE Agree'
  <2> DEFINE Is == {i \in Raised : incident[i].pair \in P}
             S == QueuedOf(Is)
  <2>1. /\ S \in SUBSET Attempts
        /\ \A e \in S : attempt[e].status = "queued"
        /\ \A e \in S : attempt[e].incident \in Is
    BY DEF QueuedOf
  <2>2. /\ SetStatus(S, "skipped") /\ UNCHANGED <<nAttempts, worker>>
        /\ nIncidents' = nIncidents /\ UNCHANGED routineVars
        /\ incident' = [i \in IncidentIds |->
               IF i \in OpenOn(P) THEN [incident[i] EXCEPT !.closed = TRUE]
                                  ELSE incident[i]]
    BY <1>3 DEF RemoveMonitoring
  <2>3. \A i \in Is : i \in OpenOn(P)
                      \/ incident[i].resolved \/ incident[i].closed
    BY DEF OpenOn, Open
  <2>4. Is \subseteq Raised
    OBVIOUS
  <2> HIDE DEF S, Is
  <2>5. /\ \A i \in Raised : incident'[i].notified = incident[i].notified
        /\ \A i \in Is : incident'[i].resolved \/ incident'[i].closed
    BY <2>2, <2>3, <2>4, IdsTyped DEF Typed, TypeOK, IncidentRecord
  <2>6. Withdraws(S)
    BY <2>1, <2>2 DEF Withdraws
  <2> QED
    BY <2>1, <2>2, <2>5, <2>6, WithdrawsAgree
<1>4. CASE UNCHANGED <<incident, nIncidents>> /\ Idle
  BY <1>4, QuietAgree
<1> QED
  BY <1>1, <1>2, <1>3, <1>4
  DEF Users, AlertUpdate, AlertDelete, AgentDelete, TargetDelete, Heartbeat,
      Idle, routineVars

LEMMA CrashAgree == ASSUME Safe, Agree, Next, CrashAndRestart PROVE Agree'
<1>1. /\ Typed /\ Moved /\ SamePairs
      /\ Raised' = Raised /\ Raised \subseteq IncidentIds
  BY CrashMoved, NextPairs, IdsTyped DEF CrashAndRestart, Raised, Safe
<1>2. Attempts' = Attempts /\ Attempts \subseteq AttemptIds
  BY <1>1, IdsTyped DEF Moved, Attempts
<1> SUFFICES ASSUME NEW i \in Raised PROVE Reported(i)' /\ Awaited(i)'
  BY <1>1 DEF Agree
<1>3. Reported(i)
  BY DEF Agree
<1>4. incident'[i].notified = IF incident[i].notified = "pending"
                              THEN "unknown" ELSE incident[i].notified
  BY <1>1 DEF CrashAndRestart, Typed, TypeOK, IncidentRecord
<1>5. \A e \in Attempts :
          /\ (attempt'[e].incident = i /\ attempt'[e].phase = "firing")
                <=> FiringOf(e, i)
          /\ attempt[e].status \in {"success", "failed"}
                => attempt'[e].status = attempt[e].status
  BY <1>1, <1>2 DEF Moved, FiringOf, Outstanding
<1>6. Reported(i)'
  BY <1>1, <1>2, <1>3, <1>4, <1>5 DEF Reported, LatestOf, FiringOf, SamePairs
<1>7. Awaited(i)'
  BY <1>4 DEF Awaited
<1> QED
  BY <1>6, <1>7

-----------------------------------------------------------------------------

NoticesInv ==
    Safe /\ ClaimHeld /\ LatestOnly /\ Gone /\ Agree

LEMMA InitNotices == Init => NoticesInv
<1> SUFFICES ASSUME Init PROVE NoticesInv
  OBVIOUS
<1>1. Safe
  BY InitTyped, InitSafe DEF Safe
<1>2. Attempts = {}
  BY DEF Init, InitStore, Attempts
<1>3. ClaimHeld /\ LatestOnly
  BY <1>2 DEF Init, InitStore, ClaimHeld, Ledger!Absent, LatestOnly
<1>4. Gone
  BY DEF Init, InitStore, Gone, Pairs
<1>5. Agree
  <2>1. CASE InitFresh
    BY <2>1 DEF InitFresh, Agree, Raised
  <2>2. CASE InitMigrated
    <3>1. Raised = {1} /\ 1 \in IncidentIds
      BY <2>2, IncidentsAssumption DEF InitMigrated, Raised, IncidentIds
    <3>2. incident[1].legacy /\ incident[1].notified # "pending"
      BY <2>2, <3>1 DEF InitMigrated
    <3> QED
      BY <1>2, <3>1, <3>2 DEF Agree, Reported, Awaited
  <2> QED
    BY <2>1, <2>2 DEF Init
<1> QED
  BY <1>1, <1>3, <1>4, <1>5 DEF NoticesInv

LEMMA NextNotices == NoticesInv /\ [Next]_vars => NoticesInv'
<1> SUFFICES ASSUME NoticesInv, [Next]_vars PROVE NoticesInv'
  OBVIOUS
<1>1. /\ Safe /\ Typed /\ ClaimHeld /\ LatestOnly /\ Gone
      /\ Agree
  BY DEF NoticesInv, Safe
<1>2. Safe' /\ ClaimHeld' /\ LatestOnly' /\ Gone'
  BY <1>1, NextSafe, NextHeld, NextLatest, NextGone
<1>3. Agree'
  <2>1. CASE UNCHANGED vars
    BY <1>1, <2>1
    DEF vars, Agree, Raised, Attempts, Reported, Awaited, LatestOf, FiringOf
  <2>2. CASE Next
    BY <1>1, <2>2, TickAgree, DeliverAgree, UsersAgree, CrashAgree DEF Next
  <2> QED
    BY <2>1, <2>2
<1> QED
  BY <1>2, <1>3 DEF NoticesInv

(***************************************************************************)
(* What the incident list shows, and the routine retries from, is what     *)
(* became of the latest firing attempt: however deliveries, retries by     *)
(* hand, resolutions, deletions and restarts interleave.                   *)
(***************************************************************************)
THEOREM NotifiedStatusAgrees == Spec => []NotifiedAgrees
<1>1. NoticesInv => NotifiedAgrees
  BY DEF NoticesInv, Agree, Reported, Awaited, LatestOf, FiringOf,
         NotifiedAgrees, LatestFiringIs, Ledger!IsLatest, Ledger!OfPhase,
         Ledger!Attempts, Attempts, Outstanding, Open
<1> QED
  BY <1>1, InitNotices, NextNotices, PTL DEF Spec
=============================================================================
