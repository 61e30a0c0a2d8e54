---------------------------- MODULE NetworkIncidents --------------------------
(***************************************************************************)
(* The incidents of network monitors (internal/store/sqlite/               *)
(* network_alerts.go, network.go; networkservice Evaluate).  Rules on the  *)
(* loss watch monitors; after each report of the agent, and in each tick   *)
(* of the routine, an evaluation looks at one monitor after another, each  *)
(* in a transaction of its own, and gives the notices it has queued to     *)
(* delivery goroutines at its end.  Meanwhile monitors are edited,         *)
(* replaced and archived, rules changed and deleted, and the agent         *)
(* deleted, each of which closes incidents.                                *)
(*                                                                         *)
(* One agent.  Incidents of agents, which share the tables, are those of   *)
(* module Incidents, and so is the notified_status of an incident.  What   *)
(* is read is a choice: over the threshold, under it, or nothing that may  *)
(* be evaluated.                                                           *)
(***************************************************************************)
EXTENDS Integers, Sequences, FiniteSets, SequencesExt

CONSTANTS
  LossRules,     \* alert rules of type network_loss
  LossMonitors,  \* monitor ids; a replacement takes one that was never used
  Evaluators,    \* evaluations at a time: the report's handler and the routine
  MaxAlarms,     \* bound on the incidents
  MaxNotices     \* bound on the notifications

ASSUME LossAssumption ==
  MaxAlarms \in Nat /\ MaxNotices \in Nat /\ IsFiniteSet(LossRules)

VARIABLES
  lossRule,     \* alerts: "on", "off" or "deleted"
  metered,      \* network_monitors: "unused", "enabled", "paused" or "archived"
  agentGone,    \* the agent is deleted
  watch,        \* alert_monitors: [status, alarm] of each pair of a rule and a monitor
  alarm,        \* alert_history: [rule, monitor, state] in the order of creation
  notice,       \* alert_history_events of kind notification, likewise
  courier,      \* the delivery goroutine of each notice
  evaluation    \* NetworkEvaluate calls: the monitors left and the notices queued

lossVars == <<lossRule, metered, agentGone, watch, alarm, notice, courier, evaluation>>
lossStore == <<lossRule, metered, agentGone, watch, alarm, notice>>

NoAlarm   == 0
NoWatch   == [status |-> "absent", alarm |-> NoAlarm]
Watching  == [status |-> "ok", alarm |-> NoAlarm]
NotEvaluating == [on |-> FALSE, left |-> {}, queued |-> {}]

LossInit ==
  /\ lossRule = [r \in LossRules |-> "on"]
  /\ metered = [m \in LossMonitors |-> "unused"]
  /\ agentGone = FALSE
  /\ watch = [r \in LossRules |-> [m \in LossMonitors |-> NoWatch]]
  /\ alarm = <<>> /\ notice = <<>>
  /\ courier = [n \in 1..MaxNotices |-> "none"]
  /\ evaluation = [e \in Evaluators |-> NotEvaluating]

Current(m) == metered[m] \in {"enabled", "paused"}
Watches(r, m) == watch[r][m].status # "absent"

\* MonitoringAvailable of an incident, and what its phase asks for.
Deliverable(n) ==
  LET a == alarm[notice[n].alarm] IN
    /\ a.state # "closed"
    /\ metered[a.monitor] = "enabled" /\ lossRule[a.rule] = "on" /\ ~agentGone
    /\ Watches(a.rule, a.monitor)
    /\ (notice[n].phase = "firing") = (a.state = "open")

-----------------------------------------------------------------------------
(* Closing incidents *)

OpenWhere(Match(_)) == {i \in DOMAIN alarm : alarm[i].state = "open" /\ Match(alarm[i])}

\* The notices of S that are queued become skipped.
Skipping(S) ==
  [n \in DOMAIN notice |-> IF n \in S /\ notice[n].status = "queued"
                           THEN [notice[n] EXCEPT !.status = "skipped"] ELSE notice[n]]

NoticesOf(S) == {n \in DOMAIN notice : notice[n].alarm \in S}

Closing(S) ==
  [i \in DOMAIN alarm |-> IF i \in S THEN [alarm[i] EXCEPT !.state = "closed"] ELSE alarm[i]]

\* The rows of the pairs that match start again.
Calmed(Pairs) ==
  [r \in LossRules |-> [m \in LossMonitors |->
     IF <<r, m>> \in Pairs /\ Watches(r, m) THEN Watching ELSE watch[r][m]]]

\* Mutant of CloseIncidents: the rows are left as they are.
CloseIncidentsOnly(Pairs) ==
  LET Ended == OpenWhere(LAMBDA a : <<a.rule, a.monitor>> \in Pairs) IN
    /\ alarm' = Closing(Ended)
    /\ notice' = Skipping(NoticesOf(Ended))
    /\ watch' = watch

\* closeIncidents, for all pairs of a monitor or for one: the open incidents are closed,
\* the notices queued for closed ones skipped, and the rows are ok.
CloseIncidents(Pairs) ==
  LET Ended == OpenWhere(LAMBDA a : <<a.rule, a.monitor>> \in Pairs) IN
    /\ alarm' = Closing(Ended)
    /\ notice' = Skipping(NoticesOf(Ended))
    /\ watch' = Calmed(Pairs)

-----------------------------------------------------------------------------
(* Monitors *)

CreateMonitor(m) ==
  /\ metered[m] = "unused" /\ ~agentGone
  /\ metered' = [metered EXCEPT ![m] = "enabled"]
  /\ UNCHANGED <<lossRule, agentGone, watch, alarm, notice, courier, evaluation>>

\* editMonitor: a monitor that is paused closes its incidents.
EditMonitor(m, state) ==
  /\ Current(m)
  /\ metered' = [metered EXCEPT ![m] = state]
  /\ IF state = "paused" THEN CloseIncidents(LossRules \X {m})
     ELSE UNCHANGED <<watch, alarm, notice>>
  /\ UNCHANGED <<lossRule, agentGone, courier, evaluation>>

\* replaceMonitor: the incidents are closed, and the rows move to the new id.
ReplaceMonitor(m, new, state) ==
  /\ Current(m) /\ metered[new] = "unused"
  /\ metered' = [metered EXCEPT ![m] = "archived", ![new] = state]
  /\ LET Ended == OpenWhere(LAMBDA a : a.monitor = m) IN
       /\ alarm' = Closing(Ended)
       /\ notice' = Skipping(NoticesOf(Ended))
  /\ watch' = [r \in LossRules |->
                 [watch[r] EXCEPT ![m] = NoWatch,
                                  ![new] = Calmed({<<r, m>>})[r][m]]]
  /\ UNCHANGED <<lossRule, agentGone, courier, evaluation>>

\* NetworkArchive.
ArchiveMonitor(m) ==
  /\ metered[m] # "unused" /\ ~agentGone
  /\ metered' = [metered EXCEPT ![m] = "archived"]
  /\ CloseIncidents(LossRules \X {m})
  /\ UNCHANGED <<lossRule, agentGone, courier, evaluation>>

\* AgentDelete, closeIncidentMonitoring and the trigger network_agent_delete: the rows of
\* the archived monitors stay as they are.
DeleteMeteredAgent ==
  /\ ~agentGone
  /\ agentGone' = TRUE
  /\ metered' = [m \in LossMonitors |-> IF Current(m) THEN "archived" ELSE metered[m]]
  /\ alarm' = Closing(OpenWhere(LAMBDA a : TRUE))
  /\ notice' = Skipping(DOMAIN notice)
  /\ UNCHANGED <<lossRule, watch, courier, evaluation>>

-----------------------------------------------------------------------------
(* Rules *)

\* AlertCreate and AlertUpdate with setAlertMonitors: the monitors that leave, or all of
\* a rule that is switched off, close their incidents.  A rule that becomes one of
\* another type is left by all.
SaveLossRule(r, state, wanted) ==
  /\ lossRule[r] # "deleted"
  /\ \A m \in wanted : Current(m) /\ ~agentGone
  /\ lossRule' = [lossRule EXCEPT ![r] = state]
  /\ LET Left  == {m \in LossMonitors : Watches(r, m) /\ (m \notin wanted \/ state = "off")}
         Ended == OpenWhere(LAMBDA a : a.rule = r /\ a.monitor \in Left) IN
       /\ alarm' = Closing(Ended)
       /\ notice' = Skipping(NoticesOf(Ended))
       /\ watch' = [watch EXCEPT ![r] = [m \in LossMonitors |->
                      IF m \notin wanted THEN NoWatch
                      ELSE IF m \in Left \/ ~Watches(r, m) THEN Watching
                      ELSE watch[r][m]]]
  /\ UNCHANGED <<metered, agentGone, courier, evaluation>>

\* AlertDelete: closeIncidentMonitoring, and the rows cascade.
DeleteLossRule(r) ==
  /\ lossRule[r] # "deleted"
  /\ lossRule' = [lossRule EXCEPT ![r] = "deleted"]
  /\ alarm' = Closing(OpenWhere(LAMBDA a : a.rule = r))
  /\ notice' = Skipping(NoticesOf({i \in DOMAIN alarm : alarm[i].rule = r}))
  /\ watch' = [watch EXCEPT ![r] = [m \in LossMonitors |-> NoWatch]]
  /\ UNCHANGED <<metered, agentGone, courier, evaluation>>

-----------------------------------------------------------------------------
(* NetworkEvaluate *)

\* The candidates: enabled monitors that some rule watches.
BeginEvaluation(e) ==
  /\ ~evaluation[e].on
  /\ evaluation' = [evaluation EXCEPT ![e] =
       [on |-> TRUE, queued |-> {},
        left |-> {m \in LossMonitors : metered[m] = "enabled"
                                       /\ \E r \in LossRules : Watches(r, m)}]]
  /\ UNCHANGED <<lossStore, courier>>

Fires(r, m) == watch[r][m].status = "ok"

Recovers(r, m) ==
  /\ watch[r][m].status \notin {"absent", "ok"}
  /\ watch[r][m].alarm # NoAlarm
  /\ alarm[watch[r][m].alarm].state = "open"

\* evaluateMonitor, a transaction: the monitor is still enabled, the rules of now are
\* held against the reading of now, which is over the threshold of some.  fireIncident
\* opens incidents; recoverIncident resolves them and skips their firing notices that are
\* still queued; queueNotification queues one notice for each.
EvaluateMonitor(e, m, over) ==
  /\ m \in evaluation[e].left
  /\ metered[m] = "enabled"
  /\ LET Rules  == {r \in LossRules : lossRule[r] = "on" /\ Watches(r, m)}
         Raised == SetToSeq({r \in Rules \cap over : Fires(r, m)})
         Ended  == SetToSeq({watch[r][m].alarm : r \in {s \in Rules \ over : Recovers(s, m)}})
         First  == Len(alarm)
         NewAlarms  == [k \in DOMAIN Raised |->
                          [rule |-> Raised[k], monitor |-> m, state |-> "open"]]
         NewNotices == [k \in DOMAIN Raised |->
                          [alarm |-> First + k, phase |-> "firing", status |-> "queued"]]
                       \o [k \in DOMAIN Ended |->
                            [alarm |-> Ended[k], phase |-> "recovery", status |-> "queued"]]
         Firing == {n \in NoticesOf(ToSet(Ended)) : notice[n].phase = "firing"}
     IN /\ over \subseteq Rules
        /\ First + Len(Raised) <= MaxAlarms
        /\ Len(notice) + Len(NewNotices) <= MaxNotices
        /\ alarm' = [i \in DOMAIN alarm |->
                       IF i \in ToSet(Ended) THEN [alarm[i] EXCEPT !.state = "resolved"]
                       ELSE alarm[i]] \o NewAlarms
        /\ notice' = Skipping(Firing) \o NewNotices
        /\ watch' = [r \in LossRules |-> [watch[r] EXCEPT ![m] =
                       IF @.alarm \in ToSet(Ended) THEN Watching
                       ELSE IF r \in ToSet(Raised)
                       THEN [status |-> "firing",
                             alarm |-> First + CHOOSE k \in DOMAIN Raised : Raised[k] = r]
                       ELSE @]]
        /\ evaluation' = [evaluation EXCEPT
             ![e].left = @ \ {m},
             ![e].queued = @ \cup {Len(notice) + k : k \in DOMAIN NewNotices}]
  /\ UNCHANGED <<lossRule, metered, agentGone, courier>>

\* The reading is too old or too small, the agent offline or unable, the monitor gone.
SkipMonitor(e, m) ==
  /\ m \in evaluation[e].left
  /\ evaluation' = [evaluation EXCEPT ![e].left = @ \ {m}]
  /\ UNCHANGED <<lossStore, courier>>

\* A query fails, or the report's connection, and with it its context, is over: the
\* notices queued so far are not returned.
EvaluationFails(e) ==
  /\ evaluation[e].left # {}
  /\ evaluation' = [evaluation EXCEPT ![e] = NotEvaluating]
  /\ UNCHANGED <<lossStore, courier>>

\* Evaluate: alertdelivery.Go for each.
DispatchQueued(e) ==
  /\ evaluation[e].on /\ evaluation[e].left = {}
  /\ courier' = [n \in DOMAIN courier |-> IF n \in evaluation[e].queued THEN "waiting"
                                          ELSE courier[n]]
  /\ evaluation' = [evaluation EXCEPT ![e] = NotEvaluating]
  /\ UNCHANGED lossStore

-----------------------------------------------------------------------------
(* Delivery *)

NoticeIs(n, status) == notice' = [notice EXCEPT ![n].status = status]
CourierIs(n, place) == courier' = [courier EXCEPT ![n] = place]

\* AlertAttemptStart.
ClaimNotice(n) ==
  /\ courier[n] = "waiting"
  /\ IF notice[n].status # "queued" THEN CourierIs(n, "none") /\ UNCHANGED notice
     ELSE IF Deliverable(n) THEN CourierIs(n, "claimed") /\ NoticeIs(n, "pending")
     ELSE CourierIs(n, "none") /\ NoticeIs(n, "skipped")
  /\ UNCHANGED <<lossRule, metered, agentGone, watch, alarm, evaluation>>

\* Dispatch reads the incident again, and posts; an incident that is over meanwhile is
\* completed as skipped.
PostNotice(n) ==
  /\ courier[n] = "claimed"
  /\ IF Deliverable(n) THEN CourierIs(n, "posted") /\ UNCHANGED notice
     ELSE CourierIs(n, "none") /\ NoticeIs(n, "skipped")
  /\ UNCHANGED <<lossRule, metered, agentGone, watch, alarm, evaluation>>

\* The row that still names an incident.
NamedBy(a) == watch[alarm[a].rule][alarm[a].monitor].alarm = a

\* AlertAttemptComplete: the outcome of a firing notice is copied to the row that names
\* the incident while it is open.  Without a destination it fails before the post.
CompleteNotice(n, outcome) ==
  /\ courier[n] \in (IF outcome = "failed" THEN {"claimed", "posted"} ELSE {"posted"})
  /\ CourierIs(n, "none")
  /\ NoticeIs(n, outcome)
  /\ LET a == notice[n].alarm IN
       watch' = IF notice[n].phase = "firing" /\ alarm[a].state = "open" /\ NamedBy(a)
                THEN [watch EXCEPT ![alarm[a].rule][alarm[a].monitor].status =
                        IF outcome = "failed" THEN "failed" ELSE "firing"]
                ELSE watch
  /\ UNCHANGED <<lossRule, metered, agentGone, alarm, evaluation>>

\* The outcome cannot be saved.
OutcomeLost(n) ==
  /\ courier[n] \in {"claimed", "posted"}
  /\ CourierIs(n, "none")
  /\ UNCHANGED <<lossStore, evaluation>>

LatestNotice(n) ==
  \A k \in DOMAIN notice :
    notice[k].alarm = notice[n].alarm /\ notice[k].phase = notice[n].phase => k <= n

\* AlertAttemptQueue, for the routine's retry and the user's, then alertdelivery.Go.
RetryNotice(n) ==
  /\ Len(notice) < MaxNotices
  /\ LatestNotice(n) /\ notice[n].status \in {"failed", "unknown"} /\ Deliverable(n)
  /\ notice' = Append(notice, [notice[n] EXCEPT !.status = "queued"])
  /\ CourierIs(Len(notice) + 1, "waiting")
  /\ UNCHANGED <<lossRule, metered, agentGone, watch, alarm, evaluation>>

\* The process dies and starts again (migrateIncidentHistory).
RestartNotices ==
  /\ notice' = [n \in DOMAIN notice |->
       IF notice[n].status \in {"queued", "pending"}
       THEN [notice[n] EXCEPT !.status = "unknown"] ELSE notice[n]]
  /\ courier' = [n \in DOMAIN courier |-> "none"]
  /\ evaluation' = [e \in Evaluators |-> NotEvaluating]
  /\ UNCHANGED <<lossRule, metered, agentGone, watch, alarm>>

-----------------------------------------------------------------------------

Examines(e) ==
  \E m \in LossMonitors :
    SkipMonitor(e, m) \/ \E over \in SUBSET LossRules : EvaluateMonitor(e, m, over)

Evaluates(e) ==
  BeginEvaluation(e) \/ Examines(e) \/ EvaluationFails(e) \/ DispatchQueued(e)

Delivers(n) ==
  \/ ClaimNotice(n) \/ PostNotice(n) \/ OutcomeLost(n)
  \/ \E outcome \in {"success", "failed"} : CompleteNotice(n, outcome)

LossNext ==
  \/ \E m \in LossMonitors :
       \/ CreateMonitor(m) \/ ArchiveMonitor(m)
       \/ \E state \in {"enabled", "paused"} :
            EditMonitor(m, state) \/ \E new \in LossMonitors : ReplaceMonitor(m, new, state)
  \/ DeleteMeteredAgent
  \/ \E r \in LossRules :
       \/ DeleteLossRule(r)
       \/ \E state \in {"on", "off"}, wanted \in SUBSET LossMonitors :
            SaveLossRule(r, state, wanted)
  \/ \E e \in Evaluators : Evaluates(e)
  \/ \E n \in DOMAIN notice : Delivers(n) \/ RetryNotice(n)
  \/ RestartNotices

\* Evaluations go on and do not fail forever; deliveries go on.
LossFairness ==
  /\ \A e \in Evaluators : WF_lossVars(Evaluates(e)) /\ SF_lossVars(Examines(e))
  /\ \A n \in 1..MaxNotices : WF_lossVars(n \in DOMAIN notice /\ Delivers(n))

LossSpec == LossInit /\ [][LossNext]_lossVars /\ LossFairness

-----------------------------------------------------------------------------
(* Properties *)

LossTypeOK ==
  /\ lossRule \in [LossRules -> {"on", "off", "deleted"}]
  /\ metered \in [LossMonitors -> {"unused", "enabled", "paused", "archived"}]
  /\ watch \in [LossRules -> [LossMonitors ->
       [status : {"absent", "ok", "firing", "failed"}, alarm : NoAlarm..MaxAlarms]]]
  /\ alarm \in Seq([rule : LossRules, monitor : LossMonitors,
                    state : {"open", "resolved", "closed"}])
  /\ notice \in Seq([alarm : 1..MaxAlarms, phase : {"firing", "recovery"},
                     status : {"queued", "pending", "success", "failed", "skipped", "unknown"}])

\* A row is alarmed as long as an open incident of its pair is, and names it, so that
\* there is one at a time and its recovery is noticed: through replacements, edits,
\* removals, late outcomes of earlier incidents and evaluations that began before them
\* (evaluateMonitor, closeIncidents, setAlertMonitors, AlertAttemptComplete).
WatchesTrackAlarms ==
  /\ \A r \in LossRules, m \in LossMonitors :
       Current(m) /\ watch[r][m].status \in {"firing", "failed"} =>
         /\ watch[r][m].alarm # NoAlarm
         /\ alarm[watch[r][m].alarm] = [rule |-> r, monitor |-> m, state |-> "open"]
  /\ \A a \in OpenWhere(LAMBDA x : TRUE) :
       NamedBy(a) /\ watch[alarm[a].rule][alarm[a].monitor].status \in {"firing", "failed"}

\* Every incident is announced by one firing notice, a recovery by one more, and an
\* incident that was closed by none; nothing stays queued for an incident that is over,
\* and a message under way is never beside another of its phase (queueNotification,
\* closeIncidents, closeIncidentMonitoring, recoverIncident, AlertAttemptQueue).
NoticesMatchAlarms ==
  \A a \in DOMAIN alarm :
    LET Of(ph) == {n \in NoticesOf({a}) : notice[n].phase = ph}
        Live(ph) == {n \in Of(ph) : notice[n].status \in {"queued", "pending"}} IN
      /\ Of("firing") # {}
      /\ (Of("recovery") # {}) = (alarm[a].state = "resolved")
      /\ Cardinality(Live("firing")) <= 1 /\ Cardinality(Live("recovery")) <= 1
      /\ alarm[a].state # "open" =>
           \A n \in Of("firing") : notice[n].status # "queued"

\* The incidents agree with the rows and with the notices.
NetworkAlarmsAgree == WatchesTrackAlarms /\ NoticesMatchAlarms
=============================================================================
