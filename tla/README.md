# A TLA+ model of certainstats

certainstats is a monitoring server: agents report telemetry, the server stores
it, evaluates alert rules against it, sends notifications, and serves a panel and
public status pages. It is one Go process over one SQLite connection, and a set of
browser scripts. This directory models the parts whose correctness depends on the
order in which things happen, checks the models with TLC and proves the central
facts with TLAPS.

Paths of Go files are relative to `internal/`, paths of scripts to the repository.

1. [The system](#the-system)
2. [The modules](#the-modules)
3. [What the runs check](#what-the-runs-check)
4. [What is proved](#what-is-proved)
5. [What the code does otherwise](#what-the-code-does-otherwise)
6. [What is not modelled](#what-is-not-modelled)

## The system

### The server

| Component | State | Operations | Hard part | What makes it correct |
|---|---|---|---|---|
| Incident store (`store/sqlite/alert.go`, `incident_*.go`) | rules, `alert_agents` rows, `alert_history`, attempts in `alert_history_events` | trigger, resolve, queue / start / complete an attempt, edit, delete, migrate on start | several transactions per operation, stale callers, restart in between | row, incident and attempts agree; an attempt is claimed once; a settled outcome is final |
| Routine and delivery (`routine`, `alertdelivery`, `notifications`) | a snapshot of rules, a list of failures, eight send slots | mark offline, evaluate, retry, deliver | works from old reads while handlers and deliveries run | every lasting outage raises an alarm, every attempt settles or was refused by the store, nothing interrupted is resent |
| Alert handlers (`alert`) | none | create, edit, delete, retry | race with the routine | a retry is accepted once |
| Network monitor store (`store/sqlite/network*.go`) | monitors, their rules, generations | create, replace, archive, evaluate, acknowledge | evaluation against an edit; acknowledgement of an old generation | an incident belongs to a monitor that is watched; an old acknowledgement changes nothing |
| Network service (`networkservice`) | locks per agent, generations | change, synchronise, evaluate | pushes, reports and reconnects at once | an acknowledged configuration is the one the agent runs |
| Telemetry ingestion (`agent`, `store/sqlite/journal.go`, `agent.go`) | journal, counters, cache of tokens | submit, replay, change a token, delete | crash between the journal and the time series; a lookup across a token change | each report counted once; a revoked token does not stay cached |
| Metrics (`metrics`) | cached windows, semaphores of the time series | append, read, query | failures between store and cache; slots at their limit | the window is the end of the series; each slot comes back |
| Shared builds (`context`) | versioned answers, builds in progress, wait slots | look up, lead, follow, build, invalidate | a change during a build; followers that time out | nobody is served content older than the rules of the request |
| WebSockets (`ws`) | request table, channels, the connection | send, correlate, expire, close | answer against timeout against disconnect | an answer reaches the request it answers, once; no channel is used after it was closed |
| Authentication, request limits, dashboards, parsers, commands | small | one transaction or computation each | none of order | |

The routine calls the store and starts delivery goroutines; handlers do the same;
ingestion writes `is_online`; the evaluation of network rules writes the same
incident and attempt tables. They share nothing in memory but the send slots, so
SQLite's transactions are the only ordering there is. `SetMaxOpenConns(1)`
(`store/sqlite/store.go:15`) makes a transaction, or a single statement outside
one, atomic: that is the granularity of the actions of the store's models. Maps
and channels that live in memory (`ws`, `context`, the token cache) have an action
per lock, channel operation or map operation.

### The browser

| Component | State | Operations | Hard part | What makes it correct |
|---|---|---|---|---|
| Request groups (`web/static/shared/js/requests.js`) | the group's signal and status | begin, answer, cancel, retry | an answer that was under way when its group was cancelled | only the latest load reaches the screen |
| Agent Hub (`web/src/js/pages/admin_agents`) | route, picker, charts, copies of names and notes, sparklines | navigate, load, edit, hide, refresh | answers of an earlier agent or range; a save that is answered on another page | charts show the selection; an edit goes to the agent it was typed for |
| Public page (`web/src/js/pages/public_dashboard`) | route, range in `localStorage`, status | visit, load, pulse, refresh | metadata older than a pulse; a range set by another tab | charts show the selection; the status heals |
| Network view (`web/src/js/components/network_monitors`) | filters, page, rows, dialog, pickers, graphs | list, pulse, poll, edit, choose, load | polls that pause while the feed is healthy; requests that overtake each other | the list is current; the editor serves what was asked for last |
| Charts (`web/src/js/components/chart`, `lib/chart`) | series, bands, labels | draw, append | thresholds decided at several places | bands, breaks and dots agree; labels do not overlap |
| Pages with a script of their own (`web/static/admin/js`) | rows, order, dialog, history | reorder, rename, edit, retry | state kept in several places | what is shown is what is saved |
| React panel and public page (`frontend-admin`, `frontend-public`) | routes, lists, forms, charts | load, edit, poll | no request is ever cancelled | settled views show their selection; a form saves to its own id |

The React directories are archives that only an explicit build tag embeds
(`docs/security-and-rollout.md:3`). They are a second implementation of the same
panel with different concurrency, which is why they are modelled, each in a module
apart from those of the scripts.

The pages talk to the server by HTTP requests and hear from it by the telemetry
feed. Within a page everything is one thread: an action is one event handler or one
continuation after an `await`.

## The modules

| Module | What it is |
|---|---|
| `AttemptTypes` | phases and statuses of a notification attempt |
| `DeliveryLedger` | abstract specification: what the store promises about attempts |
| `Incidents` | resource-rule incidents, routine, deliveries, handlers, crash and restart; implements `DeliveryLedger` |
| `NetworkIncidents` | incidents of network monitors: evaluation, notices, edits, archiving |
| `TelemetryJournal` | ingestion: journal, counter, series, cached window, failures, crash recovery, deletion |
| `IdentityCache` | the cache of agent tokens: lookups against token changes and deletions |
| `ConfigSync` | how an agent comes to run the monitors stored for it |
| `HubRequests` | requests over one connection of an agent, and its end |
| `ResponseBuilds` | shared builds of public answers, their versions, and the semaphores of the time series |
| `LatestLoad` | abstract specification: only the latest load that was not cancelled reaches the screen |
| `RequestGroup` | one request group; instantiated by the pages |
| `AgentPage`, `AgentHub` | the Agent Hub: detail and navigation; overview and editing |
| `PublicPage` | the public status page; implements `LatestLoad`, as `AgentPage` does |
| `NetworkList`, `NetworkEditor`, `ProberPicker`, `NetworkGraph` | the Network view: its list, the dialog, the choice of agents in it, the graphs |
| `MultiChart` | a chart: downtime bands, breaks of the line, live points, labels of the time axis |
| `IncidentHistory`, `DashboardForm`, `AgentRows`, `AlertDialog` | the pages with a script of their own |
| `PanelApp`, `AgentDetail`, `EventHistory`, `RuleList`, `RuleForm`, `StatusPageForm` | the React panel: shell, an agent's chart and editors, events, rules, the form of a rule, status pages |
| `PublicApp` | the React public page |
| `ServerStores`, `ServerRequests`, `AgentPages`, `PanelViews`, `PanelPages`, `PublicPages` | compositions, see below |
| `MCServerRequests`, `MCPanelPages` | two compositions with the values TLC needs that a configuration cannot write |
| `Incidents_proofs`, `ServerStores_proofs`, `ServerRequests_proofs`, `AgentPage_proofs`, `AgentHub_proofs`, `PublicPages_proofs`, `PanelViews_proofs`, `PanelPages_proofs` | theorems and proofs |

Operators whose comment begins "Mutant of" (or "Mutants of") are plausible wrong
versions of an operator that follows. No specification uses them: each is put
in its operator's place to see that the property it belongs to then fails.

**Compositions.** Where components share state they are one module (`Incidents` has
routine, deliveries, handlers and store). Components that share none are checked
together in a module that EXTENDS them and has one more variable, which names the
one that is at work; the others keep one state of theirs. A behaviour of the
composition is a behaviour of one of the components, in any of its initial states,
so a run checks each of them, and the sum of their states, not the product.
`ServerStores` is `TelemetryJournal`, `IdentityCache`, `NetworkIncidents` and
`DeliveryLedger`; `ServerRequests` is `ConfigSync`, `HubRequests` and
`ResponseBuilds`; `AgentPages` is `AgentPage` and `PanelApp`; `PublicPages` is
`PublicPage` and `PublicApp`; `PanelViews` and `PanelPages` have the other views of
the panels. The fairness of a composition is that of its components: of one that is
not at work no step is due.

### DeliveryLedger

`attempt` is the table `alert_history_events` restricted to `kind =
'notification'`; ids are given in order of `created_at`. The actions are the only
ways the code changes the table: `Enqueue` (`AlertAttemptQueue`), `Claim`
(`AlertAttemptStart`), `Settle` (`AlertAttemptComplete`), `Withdraw` (skipping
queued attempts when a rule resolves or is removed) and `Interrupt` (the end of
`migrateIncidentHistory`).

### Incidents

| Variable | Code |
|---|---|
| `rule`, `target`, `agent` | `alerts.enabled` or deleted; the saved target still exists; `agents.is_online` or deleted |
| `row` | `alert_agents`: `status`, and `fired`, the incident whose `triggered_at` equals `last_fired_at` |
| `incident` | `alert_history`: `resolved_at`, `closed_at` set or not, `notified_status`, `legacy` |
| `attempt`, `nAttempts` | notification events, as in the ledger |
| `worker` | the goroutine of `alertdelivery.Go` and its place in `Dispatch` |
| `at`, `entries`, `work`, `subject` | the routine's place in a tick, the rest of its loops, the incident or attempt it holds between two transactions |

`Tick` follows `routine.go:83-103`: `BeginTick` (mark offline and read the
snapshot), per entry `Trigger` then `Announce`, or `FindActive`, `Resolve`,
`AnnounceRecovery`, or `LeaveAsIs`; then `ScanFailed`, `Retry`, `Requeue`,
`ScanLegacy`, `RetryLegacy` and `TickDone`. `Deliver(e)` follows `Dispatch`:
`Start`, `FindDestination`, `CheckAgain`, `Post`, `Complete`. The handlers are
`RetryByHand`, `RetryLegacyByHand`, `AlertUpdate`, `AlertDelete`, `AgentDelete`
and `TargetDelete`; `Heartbeat` is a sample coming in. `CrashAndRestart` loses
all that is in memory and runs the migration's last two statements.

What is abstracted. Times are the order of ids; the 24-hour limits of the retry
lists are a free choice (`Old`). A metric rule's reading is a free choice at the
moment it is evaluated, a down rule's comes from the snapshot, as in the code.
Each rule has one target for good, saved or gone; payloads are left out. The
post succeeds or fails freely, a timeout being a failure. An error of the store may
end a delivery at its claim (`ClaimFails`: the attempt stays queued), at a read (it
fails) or at its outcome (`OutcomeLost`: it stays pending), and may end whatever the
routine queues (`TryQueue`), the announcement of a new incident included. Other
errors end a step that then changes nothing, and are left out. `incident.legacy` is true only of incidents
a migrated database brings along (`InitMigrated`): one open incident without
attempts, its row alarmed on its account. Rules are created before the start;
`alert_agents` helpers no handler calls (`AlertAddAgents`, `AlertRemoveAgents`)
are left out, as is turning a resource rule into a network rule.

### NetworkIncidents

`watch` is the row of a rule and a monitor, `alarm` an incident, `notice` an attempt
of it. An evaluation (`Evaluators`) looks at one monitor after another, each in a
transaction of its own, and hands the notices it queued to deliveries at its end;
between two of its transactions monitors are edited, replaced and archived, rules
changed and deleted, and the agent deleted. One agent; what is read is a free choice
(over the threshold, under it, or nothing that may be evaluated). The
`notified_status` of incidents is in `Incidents`.

### TelemetryJournal

| Variable | Code |
|---|---|
| `present`, `total` | the agent's row and its `total_rx_bytes`, counted in reports |
| `journal` | `ingestion_journal`: no row, pending or complete |
| `stored` | the TSDB series of the agent |
| `cached` | the agent's windows in `metrics.RealtimeCache`, oldest first |
| `job` | the ingestion that holds the agent's lock: stage, rest of the batch, record at hand |
| `running`, `revoking` | whether `RecoverIngestion` has returned; how far `RevokeAgentHandler` got |

A job goes `Start`, `FindPending` (and the replay of each record found), then per
sample `LookUp`, `Begin`, `Write`, `Complete`, `UpdateCache`; `Fail` ends it at
any call that can return an error. `RecoverNext`, `RecoveryFails` and
`RecoveryDone` are the start of the process. A report's number is its source time
and its identity, as in the parsers' `SourceID`. `Appendable` is external: what
the TSDB does with a late sample when opened with `DefaultOptions`
(`cmd/certainstats/main.go:77`). There is one job per agent because `lockAgent`
admits one; a job may start for an agent already deleted, because a submission
is authenticated before it waits for the lock. Metadata writes are part of
`Complete`, their effect on `is_online` is in `Incidents`. Left out: samples
without a `SourceID`, normalisation and its baseline, the live snapshot,
expiry of the windows, and provisioning while the model runs.

### IdentityCache, ConfigSync, HubRequests, ResponseBuilds

`IdentityCache` has the `sync.Map` (`cachedOwner`), the agents' tokens (`owner`), the
generation counter, the lookups under way with the generation they remember, and the
changes under way, which commit, raise the generation and then evict token by token.

`ConfigSync` has the desired and acknowledged generation, the error of the last
synchronization, the stored monitors, and one `push` per goroutine with its place in
`Changed`, `applyIncremental` or `Sync`; `syncLock` is the agent's stripe of the
locks. The socket (`inbox`) and the agent (`runs`, `supports`) are
external: requests arrive in order and are lost with their connection.

`HubRequests` has the hub's table (`tracked`), the channel of each request, and the
places of the callers, the reader, the handler and the three that may close. A
request is known by its id; the wrap of ids at 2^32 is left out, since a request is
tracked for 90 seconds at most. Time is a choice: at each look at the clock a
request may or may not have expired. The agent answers in any order, late, twice or
never. `misused` records a send to, or a close of, a closed channel.

`ResponseBuilds` has the version of one dashboard, one answer per version, the builder
of each, the four semaphores (`slots`) and the visitors with their place in the
handlers. The order in which a full cache evicts is a free choice (`ExpireAnswer`);
one query of the panel at a time or more (`panelQueries`) competes for the last
semaphore.

### The pages

A page's module has the controls as the user left them, what the screen shows, and
the requests under way with what they were asked for. What a chart or a row shows
is a record of what it was loaded for (agent and range, filter and page), so that
"shows the selection" is an equation; the data itself is left out. A request may
succeed, fail, or be answered late; where a group cancels, a request that was
cancelled with its answer already on the way still runs its continuation, and looks
at the signal of its own group. Time is left out: a timer may fire whenever it is
set. Exceptions are part of the properties: where the code has a race it does not
close, the variable `raced` (or `missed`, `unrecorded`, ...) marks the state it leaves,
and the property says what holds of all others.

`PanelApp` knows one agent, since its list is replaced as a whole. In
`StatusPageForm` and `RuleForm` the wording, triggers and payloads are left out; what
is kept is which id a form reads and writes. `IncidentHistory` has one incident with
one failed notification. `DashboardForm` and `AlertDialog` include what the server
makes of the submitted form (`parseAgentsOrder`, `saveAlert`).

## What the runs check

| Run | Bounds | Properties |
|---|---|---|
| `incidents` | one metric rule, one agent, 2 slots, 2 incidents, 2 attempts, 1 crash, rule and agent removable | `RowTracksIncident`, `NoFalseRecovery`, `NotifiedAgrees`, `ClaimHeld`, `NoAutomaticResend`, `EndingIsFinal`, `ImplementsLedger` |
| `incidents_settle` | one metric rule, 1 slot, 1 incident, 2 attempts, 1 crash, everything removable, deliveries and routine fair | `AttemptsSettle` |
| `incidents_live` | one down rule, 1 slot, 2 incidents, 2 attempts, 1 crash, nothing deleted, the routine alone fair | `OutageRaisesAlarm`, `RecoveryClearsAlarm` |
| `server_stores` | 2 agents with 2 reports in batches of up to 2 and 1 crash; 2 owners, 2 tokens, 2 lookups, 2 changes; 1 loss rule, 2 monitors, 2 incidents, 2 notices; 2 incidents with 4 attempts | `CountedOnce`, `OnePending`, `StoreAgrees`, `CacheAgrees`; `OnlyCurrentTokensStay`; `NetworkAlarmsAgree`; `OneOutstanding`, `OneChain`, `OutcomesAreFinal` |
| `server_requests` | 2 monitors, 2 goroutines, 2 changes, 1 connection at a time; 2 awaited requests and 2 polls, 3 in all, a handler's channel of 1; 2 visitors, 2 versions, 2 wait slots and 1 of each other | `SyncedMeansApplied`, `AnswersUsedOnce`, `BuildsAreSound`, `NobodyWaitsForever` |
| `agent_page` | 2 agents, one range and one zoom, live mode, one answer cancelled but on its way | `SettledShowsSelection`, `ViewsFollowRoute`, `ShowsLatestLoad`, `AgentPanelsHeal` |
| `agent_hub` | 2 agents, one with a card, 2 texts, 2 saves at once | `EditsKeepTheirAgent`, `SparklinesPending`, `NicknamesHeal` |
| `panel_views` | two of whatever can be mistaken for one another, at most 1 or 2 requests under way; of the events two searches under one status | `ViewsShowTheirSelection`, `ViewsSaveTheirOwn`, `SettledListIsCurrent`, `EditorServesLastWish` |
| `panel_pages` | one incident, 3 servers, 2 agents, 1 rule with 2 hosts and 2 targets, 2 probers, 4 samples, time axes up to 84 pixels | `SettledHistoryShowsSelection`, `PanelShowsWhatIsSaved`, `ChartsAreLegible`, `PanelHeals` |
| `public_page` | 2 agents, 2 ranges and a third that another tab stores, 2 slugs, 2 requests under way | `PublicPagesSettle`, `StatusHeals` |
| `telemetry_late` | 2 agents, 2 reports, batches of 1, 1 crash, fair | `RecoveryEnds`, violated, see below |
| `sync_retry` | 1 monitor, 2 goroutines, 1 change, fair | `FailedSyncIsRetried`, violated, see below |

A property whose name is general is the conjunction of the properties of the parts
that the composition has: `ViewsShowTheirSelection` is `SettledChartShowsSelection`,
`SettledEventsShowSelection`, `ListedRulesAgree` and `SettledListShowsPage`, and so on;
each part is stated, with its exceptions, in the module it is about.

**What the views of the panels promise.** Nothing in the React panel is cancelled, so an
answer that was overtaken may come last and stay until the next change. What
`ViewsShowTheirSelection` says of every settled chart is that it shows something that was
asked for since nothing was under way (`recently`), never live points of another agent
and never live points under a custom range; that it shows the selection of now is said
if the newest request was answered last. Events are treated the same way (`queried`).
The list of monitors shows the page whose number it prints, and that page is not beyond
the end; the exception is page 0, which Previous reaches when it is pressed again before
the answer: the rows are then those of page 1. `ChartsAreLegible` has the exception of
a series of one sample, described below.

**What the lasting outages promise.** `OutageRaisesAlarm` and `RecoveryClearsAlarm` need
a rule that stays enabled and keeps its agent, and nothing else: the bound on attempts
does not hold the routine up, since it passes over an attempt that cannot be queued. An
alarm is raised when the model has an incident left. `AttemptsSettle` says that each
queued attempt is settled in the end unless the store refused its claim or its outcome,
which only a restart repairs.

**Why the bounds are enough.** Two incidents of one pair are what a late delivery of
the first, a replaced row and a second outage need; two attempts give a
notification and its retry, or a notification and a recovery, and in the live run a
notification that failed before a second outage, which raises its alarm although no
attempt is left for it; one crash at any
point reaches each gap between two transactions, and a second adds none since a
restart leaves nothing in memory. A metric rule's readings are free, so its
behaviours contain those of a down rule as far as safety goes; the live run uses
a down rule because its premise speaks of the agent. What users delete is a constant
(`Removable`): a deleted rule or agent is out of the premises of the live run, and a
missing target is a delivery that fails, which any delivery may do, so neither run has
it; `incidents_settle` has all three. Pairs influence each other
only through send slots and through a rule's or an agent's deletion, and the
invariants that speak of pairs are proved for any number of them.
For telemetry, two reports in either order are a late one and a new one after a
pending one; a batch of two is submitted again after its first half; two agents
let the record of one stand before the recovery of the other. Two lookups and two
token changes are a lookup across a change, a change across a change, and a token
that comes back. Two visitors are a leader and a follower, and the smallest limits
let each of them be refused. On the pages, a mix-up takes two things to mix up and
two requests that overtake each other; the status of the events is treated as their
search is, and is left to the proof.

`CHECK_DEADLOCK FALSE` stands where a system may stop: its rules and agents are
all deleted, the bounds are used up, or the part of a composition that is at work
has ended.

**Fairness.** `WF_vars(Tick)` (`RoutineSpec`): the ticker fires for as long as the process lives and
each query returns. With it alone lasting outages and recoveries are noticed.
`SF_vars(Deliver(e))` (`FairSpec`): a goroutine is scheduled; strong,
because taking a slot is possible only now and then while others use it, and Go
wakes senders blocked on a channel in order, so none is passed over for ever. The
same holds of the lock in `ConfigSync` (`SF` of `ReadGeneration`). A request of
`HubRequests` or `ResponseBuilds` that has begun goes on, because its waits all have
a deadline, which is one of the steps; the newer connection that would close the hub
is not assumed to come. In the pages, requests are answered in the end (by success
or failure), timers that are set fire, and polls recur; strong where a request can be
cut off and started anew again and again. Premises about the user (`the view stays
on screen`, `requests do not fail from some time on`) are written in the properties.
Users, agents, posts' outcomes and crashes are not assumed to do anything.
`FairSpec` of `TelemetryJournal` lets recovery proceed while the process lives,
and gives its writes strong fairness: a disk that fails now and then does not
fail each time. That is more than the code guarantees, which makes the
violation of `RecoveryEnds` the stronger.

## What is proved

Every safety property that a run checks - invariant, action property or refinement -
is proved for all values of the constants that its module assumes possible.

| Module | Theorem | States |
|---|---|---|
| `Incidents_proofs` | `IncidentsTypeOK`, `RowsTrackIncidents`, `RecoveriesAreReal`, `EndingsAreFinal`, `IncidentsImplementLedger` | types, rows, endings, and the refinement of the ledger |
| | `ClaimsAreHeld`, `NothingIsResentUnasked`, `NotifiedStatusAgrees` | deliveries and what is shown of them |
| `ServerStores_proofs` | `LedgerOneOutstanding`, `LedgerRetryChain`, `LedgerOneSuccess`, `LedgerOneChain`, `LedgerOutcomesAreFinal` | the ledger's promises |
| | `TypesHold`, `CountedOnceHolds`, `OnePendingHolds`, `StoreAgreesHolds`, `CacheAgreesHolds` | journal, counter, series and window |
| | `LossTypesHold`, `NetworkAlarmsHold` | rules, monitors, rows, incidents and notices of the network |
| | `IdentityTypesHold`, `OldTokensGo` | revoked tokens |
| `ServerRequests_proofs` | `SyncsExclude`, `AppliedWhenSynced` | locks, generations, the agent's configuration |
| | `BuildsStaySound` | slots, builders, versions |
| | `TrackedStayOpen`, `AnswersOnce` | channels and answers |
| `AgentPage_proofs` | `AgentPageTypesHold`, `SettledPageShowsSelection`, `PageFollowsRoute`, `PageImplementsLatestLoad` | the detail of an agent, its panels, and the refinement of `LatestLoad` |
| `AgentHub_proofs` | `HubTypesHold`, `EditsNeverStray`, `NoSparklineForgotten` | the overview, its editors and its sparklines |
| `PublicPages_proofs` | `PublicPageTypesHold`, `PublicPageImplementsLatestLoad`, `PublicPagesAreSettled` | the public status page in both forms |
| `PanelViews_proofs` | `ViewsShowSelection`, `ViewsSaveOwn` | chart, editors, events, rules, the forms of a rule and of a status page, the list of monitors |
| | `MonitorListIsCurrent`, `DialogServesWish` | the list of monitors and the feed; the dialog of a monitor |
| `PanelPages_proofs` | `HistoryShowsSelection` | the incident history |
| | `FormsSaveWhatTheyShow` | the form of a status page, the dialog of a rule, the rows of the agent management, the choice of probers |
| | `DrawnChartsAreLegible` | bands, breaks and dot of a chart, labels of the time axis |

**Assumptions.** `LedgerAssumption`, `IncidentsAssumption`, `JournalAssumption`,
`TokenChangesAssumption`, `LossAssumption` and `LimitsAssumption` type the constants
and ask for at least one rule, agent and report, and that the rules on the loss are
finitely many, as the rows of a table are: an evaluation goes through them one by one. `AwaitedNotPolled` and `HandshakeAwaited` divide the
requests of a hub by who waits for the answer; `NobodyAssumption` and
`VisitorsAssumption` say that the value that stands for nobody is nobody's name, and
that visitors are finitely many, so that they can be counted. The assumptions of the
pages name the values that stand for an absent load, chart, picker or page
(`AbsenceAssumption`, `MemberAssumption`), and ask for natural hours, of which the
range bar offers none that is zero (`PublicPageAssumption`). Those of the panel's views
(one for each module) say the same of their absent rules, pages and requests, that each
selection has a value to begin with, and that the agents of a status page and the
monitors are finitely many, since their rows are counted. For the pages with a script
they say that the history has a first page, that the rows of a status page and the
names in their order each list every server once (`DashboardFormAssumption`), that
custom ranges are pairs of times in their order (`MultiChartAssumption`), and that the
number which stands for -Infinity on the time axis is to the left of any label
(`TimeAxisAssumption`). TLC evaluates all of them in the runs.

**The ledger.** The inductive invariant is `LedgerInv`: types, no attempts beyond
`nAttempts`, `RetryChain`, and `OnlyLatestLive`, which says that whatever is not
the latest attempt of its phase failed or was interrupted. `Enqueue` keeps it
because it only follows such an attempt, and no step leaves a settled status;
one outstanding attempt and one success per phase follow from it.

**Incidents.** Types are not inductive alone. `Typed` adds `Linked`: attempts
name raised incidents, attempts that do not exist have no status and no
goroutine, and the routine's `work` and `subject` name raised incidents or
attempts, according to where the routine is. `Safe` is `Typed` with
`RowTracksIncident` and `NoFalseRecovery`. A row can only become alarmed in
`Trigger`, with the incident it raises, or in `Complete`, which `StillAlarmed`
keeps away from incidents that ended; a recovery is real because `Accepted`
asks, in the transaction that queues it, whether the incident has resolved.
`EndingIsFinal` is an action property proved from `Safe`. `ImplementsLedger` is
proved by mapping each step to an `Enqueue`, `Claim`, `Settle`, `Withdraw`,
`Interrupt` or a stutter, and with it the ledger's theorems hold of the
incidents.

**Notices.** `NoticesInv` is `Safe`, `ClaimHeld`, `LatestOnly`, `Gone` and `Agree`.
`LatestOnly` is the ledger's fact about incidents' attempts; `Gone` says that what was
deleted has no row and no open incident, so that an incident that may not be
announced any more has ended (`IneligibleEnded`); `Agree` is `NotifiedAgrees`,
incident by incident. `ClaimHeld` counts the deliveries whose outcome the store refused
among those that hold their attempt, because it stays pending until a restart. `Agree` is inductive because every transaction that writes
`notified_status` writes it together with the outcome of the latest firing attempt,
or after the incident has ended. `NoAutomaticResend` needs `WorkFailed`: what the
routine retries it read as failed, and no step of anyone turns failed into unknown.

**Telemetry.** The inductive invariant is `Sound`: `TypeOK`,
`OnePending`, `StoredRows` (`StoreAgrees` report by report) and `Linked`, which
says what an ingestion may rely on at each stage: past the replay of old records
there is none pending, what it begins has no row, what it writes or completes is
its own pending record unless the agent is gone. `CountedOnce` follows because a
`Begin` always inserts, so the counter and the set of rows grow together. For
`CacheAgrees`, `CacheInv` is added: the window is in order, holds completed reports
only, and every completed one from its first on but the one about to be cached; and
a report that is stored and not cached yet is the newest of the series. So the append
at the end of `replayIngestion` is at the end of the window, or empties it.

**Network incidents.** `LossInv` is `LossTyped`, `Rests`, `Tracks` and `NoticeInv`.
`Tracks` is `WatchesTrackAlarms`; it needs `Rests`, by which a row that is not alarmed
names no incident and no row waits under an id that a replacement will take.
`NoticeInv` says of the notices what `NoticesMatchAlarms` says, except that
`OneUnderway` stands for its two cardinalities: before the latest notice of an incident
and phase none is under way. An edit, replacement, archiving, deletion or save closes
a set of incidents, skips at least their queued notices (`ClosesOnly`) and leaves the
rows of the others (`RowsFollow`); `ClosingStep` shows once that this is enough. An
evaluation resolves only what a row names and fires only where no row is alarmed, so
each incident it opens is the first of its pair, and each recovery notice the first of
its incident, although several monitors and rules change between its transactions.

**Tokens.** `CachedInv` of `ServerStores_proofs` follows what a lookup has read from
the query to the cache. As long as a change has committed and not raised the
generation, its eviction is still to come; once it has, the generation differs from
the one that every earlier lookup remembers. So an old entry is in the way of an
eviction that has not come to its token, or the lookup that stored it will delete it.

**The hub.** `HubInv` says that an id in the table has an open channel, that an id
that was never sent is not used anywhere, and that an answer to a poll is in one of the
reader's hands, the feed and the store. Whoever takes an id out of the table, under
its lock, is alone with the channel.

**Configurations.** `SyncInv` has the exclusion of the lock (`LockHeld`), the
generations between which a reader of it stands (`GenRead`), what was asked of the
agent (`CapsKnown`, `InFlight`, `Answered`), the case of an agent without a row
(`NoRow`), and `Main`: while the generation counts as acknowledged, the agent runs
what is stored or a synchronization that will send it is under way.

**Builds.** `BuildsInv` counts a slot where its holder stands: each step moves one
visitor from one place to another and changes the number of its wait slots, and
takes or returns exactly the slots by which the two differ (`SlotsFollow`,
`SlotsKept`). The lemmas `PlacesFollow` and `WaitsFollow` are the facts about
cardinalities behind it. `BuildersListed` gives the wake-up: a follower's build is
over, or somebody makes it. `NewEnough` orders start, key, content and version of a
request: a build's content is as new as its key, so at the second read of the
version the two are the same when no change came between.

**The agent page.** `PageInv` ties the requests to the route. `LoadFollows` says that a
detail on screen has exactly the load of its route and picker in force, and that every
other view has none: each way into a detail begins a load and each way out of it, a
hidden tab too, cancels. An answer that may still paint is therefore of that load, which
makes `ChartsFollow` inductive and every paint a `Show` of `LatestLoad`; a stale
continuation is a stutter. `NavFollows` has the panels, which get a node only when the
detail shows another agent than the last time: they stay on the agent opened last.

**The Agent Hub.** `HubInv` adds to the types what the editors rely on. A copy of a note
or a nickname that differs from the server's has a save on its way that the server has
stored, or was raced (`CopiesFollow`). That the answer of the save heals the copy needs
that the server still has what it stored (`StoredLast`), which only a second save of the
field can undo, and two saves of a field at once are the race that the property names
(`SavesApart`). An editor is open for the current agent only, because every change of
the route closes it (`CurrentFollows`), so a save is made for the agent it was typed for.

**The public pages.** The page with the script is proved as the agent page is
(`ScriptInv`); the bar and the load agree although another tab may store other hours,
because a range that is not offered is replaced before it is used, by one that is
(`SmallestIsIn`). The React application cancels nothing, so its invariant `AppInv` is
about the order of the answers: as long as the latest request is pending, it is the last
of those under way and is for what is on screen (`PageAsked`, `SeriesAsked`), and any
answer that comes after it leaves it overtaken. `PublicPagesAreSettled` is of the
composition that the run checks.

**The views of the panels.** They share no state, so `ViewsInv` is one invariant for
each, kept by the steps of its view and untouched by those of the others (`EachView`).
The chart and the events cancel nothing, so what they show was asked for since they
were last at rest, and: as long as the newest request is pending it is
the last under way and is for the selection of now, which every change of the selection
restores by asking again (`ChartAsked`, `EventsAsked`). Rules and their form are about
the calls that do not cross: what the list shows of a rule is what the server has unless
a change of it is on its way or crossed a read (`RulesFollow`), and a form that is
complete has read the rule of its route (`LastAsk`, `Complete`). The order of a status
page's agents holds each chosen agent once (`InStep`), through filters, joins, drags and
permutations; the lemmas about it count, because no induction over the length of a
sequence can be had here. That a page of monitors below the total is not empty rests on
`Ranks`: the elements of a finite set of numbers have the ranks from 1 to its size. The
list is current because an answer that was read shows the monitors there are or a
reading carried others (`AnswerCurrent`), in which case the next reading asks again. The
dialog opens for the request of the current generation, which is for what was asked last
(`OpFollows`), and while the look-up of a target is pending nothing is saved
(`LookupFollows`).

**The pages of the panels.** `PanelPagesInv` has one invariant for each page and part.
The history cancels its loads, so the one under way is for the filters, page and agent
of now (`LoadIsForKey`), and a closed panel has none (`ClosedIsIdle`). In the form of a
status page the order holds each checked server once, and so do the rows during a drag
(`Holds`); filtering, filling in and putting back a row are shown to keep that by
counting, as in the views, and so what is submitted passes through `ParseAgentsOrder`
unchanged. `EntriesAt` describes filtering by positions, not by recursion, for that
reason. Of a rename, the server has the stored name while its answer is on its way and
the name in the row otherwise (`NamesFollow`); agents that had two renames at once or
lost an answer are the exception that `RowsAgree` names. That bands and breaks agree
does not depend on how samples came about: `PassesAgree` compares the two passes for
any samples with a latest one, and needs only that a gap that is marked is longer than
two steps (`ThresholdsLeaveRoom`). What is proved of the last dot needs a second sample;
of a single one it is proved that the dot is always there. The newest label always finds room, because each
label before it is only drawn where it leaves that room (`RoomForNewest`).

**Only model-checked.** Liveness and fairness (`AttemptsSettle`, `OutageRaisesAlarm`,
`RecoveryClearsAlarm`, `NobodyWaitsForever`, and the properties of the pages that end in
"Heal" or "Heals") are out of the prover's reach. The two violations below are TLC's
counterexamples.

## What the code does otherwise

Two runs show that the code does not do what a document or a comment says:

* `telemetry_late`, `RecoveryEnds`: a report older than the newest stored sample is
  journaled and counted before the TSDB refuses it, stays pending for ever, and
  makes `RecoverIngestion`, and with it every start of the server, fail
  (`docs/security-and-rollout.md:33` promises that recovery retries).
* `sync_retry`, `FailedSyncIsRetried`: a synchronization without `force` returns when
  nothing is pending (`networkservice/service.go:90`). When a forced one of an
  acknowledged generation failed, its error stays ("retry pending"), and no later
  report sends the configuration again, although the comment at `beszel_ws.go:154`
  says that reports retry what an earlier failure left pending.

Other behaviours the models have, of which no run states a property because the
code promises none that would hold:

* `AlertUpdate` drops the row of an agent that leaves a rule and keeps its incident
  open; nothing resolves it afterwards (`store/sqlite/alert.go:309`).
* A crash between `AlertResolve` and `AlertAttemptQueue` loses the recovery message
  (`routine/alert.go:37-40`).
* A crash between `AlertTrigger` and `AlertAttemptQueue` leaves an open incident that
  is marked unknown, has no attempt and is refused by both retry endpoints
  (`routine/alert.go:22-25`, `alert/retry.go:43`). An error of the second call leaves it
  marked pending until a restart, when the same becomes of it.
* When the store refuses the outcome of a delivery, its attempt stays pending, and when
  it refuses the claim, queued, until a restart marks it unknown
  (`alertdelivery/delivery.go:31-34`, `:67-70`); nobody can retry the phase before that.
* The routine's retry, working from an old list, writes `skipped` over a success a
  manual retry recorded since (`routine/alert.go:90`). `NotifiedAgrees` is what does
  hold: success and failed are never shown without such an attempt.
* `NetworkEvaluate` returns no notices when one of its monitors fails
  (`store/sqlite/network_alerts.go:190-199`), and `Evaluate` hands none over
  (`networkservice/service.go:288`): those queued for earlier monitors stay queued
  until a restart marks them unknown.
* A chart with one sample and a late end has a band for the time after the sample
  (`lib/chart/series.js:60-69`) and still the dot that marks a value as current
  (`series.js:75`, `chart/canvas/layers.js:105-108`).
* Previous, pressed again before the answer, takes the list of monitors to page 0, and it
  prints "-24–0 of N" over the rows of the first page until a page is turned
  (`network_monitors/mount.js:182`, `list/render.js:54`).
* An answer of the network list that saw monitors which no reading of the feed ever
  carried, because they changed again before the next reading or before the first, stays
  although it is out of date (`network_monitors/mount.js:210`).
* In the Agent Hub the answer of a save is applied to the agent that is open by then
  (`editing/rename.js:60`): the copy of the other is left as it was, and that of the open
  one is wrong until the metadata are read again; a note is wrong until the page is
  loaded again.
* In the React panel an answer of a chart that was overtaken may come last, and the chart
  shows the agent or range of before until the next change (`AgentDetail.tsx:354`); the
  events do the same.
* In the React panel the nickname editor carries its text to another agent when a link
  leads there, and two answers of the events page that each turn the other's page can
  go on asking each other for ever.

## What is not modelled

* Cumulative counters and their baseline in memory (`agent/normalize.go`), samples
  without a `SourceID`, provisioning and SSH keys.
* `Accept`, `commit` and `Recover` of the network service, which journal network
  results the way `TelemetryJournal` shows for telemetry; quotas and listings.
* Eviction from the metrics cache, averages and downsampling.
* Sessions, setup, passwords, request limits, dashboards' own transactions: small
  and without interleaving of their own.
* Steps that are simpler than the code, each without an effect on what is stated:
  deliveries of network notices do not repeat the checks of
  `incident_capabilities.go:11-25`; the second reading of the version and the storing of
  a built answer are one step (`handler.go:329-333`), because a version that changed
  between the two only leaves an answer under a key that nobody asks for; a metadata
  refresh with an empty nickname keeps the old one (`hub.js:22`), but the server accepts
  no empty nickname; the list of status pages is loaded, fails or deletes in one step;
  the size of the monitors' page is fixed (`mount.js:176-180`); and a graph's history
  that was read and is empty looks as one that was not (`graph.js:109-113`), as only a
  message tells them apart.
* Report parsers, templates, payloads, compression, assets, commands: computation
  and I/O without state.
* Of the pages: the bundles built from `web/src/js`, a page restored from the back
  and forward cache, the hero, the sparklines and the grouping of the network
  monitors, scroll positions, focus, tooltips, number formats, the install,
  uninstall and target dialogs, the settings, and a rule's form that is moved
  between ids while it saves.

Next: what is left are the components above that are listed as not modelled; the
journal of network results and the baseline of cumulative counters would come first.
