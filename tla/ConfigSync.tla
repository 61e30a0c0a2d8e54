------------------------------ MODULE ConfigSync ------------------------------
(***************************************************************************)
(* How an agent comes to run the network monitors that are stored for it   *)
(* (internal/networkservice/service.go, store/sqlite/network.go): every    *)
(* change raises the agent's desired generation, is pushed to the          *)
(* connected agent as one operation, and is followed by a synchronization  *)
(* that sends the whole set and acknowledges the generation it read.  A    *)
(* reconnect synchronizes always, a report of the agent only what is       *)
(* pending.                                                                *)
(*                                                                         *)
(* One agent.  A goroutine is a pusher; a stored monitor that is paused or *)
(* archived is Off.  The socket and the agent are external: requests are   *)
(* handled in their order, and are lost with their connection.             *)
(***************************************************************************)
EXTENDS Integers, Sequences, FiniteSets

CONSTANTS
  Probes,          \* monitor ids
  Settings,        \* configurations of a monitor
  Pushers,         \* goroutines at work at a time (a bound)
  MaxInbox,        \* requests the socket takes before the agent does
  MaxChanges,      \* bound on committed changes
  Hubs             \* connections of the agent that something still refers to (a bound)

Off    == "off"
Nobody == "nobody"

ASSUME NobodyAssumption == Nobody \notin Pushers \cup Hubs \cup Probes

Group  == [id |-> Nobody, setting |-> Off]   \* a change of a group pushes no operation
NoPush == [at |-> "idle"]

ProbeSets == [Probes -> Settings \cup {Off}]
NoProbes  == [m \in Probes |-> Off]

VARIABLES
  storedProbes,   \* network_monitors: what each id is configured to
  desired,        \* network_monitor_sync.desired_generation, 0 without a row
  acked,          \* network_monitor_sync.ack_generation
  syncError,      \* network_monitor_sync.error is set
  link,           \* the hub that is registered, or Nobody
  supports,       \* the settings the agent reports it can apply
  inbox,          \* requests on their way to the agent
  runs,           \* the monitors the agent runs
  push,           \* the state of each goroutine
  syncLock,       \* who holds the agent's stripe of syncLocks
  unrecorded      \* a synchronization failed without a trace since the last success

syncVars == <<storedProbes, desired, acked, syncError, link, supports, inbox,
              runs, push, syncLock, unrecorded>>

SyncInit ==
  /\ storedProbes = NoProbes
  /\ desired = 0 /\ acked = 0 /\ syncError = FALSE
  /\ link = Nobody /\ supports = Settings
  /\ inbox = <<>> /\ runs = NoProbes
  /\ push = [p \in Pushers |-> NoPush]
  /\ syncLock = Nobody /\ unrecorded = FALSE

SyncStart(hub, forced) == [at |-> "sync", on |-> hub, force |-> forced]

Free(p) == push[p] = NoPush
Moves(p, state) == push' = [push EXCEPT ![p] = state]

\* The goroutine ends; every return of Sync releases the lock.
Ends(p) == Moves(p, NoPush) /\ syncLock' = Nobody

-----------------------------------------------------------------------------
(* Changes of what is stored *)

\* Whether an agent with these capabilities may be given the setting; a monitor may
\* always be turned off.
Supported(c) == c = Off \/ c \in supports

\* NetworkCreate, editMonitor and NetworkArchive, or their likes in
\* NetworkEditGroup: one monitor gets another setting.  An edit that replaces a
\* monitor's identity turns the old id off.  The operation that is pushed names the
\* new id only.
Commit(p, m, c, replaced, op) ==
  /\ Free(p)
  /\ desired < MaxChanges
  /\ Supported(c)
  /\ replaced # m
  /\ replaced # Nobody => storedProbes[m] = Off /\ storedProbes[replaced] # Off
  /\ storedProbes' = [n \in Probes |-> CASE n = m        -> c
                                         [] n = replaced -> Off
                                         [] OTHER        -> storedProbes[n]]
  /\ desired' = desired + 1
  /\ syncError' = FALSE
  /\ Moves(p, [at |-> "committed", op |-> op])
  /\ UNCHANGED <<acked, link, supports, inbox, runs, syncLock, unrecorded>>

\* Changed: an agent that is not connected synchronizes when it reconnects, one whose
\* lookups fail when it reports.
Changed(p) ==
  /\ push[p].at = "committed"
  /\ \/ /\ link # Nobody
        /\ Moves(p, IF push[p].op = Group THEN SyncStart(link, TRUE)
                    ELSE [at |-> "apply", on |-> link, op |-> push[p].op])
     \/ Moves(p, NoPush)
  /\ UNCHANGED <<storedProbes, desired, acked, syncError, link, supports, inbox,
                 runs, syncLock, unrecorded>>

-----------------------------------------------------------------------------
(* Requests *)

\* Hub.Send: a connection that is gone refuses at once, one whose agent takes nothing
\* when the time for the write is over.
Sends(p, waiting, request) ==
  /\ syncLock' = p
  /\ IF push[p].on = link /\ Len(inbox) < MaxInbox
     THEN /\ inbox' = Append(inbox, [from |-> p, sets |-> request])
          /\ Moves(p, [waiting EXCEPT !.at = "waiting"])
     ELSE /\ inbox' = inbox
          /\ Moves(p, [waiting EXCEPT !.at = "refused"])

\* applyIncremental takes the lock and sends its operation.
ApplyIncremental(p) ==
  /\ push[p].at = "apply"
  /\ syncLock = Nobody
  /\ Sends(p, [at |-> "apply", on |-> push[p].on, full |-> FALSE],
           [m \in {push[p].op.id} |-> push[p].op.setting])
  /\ UNCHANGED <<storedProbes, desired, acked, syncError, link, supports, runs,
                 unrecorded>>

\* The agent handles the oldest request, or fails it; what it is given replaces its
\* set or sets the ids that are named.
AgentHandles ==
  /\ inbox # <<>>
  /\ inbox' = Tail(inbox)
  /\ \E done \in BOOLEAN :
       /\ runs' = IF ~done THEN runs
                  ELSE [m \in Probes |-> IF m \in DOMAIN Head(inbox).sets
                                         THEN Head(inbox).sets[m] ELSE runs[m]]
       /\ push' = [p \in Pushers |->
                    IF p = Head(inbox).from
                    THEN [push[p] EXCEPT !.at = IF done THEN "answered" ELSE "refused"]
                    ELSE push[p]]
  /\ UNCHANGED <<storedProbes, desired, acked, syncError, link, supports,
                 syncLock, unrecorded>>

\* A request runs out of time or loses its connection; its answer is forgotten, the
\* request itself may still be handled.
GiveUp(p) ==
  /\ push[p].at = "waiting"
  /\ Moves(p, [push[p] EXCEPT !.at = "refused"])
  /\ inbox' = [i \in DOMAIN inbox |->
                IF inbox[i].from = p THEN [inbox[i] EXCEPT !.from = Nobody] ELSE inbox[i]]
  /\ UNCHANGED <<storedProbes, desired, acked, syncError, link, supports, runs,
                 syncLock, unrecorded>>

\* However the operation ended, the full synchronization follows.
Incremented(p) ==
  /\ push[p].at \in {"answered", "refused"}
  /\ ~push[p].full
  /\ Moves(p, SyncStart(push[p].on, TRUE))
  /\ syncLock' = Nobody
  /\ UNCHANGED <<storedProbes, desired, acked, syncError, link, supports, inbox,
                 runs, unrecorded>>

-----------------------------------------------------------------------------
(* Sync *)

\* Mutant of ReadGeneration: what is pending is sent only when forced.
ReadForcedOnly(p) ==
  /\ push[p].at = "sync"
  /\ syncLock = Nobody
  /\ IF supports = {} THEN Moves(p, NoPush) /\ UNCHANGED syncLock
     ELSE /\ Moves(p, [at |-> "read", on |-> push[p].on, caps |-> supports,
                       due |-> push[p].force, gen |-> desired])
          /\ syncLock' = p
  /\ UNCHANGED <<storedProbes, desired, acked, syncError, link, supports, inbox,
                 runs, unrecorded>>

\* Sync looks the agent and its capabilities up, and NetworkConfigs reads the
\* generations.
ReadGeneration(p) ==
  /\ push[p].at = "sync"
  /\ syncLock = Nobody
  /\ IF supports = {} THEN Moves(p, NoPush) /\ UNCHANGED syncLock
     ELSE /\ Moves(p, [at |-> "read", on |-> push[p].on, caps |-> supports,
                       due |-> push[p].force \/ desired # acked, gen |-> desired])
          /\ syncLock' = p
  /\ UNCHANGED <<storedProbes, desired, acked, syncError, link, supports, inbox,
                 runs, unrecorded>>

\* A lookup fails, for one because the context ran out while the lock was waited for:
\* nothing is recorded.
LookupFails(p) ==
  /\ push[p].at = "sync" /\ syncLock = Nobody
  /\ Moves(p, NoPush)
  /\ unrecorded' = TRUE
  /\ UNCHANGED <<storedProbes, desired, acked, syncError, link, supports, inbox,
                 runs, syncLock>>

\* NetworkConfigs' second query, and what Sync makes of the two: an acknowledged
\* generation is sent only when forced, a set the agent cannot apply never.
ReadConfigs(p) ==
  /\ push[p].at = "read"
  /\ IF push[p].due /\ \A m \in Probes : storedProbes[m] \in push[p].caps \cup {Off}
     THEN Sends(p, [at |-> "read", on |-> push[p].on, full |-> TRUE, gen |-> push[p].gen],
                storedProbes)
     ELSE Ends(p) /\ UNCHANGED inbox
  /\ UNCHANGED <<storedProbes, desired, acked, syncError, link, supports, runs,
                 unrecorded>>

\* Mutant of NetworkAck: whatever is desired by now is acknowledged.
NetworkAckDesired(p) ==
  /\ IF push[p].at = "answered"
     THEN /\ acked' = desired
          /\ syncError' = FALSE
          /\ unrecorded' = FALSE
     ELSE /\ syncError' = (syncError \/ (desired > 0 /\ push[p].gen = desired))
          /\ UNCHANGED <<acked, unrecorded>>

\* NetworkAck: a success acknowledges the generation that was read, whatever was
\* changed since; a failure counts only for the generation that is still desired.
\* Without a row, when nothing was ever changed, nothing is updated.
NetworkAck(p) ==
  /\ IF push[p].at = "answered"
     THEN /\ acked' = IF push[p].gen > acked THEN push[p].gen ELSE acked
          /\ syncError' = FALSE
          /\ unrecorded' = FALSE
     ELSE /\ syncError' = (syncError \/ (desired > 0 /\ push[p].gen = desired))
          /\ UNCHANGED <<acked, unrecorded>>

Synced(p) ==
  /\ push[p].at \in {"answered", "refused"}
  /\ push[p].full
  /\ NetworkAck(p)
  /\ Ends(p)
  /\ UNCHANGED <<storedProbes, desired, link, supports, inbox, runs>>

\* The acknowledgement cannot be written.
AckFails(p) ==
  /\ push[p].at \in {"answered", "refused"}
  /\ push[p].full
  /\ Ends(p)
  /\ unrecorded' = TRUE
  /\ UNCHANGED <<storedProbes, desired, acked, syncError, link, supports, inbox,
                 runs>>

-----------------------------------------------------------------------------
(* The connection of the agent *)

\* BeszelWSHandler after the handshake: the runtime is stored, the hub registered, which
\* closes the connection before it, and the configuration synchronized always.  The
\* agent may have been restarted, into a version that can do more or less.
Connect(p, hub) ==
  /\ Free(p)
  /\ hub # link
  /\ \A q \in Pushers : "on" \in DOMAIN push[q] => push[q].on # hub
  /\ link' = hub
  /\ inbox' = <<>>
  /\ supports' \in SUBSET Settings
  /\ runs' \in {runs, NoProbes}
  /\ Moves(p, SyncStart(hub, TRUE))
  /\ UNCHANGED <<storedProbes, desired, acked, syncError, syncLock, unrecorded>>

Disconnect ==
  /\ link # Nobody
  /\ link' = Nobody
  /\ inbox' = <<>>
  /\ UNCHANGED <<storedProbes, desired, acked, syncError, supports, runs, push,
                 syncLock, unrecorded>>

\* A report of the agent has been ingested: what is pending is synchronized.
Report(p) ==
  /\ Free(p)
  /\ link # Nobody
  /\ Moves(p, SyncStart(link, FALSE))
  /\ UNCHANGED <<storedProbes, desired, acked, syncError, link, supports, inbox,
                 runs, syncLock, unrecorded>>

-----------------------------------------------------------------------------

Commits(p) ==
  \E m \in Probes, c \in Settings \cup {Off}, replaced \in Probes \cup {Nobody} :
    \E op \in {[id |-> m, setting |-> c], Group} : Commit(p, m, c, replaced, op)

Pushes(p) ==
  \/ Changed(p) \/ ApplyIncremental(p) \/ GiveUp(p) \/ Incremented(p)
  \/ ReadGeneration(p) \/ LookupFails(p) \/ ReadConfigs(p) \/ Synced(p) \/ AckFails(p)

SyncNext ==
  \/ \E p \in Pushers : Commits(p) \/ Pushes(p) \/ Report(p)
  \/ \E p \in Pushers, hub \in Hubs : Connect(p, hub)
  \/ AgentHandles \/ Disconnect

\* A goroutine goes on, a request ends by its deadline, a connected agent reports from
\* time to time, and the lookups of a synchronization do not fail forever.  Nothing says
\* that the agent handles a request.
SyncFairness ==
  /\ \A p \in Pushers : WF_syncVars(Pushes(p)) /\ SF_syncVars(ReadGeneration(p))
  /\ WF_syncVars(\E p \in Pushers : Report(p))

SyncSpec == SyncInit /\ [][SyncNext]_syncVars /\ SyncFairness

-----------------------------------------------------------------------------
(* Properties *)

AtRest == inbox = <<>> /\ \A p \in Pushers : push[p].at \in {"idle", "committed"}

SyncTypeOK ==
  /\ storedProbes \in ProbeSets /\ runs \in ProbeSets
  /\ acked <= desired /\ desired \in 0..MaxChanges
  /\ link \in Hubs \cup {Nobody}
  /\ supports \subseteq Settings
  /\ syncLock \in Pushers \cup {Nobody}

\* When all has been pushed and the generation is acknowledged without an error, a
\* connected agent that can apply what is stored runs just that (Sync, Changed,
\* NetworkConfigs, NetworkAck: the order of the two queries, the full set after each
\* operation, the reconnect).  The exception is a synchronization that could not even
\* record its failure.
SyncedMeansApplied ==
  AtRest /\ link # Nobody /\ desired = acked /\ ~syncError /\ ~unrecorded
    /\ (\A m \in Probes : Supported(storedProbes[m])) /\ supports # {}
    => runs = storedProbes

\* The agent stays connected, and can apply what is stored.
Reachable(hub) == link = hub /\ supports # {} /\ \A m \in Probes : Supported(storedProbes[m])

\* A synchronization has got as far as its request.
Requesting ==
  \E p \in Pushers : push[p].at \in {"waiting", "answered", "refused"} /\ push[p].full

\* A change that is not acknowledged waits for the agent that is there to take it.
Unsent == desired # acked /\ \E hub \in Hubs : Reachable(hub)

\* "Retry configuration that is still pending after an earlier failure"
\* (agent/beszel_ws.go:154): "Agent synchronization failed; retry pending", the error
\* says as long as it stands (store/sqlite/network.go:597).
FailedSyncIsRetried ==
  \A hub \in Hubs : <>[](Reachable(hub) /\ syncError) => []<>Requesting
=============================================================================
