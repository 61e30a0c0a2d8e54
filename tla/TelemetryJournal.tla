-------------------------- MODULE TelemetryJournal --------------------------
(***************************************************************************)
(* Telemetry ingestion (internal/agent/ingestion.go) over the SQLite       *)
(* journal (internal/store/sqlite/journal.go), the time series database    *)
(* and the cache of recent samples, with failures at every call, crashes,  *)
(* recovery at start and agents deleted meanwhile.                         *)
(*                                                                         *)
(* A report is one sample with a SourceID. Its number is its source time,  *)
(* which is also what the SourceID is made of; its traffic is the unit of  *)
(* the lifetime counter. Samples without a SourceID have no identity to    *)
(* speak of and are left out.                                              *)
(*                                                                         *)
(* lockAgent admits one ingestion per agent at a time, so there is one job *)
(* per agent. A submission looks its agent up before it waits for the      *)
(* lock: a job may start after its agent was deleted.                      *)
(***************************************************************************)
EXTENDS Naturals, Sequences, FiniteSets

CONSTANTS
  Agents,      \* agents provisioned before the model starts
  MaxReport,   \* bound: reports 1 .. MaxReport of each agent
  MaxBatch,    \* bound: samples in one submission
  MaxCrashes   \* bound: how often the process is killed

ASSUME JournalAssumption ==
  /\ Agents # {}
  /\ MaxReport \in Nat \ {0}
  /\ MaxBatch \in Nat \ {0}
  /\ MaxCrashes \in Nat

VARIABLES
  present,   \* agents: the rows that exist
  journal,   \* ingestion_journal.complete of a report's row, if there is one
  total,     \* agents.total_rx_bytes, in reports
  stored,    \* TSDB: the reports with samples in the agent's series
  cached,    \* metrics.RealtimeCache: the agent's windows, oldest first
  job,       \* the ingestion that holds the agent's lock
  running,   \* RecoverIngestion has returned and the server listens
  revoking,  \* how far RevokeAgentHandler got
  crashes

vars == <<present, journal, total, stored, cached, job, running, revoking,
          crashes>>

Reports == 1 .. MaxReport
Batches == UNION {[1 .. n -> Reports] : n \in 1 .. MaxBatch}
NoReport == 0

Stages == {"idle", "pending", "lookup", "begin", "write", "complete", "cache"}
Jobs == [at : Stages, todo : {<<>>} \cup Batches,
         record : Reports \cup {NoReport}, old : BOOLEAN]
Idle == [at |-> "idle", todo |-> <<>>, record |-> NoReport, old |-> FALSE]

(* One type invariant: every variable holds a value of its kind. *)
TypeOK ==
  /\ present \subseteq Agents
  /\ journal \in [Agents -> [Reports -> {"none", "pending", "complete"}]]
  /\ total \in [Agents -> Nat]
  /\ stored \in [Agents -> SUBSET Reports]
  /\ cached \in [Agents -> Seq(Reports)]
  /\ job \in [Agents -> Jobs]
  /\ running \in BOOLEAN
  /\ revoking \in [Agents -> {"no", "deleted", "purged", "cut short"}]
  /\ crashes \in 0 .. MaxCrashes

Rows(a, s) == {r \in Reports : journal[a][r] = s}
Journaled(a) == {r \in Reports : journal[a][r] # "none"}

-----------------------------------------------------------------------------
(* External: Append of the TSDB, opened with DefaultOptions and so without *)
(* an out-of-order window. A sample no older than the newest of its series *)
(* is accepted, the same sample again too; an older one is an error.       *)
Appendable(a, r) == \A s \in stored[a] : s <= r

Init ==
  /\ present = Agents
  /\ journal = [a \in Agents |-> [r \in Reports |-> "none"]]
  /\ total = [a \in Agents |-> 0]
  /\ stored = [a \in Agents |-> {}]
  /\ cached = [a \in Agents |-> <<>>]
  /\ job = [a \in Agents |-> Idle]
  /\ running = TRUE
  /\ revoking = [a \in Agents |-> "no"]
  /\ crashes = 0

Goes(a, j) == job' = [job EXCEPT ![a] = j]
To(a, stage) == Goes(a, [job[a] EXCEPT !.at = stage])

(* Ingest: a submission takes the agent's lock. *)
Start(a) ==
  /\ running /\ job[a] = Idle
  /\ \E b \in Batches : Goes(a, [Idle EXCEPT !.at = "pending", !.todo = b])
  /\ UNCHANGED <<present, journal, total, stored, cached, running, revoking, crashes>>

Replaying(j, r) == [j EXCEPT !.at = "write", !.record = r, !.old = TRUE]

(* Mutant of FindPending: what is pending is left to the next restart. *)
FindNothing(a) ==
  /\ job[a].at = "pending" /\ To(a, "lookup")
  /\ UNCHANGED <<present, journal, total, stored, cached, running, revoking, crashes>>

(* IngestionPending: records of the agent left pending are replayed, one   *)
(* after the other, before the batch.                                      *)
FindPending(a) ==
  /\ job[a].at = "pending"
  /\ \/ \E r \in Rows(a, "pending") : Goes(a, Replaying(job[a], r))
     \/ Rows(a, "pending") = {} /\ To(a, "lookup")
  /\ UNCHANGED <<present, journal, total, stored, cached, running, revoking, crashes>>

(* The job once its present record is done with: back to the list of       *)
(* pending records, on to the next sample, or finished.                    *)
Advanced(j) ==
  IF j.old /\ j.todo # <<>>
  THEN [j EXCEPT !.at = "pending", !.record = NoReport, !.old = FALSE]
  ELSE IF Len(j.todo) <= 1
  THEN Idle
  ELSE [j EXCEPT !.at = "lookup", !.todo = Tail(@), !.record = NoReport]

(* IngestionGet of the next sample: done before, begun before, or new. *)
LookUp(a) ==
  LET r == Head(job[a].todo) IN
  /\ job[a].at = "lookup"
  /\ Goes(a, CASE journal[a][r] = "complete" -> Advanced(job[a])
               [] journal[a][r] = "pending" ->
                    [job[a] EXCEPT !.at = "write", !.record = r]
               [] OTHER -> [job[a] EXCEPT !.at = "begin", !.record = r])
  /\ UNCHANGED <<present, journal, total, stored, cached, running, revoking, crashes>>

(* Mutant of Begin: the counter and the journal row are two transactions,  *)
(* and the second may fail.                                                *)
BeginInTwo(a) ==
  LET r == job[a].record IN
  /\ job[a].at = "begin" /\ a \in present
  /\ total' = [total EXCEPT ![a] = @ + 1]
  /\ \/ journal' = [journal EXCEPT ![a][r] = "pending"] /\ To(a, "write")
     \/ journal' = journal /\ Goes(a, Idle)
  /\ UNCHANGED <<present, stored, cached, running, revoking, crashes>>

(* Mutant of Begin: the record goes straight to IngestionComplete. *)
BeginThenComplete(a) ==
  LET r == job[a].record IN
  /\ job[a].at = "begin" /\ a \in present
  /\ total' = [total EXCEPT ![a] = @ + 1]
  /\ journal' = [journal EXCEPT ![a][r] = "pending"]
  /\ To(a, "complete")
  /\ UNCHANGED <<present, stored, cached, running, revoking, crashes>>

(* IngestionBegin: the row is inserted unless it is there, and only then   *)
(* the counter grows, in one transaction. A deleted agent fails it.        *)
Begin(a) ==
  LET r == job[a].record
      inserted == journal[a][r] = "none" IN
  /\ job[a].at = "begin" /\ a \in present
  /\ journal' = [journal EXCEPT ![a][r] = IF inserted THEN "pending" ELSE @]
  /\ total' = [total EXCEPT ![a] = IF inserted THEN @ + 1 ELSE @]
  /\ To(a, "write")
  /\ UNCHANGED <<present, stored, cached, running, revoking, crashes>>

(* replayIngestion, WriteStatsToTSDB. *)
Write(a) ==
  LET r == job[a].record IN
  /\ job[a].at = "write" /\ Appendable(a, r)
  /\ stored' = [stored EXCEPT ![a] = @ \cup {r}]
  /\ To(a, "complete")
  /\ UNCHANGED <<present, journal, total, cached, running, revoking, crashes>>

(* replayIngestion, the metadata and heartbeat updates (see Incidents for  *)
(* what a heartbeat does) and IngestionComplete, which finds no row if the *)
(* agent is gone.                                                          *)
Complete(a) ==
  LET r == job[a].record IN
  /\ job[a].at = "complete"
  /\ journal' = [journal EXCEPT ![a][r] = IF @ = "none" THEN @ ELSE "complete"]
  /\ To(a, "cache")
  /\ UNCHANGED <<present, total, stored, cached, running, revoking, crashes>>

(* Mutant of UpdateCache: a replayed record is taken to be cached already. *)
UpdateCacheUnlessOld(a) ==
  /\ job[a].at = "cache"
  /\ cached' = [cached EXCEPT ![a] = IF job[a].old THEN @ ELSE Append(@, job[a].record)]
  /\ Goes(a, Advanced(job[a]))
  /\ UNCHANGED <<present, journal, total, stored, running, revoking, crashes>>

(* RealtimeCache.Update, and the end of replayIngestion. *)
UpdateCache(a) ==
  /\ job[a].at = "cache"
  /\ cached' = [cached EXCEPT ![a] = Append(@, job[a].record)]
  /\ Goes(a, Advanced(job[a]))
  /\ UNCHANGED <<present, journal, total, stored, running, revoking, crashes>>

(* A query, a transaction or an append fails, or the request is cancelled: *)
(* Ingest returns the error and the lock is released.                      *)
Fallible == {"pending", "lookup", "begin", "write", "complete"}
Fail(a) ==
  /\ running /\ job[a].at \in Fallible
  /\ Goes(a, Idle)
  /\ UNCHANGED <<present, journal, total, stored, cached, running, revoking, crashes>>

-----------------------------------------------------------------------------
(* RevokeAgentHandler, AgentDelete: the row goes, and with it the journal  *)
(* and the counter.                                                        *)
AgentDelete(a) ==
  /\ running /\ a \in present
  /\ present' = present \ {a}
  /\ journal' = [journal EXCEPT ![a] = [r \in Reports |-> "none"]]
  /\ total' = [total EXCEPT ![a] = 0]
  /\ revoking' = [revoking EXCEPT ![a] = "deleted"]
  /\ UNCHANGED <<stored, cached, job, running, crashes>>

(* RevokeAgentHandler, tsdb.Delete: done, or an error and left as it is.   *)
(* RealtimeCache.Delete before it drops the live snapshot and the network  *)
(* windows, neither of which is kept here; the windows of cached stay.     *)
Purge(a) ==
  /\ revoking[a] = "deleted"
  /\ \/ /\ stored' = [stored EXCEPT ![a] = {}]
        /\ revoking' = [revoking EXCEPT ![a] = "purged"]
     \/ /\ stored' = stored
        /\ revoking' = [revoking EXCEPT ![a] = "cut short"]
  /\ UNCHANGED <<present, journal, total, cached, job, running, crashes>>

-----------------------------------------------------------------------------
(* What a new process finds: nothing in memory, no handler at work. *)
FreshProcess ==
  /\ job' = [a \in Agents |-> Idle]
  /\ cached' = [a \in Agents |-> <<>>]
  /\ running' = FALSE
  /\ revoking' = [a \in Agents |-> IF revoking[a] = "deleted" THEN "cut short"
                                   ELSE revoking[a]]
  /\ UNCHANGED <<present, journal, total, stored>>

Crash == crashes < MaxCrashes /\ crashes' = crashes + 1 /\ FreshProcess

AllIdle == \A a \in Agents : job[a] = Idle

(* RecoverIngestion: the next pending record, of any agent. *)
RecoverNext(a) ==
  /\ ~running /\ AllIdle
  /\ \E r \in Rows(a, "pending") : Goes(a, Replaying(Idle, r))
  /\ UNCHANGED <<present, journal, total, stored, cached, running, revoking, crashes>>

(* RecoverIngestion returns an error: main exits and is started again. *)
RecoveryFails ==
  /\ ~running /\ \E a \in Agents : job[a].at \in Fallible
  /\ FreshProcess /\ UNCHANGED crashes

(* RecoverIngestion returns, and the server begins to listen. *)
RecoveryDone ==
  /\ ~running /\ AllIdle /\ \A a \in Agents : Rows(a, "pending") = {}
  /\ running' = TRUE
  /\ UNCHANGED <<present, journal, total, stored, cached, job, revoking, crashes>>

Replay(a) == Write(a) \/ Complete(a) \/ UpdateCache(a)

Next ==
  \/ \E a \in Agents :
       \/ Start(a) \/ FindPending(a) \/ LookUp(a) \/ Begin(a) \/ Replay(a)
       \/ Fail(a) \/ AgentDelete(a) \/ Purge(a) \/ RecoverNext(a)
  \/ Crash \/ RecoveryFails \/ RecoveryDone

Spec == Init /\ [][Next]_vars

(* Recovery goes on while the process lives; a write that can succeed does *)
(* not fail for ever.                                                      *)
FairSpec ==
  /\ Spec
  /\ WF_vars(RecoveryDone) /\ WF_vars(RecoveryFails)
  /\ \A a \in Agents : WF_vars(RecoverNext(a)) /\ SF_vars(~running /\ Replay(a))

-----------------------------------------------------------------------------
(* Every report is counted exactly once however often it is submitted,     *)
(* replayed or interrupted: the lifetime counter equals the number of      *)
(* journal rows (IngestionBegin and its callers).                          *)
CountedOnce == \A a \in present : total[a] = Cardinality(Journaled(a))

(* At most one record of an agent waits for its replay: the lock and the   *)
(* replay before every batch in Ingest see to it.                          *)
OnePending == \A a \in Agents : \A r, s \in Rows(a, "pending") : r = s

(* What is counted reaches the series and nothing else does: a completed   *)
(* record is stored, a stored report is journaled (replayIngestion).       *)
StoreAgrees ==
  \A a \in present :
    /\ Rows(a, "complete") \subseteq stored[a]
    /\ stored[a] \subseteq Journaled(a)

(* Between submissions the cached window is the end of the stored series,  *)
(* without a gap or a repetition, so that a history answered from the      *)
(* cache is the one the TSDB would give (RealtimeCache.Update, called last *)
(* by replayIngestion).                                                    *)
CacheAgrees ==
  \A a \in present :
    job[a] = Idle /\ Rows(a, "pending") = {} /\ cached[a] # <<>>
      => LET c == cached[a] IN
         /\ \A i \in 1 .. Len(c) - 1 : c[i] < c[i + 1]
         /\ {c[i] : i \in 1 .. Len(c)} = {s \in stored[a] : c[1] <= s}

(* Recovery comes to an end: RecoverIngestion replays what is pending and  *)
(* the server listens again ("Recovery retries TSDB and metadata writes",  *)
(* docs/security-and-rollout.md:33).                                       *)
RecoveryEnds == ~running ~> running
=============================================================================
