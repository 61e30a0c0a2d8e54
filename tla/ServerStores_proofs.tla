------------------------- MODULE ServerStores_proofs -------------------------
(***************************************************************************)
(* The parts that ServerStores runs: the attempts of an incident form one  *)
(* chain with one outcome, for any incidents and attempts; telemetry is    *)
(* counted once, replayed before anything new and agrees between journal,  *)
(* series and cache, for any agents, reports and crashes; the incidents of *)
(* network monitors agree with their rows and their notices, for any       *)
(* rules, monitors and evaluations; and no token stays cached for an agent *)
(* it was taken from, for any agents, tokens, lookups and handlers.        *)
(***************************************************************************)
EXTENDS DeliveryLedger, TelemetryJournal, NetworkIncidents, IdentityCache,
        FiniteSetTheorems, SequenceTheorems, TLAPS

(***************************************************************************)
(* Part one: the ledger of attempts.                                       *)
(*                                                                         *)
(* The heart of the argument is OnlyLatestLive: whatever is not the latest *)
(* attempt of its phase failed or was interrupted.  Enqueue keeps it       *)
(* because it only follows such an attempt, and no step leaves a settled   *)
(* status.  One outstanding attempt and one success follow from it.        *)
(***************************************************************************)
OnlyLatestLive ==
    \A e, f \in Attempts :
        e < f /\ OfPhase(e, attempt[f].incident, attempt[f].phase)
            => attempt[e].status \in Retryable

NoneBeyond == \A e \in AttemptIds \ Attempts : attempt[e].status = "none"

LedgerInv == LedgerTypeOK /\ NoneBeyond /\ OnlyLatestLive /\ RetryChain

(***************************************************************************)
(* A step that queues nothing moves statuses only, and none of them out of *)
(* a settled status.                                                       *)
(***************************************************************************)
StatusStep ==
    /\ UNCHANGED nAttempts
    /\ attempt' \in [AttemptIds -> [incident : 0..MaxIncidents, phase : Phases,
                                    status : Statuses,
                                    retryOf : 0..MaxAttempts]]
    /\ \A e \in AttemptIds :
          /\ attempt'[e].incident = attempt[e].incident
          /\ attempt'[e].phase = attempt[e].phase
          /\ attempt'[e].retryOf = attempt[e].retryOf
          /\ attempt[e].status \in Settled \cup {"none"}
                => attempt'[e] = attempt[e]

LEMMA StepShape ==
    ASSUME LedgerTypeOK, LedgerNext
    PROVE  \/ StatusStep
           \/ \E i \in IncidentIds, ph \in Phases, p \in 0..MaxAttempts :
                  Enqueue(i, ph, p)
<1> USE DEF AttemptIds, Statuses, Settled, Outstanding, LedgerTypeOK
<1>1. ASSUME NEW e \in AttemptIds, Claim(e) PROVE StatusStep
  BY <1>1 DEF Claim, StatusStep
<1>2. ASSUME NEW e \in AttemptIds, NEW o \in {"success", "failed", "skipped"},
             Settle(e, o)
      PROVE  StatusStep
  BY <1>2 DEF Settle, StatusStep
<1>3. ASSUME NEW S \in SUBSET AttemptIds, Withdraw(S) PROVE StatusStep
  BY <1>3 DEF Withdraw, StatusStep
<1>4. CASE Interrupt
  BY <1>4 DEF Interrupt, StatusStep
<1> QED
  BY <1>1, <1>2, <1>3, <1>4 DEF LedgerNext

LEMMA StatusStepKeeps ==
    ASSUME LedgerInv, StatusStep
    PROVE  LedgerInv'
<1> USE LedgerAssumption DEF LedgerInv, LedgerTypeOK, AttemptIds, Attempts
<1>1. LedgerTypeOK' /\ NoneBeyond'
  BY DEF StatusStep, NoneBeyond
<1>2. ASSUME NEW e \in Attempts PROVE e \in AttemptIds
  OBVIOUS
<1>3. \A e \in AttemptIds : attempt[e].status \in Retryable
                               => attempt'[e] = attempt[e]
  BY DEF StatusStep, Retryable, Settled
<1>4. Attempts' = Attempts
  BY DEF StatusStep
<1>5. OnlyLatestLive'
  BY <1>2, <1>3, <1>4 DEF StatusStep, OnlyLatestLive, OfPhase
<1>6. RetryChain'
  <2> SUFFICES ASSUME NEW e \in Attempts
               PROVE  FollowsFailure(e)' /\ FollowedOnce(e)'
    BY <1>4 DEF RetryChain
  <2> USE DEF RetryChain, FollowsFailure, FollowedOnce, OfPhase, StatusStep
  <2>1. FollowedOnce(e)'
    BY <1>2, <1>4
  <2>2. CASE attempt[e].retryOf = NoAttempt
    BY <1>2, <2>1, <2>2
  <2>3. CASE attempt[e].retryOf # NoAttempt
    <3>1. attempt[e].retryOf \in Attempts
      BY <1>2, <2>3 DEF NoAttempt
    <3> QED
      BY <1>2, <1>3, <2>1, <2>3, <3>1
  <2> QED
    BY <2>2, <2>3
<1> QED
  BY <1>1, <1>5, <1>6

LEMMA EnqueueKeeps ==
    ASSUME LedgerInv, NEW i \in IncidentIds, NEW ph \in Phases,
           NEW p \in 0..MaxAttempts, Enqueue(i, ph, p)
    PROVE  LedgerInv'
<1> DEFINE n == nAttempts + 1
<1> USE LedgerAssumption DEF LedgerInv, LedgerTypeOK, AttemptIds, Attempts,
        IncidentIds
<1>1. /\ n \in AttemptIds
      /\ Attempts' = Attempts \cup {n}
      /\ \A e \in Attempts : e \in AttemptIds /\ e < n
  BY DEF Enqueue
<1>2. /\ attempt'[n] = [incident |-> i, phase |-> ph, status |-> "queued",
                        retryOf |-> p]
      /\ \A e \in AttemptIds \ {n} : attempt'[e] = attempt[e]
  BY <1>1 DEF Enqueue
<1>3. LedgerTypeOK'
  BY DEF Enqueue, Statuses
<1>4. NoneBeyond'
  BY <1>1, <1>2 DEF NoneBeyond
<1>5. \A e \in Attempts : OfPhase(e, i, ph) => attempt[e].status \in Retryable
  <2>1. CASE p = NoAttempt /\ \A e \in Attempts : ~OfPhase(e, i, ph)
    BY <2>1
  <2>2. CASE IsLatest(p, i, ph) /\ attempt[p].status \in Retryable
    BY <2>2, <1>1 DEF IsLatest, OnlyLatestLive, OfPhase
  <2> QED
    BY <2>1, <2>2 DEF Enqueue, MayFollow
<1>6. OnlyLatestLive'
  <2> SUFFICES ASSUME NEW e \in Attempts', NEW f \in Attempts', e < f,
                      OfPhase(e, attempt[f].incident, attempt[f].phase)'
               PROVE  attempt'[e].status \in Retryable
    BY DEF OnlyLatestLive
  <2>1. e # n /\ e \in Attempts
    BY <1>1
  <2>2. attempt'[e] = attempt[e]
    BY <1>1, <1>2, <2>1
  <2>3. CASE f = n
    BY <1>2, <1>5, <2>1, <2>2, <2>3 DEF OfPhase
  <2>4. CASE f # n
    BY <1>1, <1>2, <2>1, <2>2, <2>4 DEF OfPhase, OnlyLatestLive
  <2> QED
    BY <2>3, <2>4
<1>7. \A f \in Attempts : OfPhase(f, i, ph) => attempt[f].retryOf # p
  <2> SUFFICES ASSUME NEW f \in Attempts, OfPhase(f, i, ph),
                      attempt[f].retryOf = p
               PROVE  FALSE
    OBVIOUS
  <2>1. IsLatest(p, i, ph)
    BY DEF Enqueue, MayFollow
  <2>2. p # NoAttempt /\ p < f
    BY <2>1 DEF IsLatest, RetryChain, FollowsFailure, NoAttempt
  <2> QED
    BY <2>1, <2>2 DEF IsLatest
<1>8. p # NoAttempt => /\ p \in Attempts
                       /\ OfPhase(p, i, ph)
                       /\ attempt[p].status \in Retryable
  BY DEF Enqueue, MayFollow, IsLatest
<1>9. RetryChain'
  <2> SUFFICES ASSUME NEW e \in Attempts'
               PROVE  FollowsFailure(e)' /\ FollowedOnce(e)'
    BY DEF RetryChain
  <2> USE DEF OfPhase, FollowsFailure, FollowedOnce
  <2>1. CASE e = n
    <3> DEFINE new == [incident |-> i, phase |-> ph, status |-> "queued",
                       retryOf |-> p]
    <3>0. attempt'[e] = new /\ new.incident = i /\ new.phase = ph
          /\ new.retryOf = p
      BY <1>2, <2>1
    <3> HIDE DEF new
    <3>1. FollowsFailure(e)'
      <4>1. CASE p = NoAttempt
        BY <3>0, <4>1
      <4>2. CASE p # NoAttempt
        <5>1. p < n /\ p \in AttemptIds \ {n} /\ attempt'[p] = attempt[p]
          BY <1>1, <1>2, <1>8, <4>2
        <5> QED
          BY <1>8, <2>1, <3>0, <4>2, <5>1
      <4> QED
        BY <4>1, <4>2
    <3>2. FollowedOnce(e)'
      BY <1>1, <1>2, <1>7, <2>1
    <3> QED
      BY <3>1, <3>2
  <2>2. CASE e # n
    <3>1. e \in Attempts /\ e \in AttemptIds /\ attempt'[e] = attempt[e]
      BY <1>1, <1>2, <2>2
    <3>2. attempt[e].retryOf # NoAttempt => attempt[e].retryOf \in Attempts
      <4>1. attempt[e].retryOf \in 0..MaxAttempts
        BY <3>1
      <4>2. attempt[e].retryOf # NoAttempt => attempt[e].retryOf < e
        BY <3>1 DEF RetryChain
      <4> QED
        BY <3>1, <4>1, <4>2 DEF NoAttempt
    <3>3. FollowsFailure(e)'
      BY <1>1, <1>2, <3>1, <3>2 DEF RetryChain
    <3>4. FollowedOnce(e)'
      <4> SUFFICES ASSUME NEW f \in Attempts',
                          attempt'[f].incident = attempt'[e].incident,
                          attempt'[f].phase = attempt'[e].phase,
                          attempt'[f].retryOf = attempt'[e].retryOf
                   PROVE  f = e
        OBVIOUS
      <4>1. CASE f = n
        BY <1>2, <1>7, <3>1, <4>1
      <4>2. CASE f # n
        BY <1>1, <1>2, <3>1, <4>2 DEF RetryChain
      <4> QED
        BY <4>1, <4>2
    <3> QED
      BY <3>3, <3>4
  <2> QED
    BY <2>1, <2>2
<1> QED
  BY <1>3, <1>4, <1>6, <1>9

LEMMA LedgerInvInit == LedgerInit => LedgerInv
  BY LedgerAssumption
  DEF LedgerInit, LedgerInv, LedgerTypeOK, NoneBeyond, OnlyLatestLive,
      RetryChain, FollowsFailure, FollowedOnce, Absent, Attempts, AttemptIds,
      Phases, Statuses, NoAttempt, NoIncident

LEMMA LedgerInvNext == LedgerInv /\ [LedgerNext]_ledgerVars => LedgerInv'
<1> SUFFICES ASSUME LedgerInv, [LedgerNext]_ledgerVars PROVE LedgerInv'
  OBVIOUS
<1>1. CASE LedgerNext
  BY <1>1, StepShape, StatusStepKeeps, EnqueueKeeps DEF LedgerInv
<1>2. CASE UNCHANGED ledgerVars
  BY <1>2 DEF ledgerVars, LedgerInv, LedgerTypeOK, NoneBeyond, OnlyLatestLive,
              RetryChain, FollowsFailure, FollowedOnce, Attempts, OfPhase
<1> QED
  BY <1>1, <1>2

(***************************************************************************)
(* Statuses, incidents and retries are always of their types, and what is  *)
(* not the latest attempt of its phase is failed or interrupted.           *)
(***************************************************************************)
THEOREM LedgerInvariant == LedgerSpec => []LedgerInv
  BY LedgerInvInit, LedgerInvNext, PTL DEF LedgerSpec

(***************************************************************************)
(* Never are two attempts of one phase queued or being sent.               *)
(***************************************************************************)
THEOREM LedgerOneOutstanding == LedgerSpec => []OneOutstanding
<1>1. LedgerInv => OneOutstanding
  BY LedgerAssumption DEF LedgerInv, LedgerTypeOK, OnlyLatestLive,
     OneOutstanding, OfPhase, Attempts, Outstanding, Retryable
<1> QED
  BY <1>1, LedgerInvariant, PTL

(***************************************************************************)
(* The attempts of a phase form one chain.                                 *)
(***************************************************************************)
THEOREM LedgerRetryChain == LedgerSpec => []RetryChain
<1>1. LedgerInv => RetryChain
  BY DEF LedgerInv
<1> QED
  BY <1>1, LedgerInvariant, PTL

(***************************************************************************)
(* A phase that was delivered is never attempted again.                    *)
(***************************************************************************)
THEOREM LedgerOneSuccess == LedgerSpec => []OneSuccess
<1>1. LedgerInv => OneSuccess
  BY LedgerAssumption DEF LedgerInv, LedgerTypeOK, OnlyLatestLive, OneSuccess,
     OfPhase, IsLatest, Attempts, Retryable
<1> QED
  BY <1>1, LedgerInvariant, PTL

(***************************************************************************)
(* The two together: the attempts of a phase are one chain of retries,     *)
(* which a success ends.                                                   *)
(***************************************************************************)
THEOREM LedgerOneChain == LedgerSpec => []OneChain
  BY LedgerRetryChain, LedgerOneSuccess, PTL DEF OneChain

(***************************************************************************)
(* An outcome, once recorded, is never rewritten.                          *)
(***************************************************************************)
THEOREM LedgerOutcomesAreFinal == LedgerSpec => OutcomesAreFinal
<1> DEFINE Final ==
        \A e \in Attempts :
            /\ attempt[e].status \in Settled => attempt'[e] = attempt[e]
            /\ attempt'[e] = [attempt[e] EXCEPT !.status = attempt'[e].status]
<1>1. LedgerInv /\ [LedgerNext]_ledgerVars => [Final]_ledgerVars
  <2> SUFFICES ASSUME LedgerInv, LedgerNext, NEW e \in Attempts
               PROVE  /\ attempt[e].status \in Settled
                            => attempt'[e] = attempt[e]
                      /\ attempt'[e] =
                            [attempt[e] EXCEPT !.status = attempt'[e].status]
    OBVIOUS
  <2>1. e \in AttemptIds
    BY LedgerAssumption DEF LedgerInv, LedgerTypeOK, Attempts, AttemptIds
  <2>2. CASE StatusStep
    BY <2>1, <2>2 DEF StatusStep, LedgerInv, LedgerTypeOK
  <2>3. ASSUME NEW i \in IncidentIds, NEW ph \in Phases,
               NEW p \in 0..MaxAttempts, Enqueue(i, ph, p)
        PROVE  attempt'[e] = attempt[e]
    BY <2>1, <2>3, LedgerAssumption
    DEF Enqueue, LedgerInv, LedgerTypeOK, Attempts, AttemptIds
  <2>4. attempt[e] = [attempt[e] EXCEPT !.status = attempt[e].status]
    BY <2>1 DEF LedgerInv, LedgerTypeOK
  <2> QED
    BY <2>2, <2>3, <2>4, StepShape DEF LedgerInv
<1> QED
  BY <1>1, LedgerInvariant, PTL DEF LedgerSpec, OutcomesAreFinal

-----------------------------------------------------------------------------
(***************************************************************************)
(* Part two: the journal.                                                  *)
(*                                                                         *)
(* Linked says what an ingestion may rely on at each stage: once past the  *)
(* replay of old records there is none pending, and what it writes or      *)
(* completes is its own pending record, unless the agent was deleted.      *)
(***************************************************************************)
NonePending(a) == \A r \in Reports : journal[a][r] # "pending"

Linked ==
  \A a \in Agents :
    /\ job[a].todo # <<>> => running
    /\ job[a].at \in {"pending", "lookup", "begin"} => job[a].todo # <<>>
    /\ job[a].at \in {"begin", "write", "complete", "cache"}
         => job[a].record \in Reports
    /\ job[a].at \in {"lookup", "begin", "cache"} => NonePending(a)
    /\ job[a].at = "begin" => journal[a][job[a].record] = "none"
    /\ job[a].at \in {"write", "complete"} /\ a \in present
         => journal[a][job[a].record] = "pending"
    /\ job[a].at = "complete" /\ a \in present => job[a].record \in stored[a]
    /\ revoking[a] = "deleted" => a \notin present
    /\ a \notin present => \A r \in Reports : journal[a][r] = "none"

(* StoreAgrees, report by report. *)
StoredRows ==
  \A a \in present : \A r \in Reports :
    /\ journal[a][r] = "complete" => r \in stored[a]
    /\ r \in stored[a] => journal[a][r] # "none"

Sound == TypeOK /\ Linked /\ OnePending /\ StoredRows

LEMMA BatchFacts ==
  ASSUME NEW b \in Batches
  PROVE  /\ Head(b) \in Reports /\ b # <<>> /\ Len(b) \in Nat
         /\ Len(b) > 1 => Tail(b) \in Batches
<1>1. PICK n \in 1 .. MaxBatch : b \in [1 .. n -> Reports]
  BY DEF Batches
<1>2. n \in Nat /\ n >= 1 /\ b \in Seq(Reports) /\ Len(b) = n
  BY <1>1, JournalAssumption
<1>3. Head(b) \in Reports /\ b # <<>>
  BY <1>1, <1>2
<1>4. ASSUME n > 1 PROVE Tail(b) \in Batches
  <2>1. Tail(b) \in Seq(Reports) /\ Len(Tail(b)) = n - 1
    BY <1>2, <1>3, HeadTailProperties
  <2>2. Tail(b) \in [1 .. n - 1 -> Reports]
    BY <2>1, LenProperties
  <2>3. n - 1 \in 1 .. MaxBatch
    BY <1>1, <1>4, JournalAssumption
  <2> QED
    BY <2>2, <2>3 DEF Batches
<1> QED
  BY <1>2, <1>3, <1>4

(***************************************************************************)
(* What Advanced returns is a job, and one that may go on where it is.     *)
(***************************************************************************)
LEMMA AdvancedFacts ==
  ASSUME NEW j \in Jobs
  PROVE  /\ Advanced(j) \in Jobs
         /\ Advanced(j).at \in {"idle", "pending", "lookup"}
         /\ Advanced(j).at # "idle" => Advanced(j).todo # <<>>
         /\ Advanced(j).todo # <<>> => j.todo # <<>>
<1>1. CASE j.todo = <<>>
  BY <1>1 DEF Advanced, Idle, Jobs, Stages
<1>2. CASE j.todo \in Batches
  <2>1. /\ j.todo # <<>> /\ Len(j.todo) \in Nat
        /\ Len(j.todo) > 1 => Tail(j.todo) \in Batches /\ Tail(j.todo) # <<>>
    BY <1>2, BatchFacts
  <2>2. CASE j.old \/ Len(j.todo) <= 1
    BY <1>2, <2>1, <2>2 DEF Advanced, Idle, Jobs, Stages
  <2>3. CASE ~j.old /\ Len(j.todo) > 1
    <3>1. Advanced(j) = [j EXCEPT !.at = "lookup", !.todo = Tail(j.todo),
                                  !.record = NoReport]
      BY <2>1, <2>3 DEF Advanced, Jobs
    <3> QED
      BY <1>2, <2>1, <2>3, <3>1 DEF Jobs, Stages
  <2> QED
    BY <2>1, <2>2, <2>3
<1> QED
  BY <1>1, <1>2 DEF Jobs

LEMMA InitSound == Init => Sound
<1> SUFFICES ASSUME Init PROVE Sound
  OBVIOUS
<1>1. TypeOK
  BY JournalAssumption DEF Init, TypeOK, Jobs, Idle, Stages
<1>2. Linked /\ OnePending /\ StoredRows
  BY DEF Init, Linked, OnePending, StoredRows, Idle, NonePending, Rows
<1> QED
  BY <1>1, <1>2 DEF Sound

(***************************************************************************)
(* Steps that only move a job.                                             *)
(***************************************************************************)
Stored == <<present, journal, total, stored, running, revoking, crashes>>

LEMMA JobStep ==
  ASSUME Sound, NEW a \in Agents, UNCHANGED Stored,
         cached' \in [Agents -> Seq(Reports)],
         NEW j \in Jobs, job' = [job EXCEPT ![a] = j],
         j.todo # <<>> => running,
         j.at \in {"pending", "lookup", "begin"} => j.todo # <<>>,
         j.at \in {"begin", "write"} => j.record \in Reports,
         j.at \in {"idle", "pending", "lookup", "begin", "write"},
         j.at \in {"lookup", "begin"} => NonePending(a),
         j.at = "begin" => journal[a][j.record] = "none",
         j.at = "write" => journal[a][j.record] = "pending"
  PROVE  Sound'
<1>1. TypeOK'
  BY DEF Sound, TypeOK, Stored
<1>2. Linked'
  BY DEF Sound, TypeOK, Linked, Stored, NonePending
<1>3. OnePending' /\ StoredRows'
  BY DEF Sound, OnePending, StoredRows, Stored, Rows
<1> QED
  BY <1>1, <1>2, <1>3 DEF Sound

LEMMA StartSound ==
  ASSUME Sound, NEW a \in Agents, Start(a) PROVE Sound'
<1>1. PICK b \in Batches : Goes(a, [Idle EXCEPT !.at = "pending", !.todo = b])
  BY DEF Start
<1> DEFINE j == [Idle EXCEPT !.at = "pending", !.todo = b]
<1>2. j \in Jobs /\ j.at = "pending" /\ j.todo # <<>>
  BY <1>1, BatchFacts DEF Jobs, Idle, Stages
<1>3. UNCHANGED Stored /\ running /\ job' = [job EXCEPT ![a] = j]
  BY <1>1 DEF Start, Stored, Goes
<1>4. cached' \in [Agents -> Seq(Reports)]
  BY DEF Start, Sound, TypeOK
<1> HIDE DEF j
<1> QED
  BY <1>2, <1>3, <1>4, JobStep

LEMMA ReplayingFacts ==
  ASSUME Sound, NEW a \in Agents, NEW r \in Rows(a, "pending"),
         NEW old \in Jobs, old.todo # <<>> => running,
         Goes(a, Replaying(old, r)), UNCHANGED Stored, UNCHANGED cached
  PROVE  Sound'
<1> DEFINE j == Replaying(old, r)
<1>1. j \in Jobs /\ j.at = "write" /\ j.record = r /\ j.todo = old.todo
  BY DEF Jobs, Replaying, Rows, Stages
<1>2. r \in Reports /\ journal[a][r] = "pending"
  BY DEF Rows
<1>3. job' = [job EXCEPT ![a] = j] /\ cached' \in [Agents -> Seq(Reports)]
  BY DEF Goes, Sound, TypeOK
<1> HIDE DEF j
<1> QED
  BY <1>1, <1>2, <1>3, JobStep

LEMMA FindPendingSound ==
  ASSUME Sound, NEW a \in Agents, FindPending(a) PROVE Sound'
<1> USE DEF Sound
<1>1. job[a] \in Jobs /\ job[a].todo # <<>> /\ running /\ UNCHANGED Stored
      /\ UNCHANGED cached
  BY DEF FindPending, TypeOK, Linked, Stored
<1>2. CASE \E r \in Rows(a, "pending") : Goes(a, Replaying(job[a], r))
  BY <1>1, <1>2, ReplayingFacts
<1>3. CASE Rows(a, "pending") = {} /\ To(a, "lookup")
  <2> DEFINE j == [job[a] EXCEPT !.at = "lookup"]
  <2>1. j \in Jobs /\ j.at = "lookup" /\ j.todo # <<>>
    BY <1>1 DEF Jobs, Stages
  <2>2. NonePending(a) /\ job' = [job EXCEPT ![a] = j]
    BY <1>3 DEF Rows, NonePending, To, Goes
  <2>3. cached' \in [Agents -> Seq(Reports)]
    BY <1>1 DEF TypeOK
  <2> HIDE DEF j
  <2> QED
    BY <1>1, <2>1, <2>2, <2>3, JobStep
<1> QED
  BY <1>2, <1>3 DEF FindPending

LEMMA LookUpSound ==
  ASSUME Sound, NEW a \in Agents, LookUp(a) PROVE Sound'
<1> USE DEF Sound
<1> DEFINE r == Head(job[a].todo)
<1>1. /\ job[a] \in Jobs /\ job[a].todo \in Batches /\ running /\ NonePending(a)
      /\ UNCHANGED Stored /\ cached' \in [Agents -> Seq(Reports)]
  BY DEF LookUp, TypeOK, Linked, Stored, Jobs
<1>2. r \in Reports /\ journal[a][r] # "pending" /\ job[a].todo # <<>>
  BY <1>1, BatchFacts DEF NonePending
<1>3. CASE journal[a][r] = "complete"
  <2>1. job' = [job EXCEPT ![a] = Advanced(job[a])]
    BY <1>3 DEF LookUp, Goes
  <2> QED
    BY <1>1, <2>1, AdvancedFacts, JobStep
<1>4. CASE journal[a][r] # "complete"
  <2> DEFINE j == [job[a] EXCEPT !.at = "begin", !.record = r]
  <2>1. job' = [job EXCEPT ![a] = j]
    BY <1>2, <1>4 DEF LookUp, Goes
  <2>2. j \in Jobs /\ j.at = "begin" /\ j.record = r /\ j.todo # <<>>
    BY <1>1, <1>2 DEF Jobs, Stages
  <2>3. journal[a][r] = "none"
    BY <1>2, <1>4 DEF TypeOK
  <2> HIDE DEF j, r
  <2> QED
    BY <1>1, <1>2, <2>1, <2>2, <2>3, JobStep
<1> QED
  BY <1>3, <1>4

(***************************************************************************)
(* One row of the journal and one job change, the rest stays.              *)
(***************************************************************************)
RowStep(a, r, s) ==
  /\ journal' \in [Agents -> [Reports -> {"none", "pending", "complete"}]]
  /\ \A b \in Agents, q \in Reports :
       journal'[b][q] = IF b = a /\ q = r THEN s ELSE journal[b][q]

LEMMA RowStepFacts ==
  ASSUME TypeOK, NEW a \in Agents, NEW r \in Reports,
         NEW s \in {"none", "pending", "complete"},
         journal' = [journal EXCEPT ![a][r] = s]
  PROVE  RowStep(a, r, s)
BY DEF TypeOK, RowStep

MovesTo(a, stage) ==
  /\ job' \in [Agents -> Jobs]
  /\ \A b \in Agents : b # a => job'[b] = job[b]
  /\ job'[a].at = stage
  /\ job'[a].record = job[a].record
  /\ job'[a].todo = job[a].todo

LEMMA MovesToFacts ==
  ASSUME TypeOK, NEW a \in Agents, NEW s \in Stages, To(a, s)
  PROVE  MovesTo(a, s)
<1>1. job[a] \in Jobs /\ job' = [job EXCEPT ![a] = [job[a] EXCEPT !.at = s]]
  BY DEF TypeOK, To, Goes
<1>2. [job[a] EXCEPT !.at = s] \in Jobs
  BY <1>1 DEF Jobs
<1> QED
  BY <1>1, <1>2 DEF TypeOK, MovesTo, Jobs

(***************************************************************************)
(* A report begun is new: the row is inserted and the counter grows.       *)
(***************************************************************************)
LEMMA BeginFacts ==
  ASSUME Sound, NEW a \in Agents, Begin(a)
  PROVE  /\ job[a].record \in Reports /\ journal[a][job[a].record] = "none"
         /\ RowStep(a, job[a].record, "pending")
         /\ total' = [total EXCEPT ![a] = @ + 1]
<1>1. /\ job[a].record \in Reports /\ journal[a][job[a].record] = "none"
      /\ journal' = [journal EXCEPT ![a][job[a].record] = "pending"]
      /\ total' = [total EXCEPT ![a] = @ + 1]
  BY DEF Sound, Linked, TypeOK, Begin
<1> QED
  BY <1>1, RowStepFacts DEF Sound

LEMMA BeginSound ==
  ASSUME Sound, NEW a \in Agents, Begin(a) PROVE Sound'
<1> DEFINE r == job[a].record
<1> USE DEF Sound
<1>1. /\ r \in Reports /\ journal[a][r] = "none"
      /\ RowStep(a, r, "pending")
      /\ total' = [total EXCEPT ![a] = @ + 1]
  BY BeginFacts
<1>2. /\ UNCHANGED <<present, stored, cached, running, revoking, crashes>>
      /\ a \in present /\ NonePending(a) /\ running
  BY DEF Begin, TypeOK, Linked
<1>3. MovesTo(a, "write")
  BY MovesToFacts DEF Begin, Stages
<1>4. TypeOK'
  <2>1. total \in [Agents -> Nat]
    BY DEF TypeOK
  <2>2. total' \in [Agents -> Nat]
    BY <1>1, <2>1
  <2> QED
    BY <1>1, <1>2, <1>3, <2>2 DEF TypeOK, RowStep, MovesTo
<1>5. Linked'
  BY <1>1, <1>2, <1>3 DEF Linked, RowStep, MovesTo, NonePending
<1>6. OnePending'
  BY <1>1, <1>2 DEF OnePending, RowStep, NonePending, Rows
<1>7. StoredRows'
  <2>1. present' \subseteq Agents /\ present' = present /\ stored' = stored
    BY <1>1, <1>2 DEF TypeOK
  <2>2. ASSUME NEW b \in present, NEW q \in Reports
        PROVE  /\ journal'[b][q] = "complete" => q \in stored[b]
               /\ q \in stored[b] => journal'[b][q] # "none"
    BY <1>1, <2>1, <2>2 DEF StoredRows, RowStep
  <2> QED
    BY <2>1, <2>2 DEF StoredRows
<1> QED
  BY <1>4, <1>5, <1>6, <1>7

LEMMA WriteSound ==
  ASSUME Sound, NEW a \in Agents, Write(a) PROVE Sound'
<1> DEFINE r == job[a].record
<1> USE DEF Sound
<1>1. /\ stored' = [stored EXCEPT ![a] = @ \cup {r}]
      /\ UNCHANGED <<present, journal, total, cached, running, revoking, crashes>>
      /\ r \in Reports
      /\ a \in present => journal[a][r] = "pending"
  BY DEF Write, TypeOK, Linked
<1>2. MovesTo(a, "complete")
  BY MovesToFacts DEF Write, Stages
<1>3. stored' \in [Agents -> SUBSET Reports]
      /\ \A b \in Agents : stored'[b] = IF b = a THEN stored[a] \cup {r} ELSE stored[b]
  BY <1>1 DEF TypeOK
<1>4. TypeOK'
  BY <1>1, <1>2, <1>3 DEF TypeOK, MovesTo
<1>5. Linked'
  <2>1. job[a].at = "write"
    BY DEF Write
  <2> QED
    BY <1>1, <1>2, <1>3, <2>1 DEF Linked, MovesTo, NonePending
<1>6. OnePending'
  BY <1>1 DEF OnePending, Rows
<1>7. StoredRows'
  BY <1>1, <1>3 DEF StoredRows, TypeOK
<1> QED
  BY <1>4, <1>5, <1>6, <1>7

LEMMA CompleteSound ==
  ASSUME Sound, NEW a \in Agents, Complete(a) PROVE Sound'
<1> DEFINE r == job[a].record
           s == IF journal[a][r] = "none" THEN "none" ELSE "complete"
<1> USE DEF Sound
<1>1. /\ r \in Reports /\ RowStep(a, r, s)
      /\ UNCHANGED <<present, total, stored, cached, running, revoking, crashes>>
      /\ job[a].at = "complete"
      /\ IF a \in present THEN journal[a][r] = "pending" /\ r \in stored[a]
                           ELSE journal[a][r] = "none"
  <2>1. r \in Reports /\ journal' = [journal EXCEPT ![a][r] = s]
    BY DEF Complete, Linked, TypeOK
  <2>2. RowStep(a, r, s)
    BY <2>1, RowStepFacts
  <2> QED
    BY <2>1, <2>2 DEF Complete, Linked
<1>2. MovesTo(a, "cache")
  BY MovesToFacts DEF Complete, Stages
<1>3. TypeOK'
  BY <1>1, <1>2 DEF TypeOK, RowStep, MovesTo
<1>4. NonePending(a)'
  <2>1. CASE a \in present
    BY <1>1, <2>1 DEF OnePending, Rows, NonePending, RowStep
  <2>2. CASE a \notin present
    BY <1>1, <2>2 DEF Linked, NonePending, RowStep
  <2> QED
    BY <2>1, <2>2
<1>5. Linked'
  BY <1>1, <1>2, <1>4 DEF Linked, RowStep, MovesTo, NonePending
<1>6. OnePending'
  BY <1>1, <1>4 DEF OnePending, RowStep, Rows, NonePending
<1>7. StoredRows'
  <2>1. present' \subseteq Agents /\ present' = present /\ stored' = stored
    BY <1>1, <1>2 DEF TypeOK
  <2>2. ASSUME NEW b \in present, NEW q \in Reports
        PROVE  /\ journal'[b][q] = "complete" => q \in stored[b]
               /\ q \in stored[b] => journal'[b][q] # "none"
    BY <1>1, <2>1, <2>2 DEF StoredRows, RowStep
  <2> QED
    BY <2>1, <2>2 DEF StoredRows
<1> QED
  BY <1>3, <1>5, <1>6, <1>7

LEMMA UpdateCacheSound ==
  ASSUME Sound, NEW a \in Agents, UpdateCache(a) PROVE Sound'
<1> USE DEF Sound
<1>1. /\ job[a] \in Jobs /\ job[a].record \in Reports /\ NonePending(a)
      /\ job[a].todo # <<>> => running
      /\ UNCHANGED Stored /\ job' = [job EXCEPT ![a] = Advanced(job[a])]
  BY DEF UpdateCache, TypeOK, Linked, Stored, Goes
<1>2. cached' \in [Agents -> Seq(Reports)]
  <2>1. cached \in [Agents -> Seq(Reports)]
    BY DEF TypeOK
  <2>2. Append(cached[a], job[a].record) \in Seq(Reports)
    BY <1>1, <2>1
  <2> QED
    BY <2>1, <2>2 DEF UpdateCache
<1> QED
  BY <1>1, <1>2, AdvancedFacts, JobStep

LEMMA IdleFacts == Idle \in Jobs /\ Idle.at = "idle" /\ Idle.todo = <<>>
BY DEF Idle, Jobs, Stages

LEMMA FailSound ==
  ASSUME Sound, NEW a \in Agents, Fail(a) PROVE Sound'
<1>1. UNCHANGED Stored /\ job' = [job EXCEPT ![a] = Idle]
      /\ cached' \in [Agents -> Seq(Reports)]
  BY DEF Fail, Goes, Stored, Sound, TypeOK
<1> QED
  BY <1>1, IdleFacts, JobStep

LEMMA RecoverNextSound ==
  ASSUME Sound, NEW a \in Agents, RecoverNext(a) PROVE Sound'
<1>1. PICK r \in Rows(a, "pending") : Goes(a, Replaying(Idle, r))
  BY DEF RecoverNext
<1>2. UNCHANGED Stored /\ UNCHANGED cached
  BY DEF RecoverNext, Stored
<1> QED
  BY <1>1, <1>2, IdleFacts, ReplayingFacts

LEMMA AgentDeleteSound ==
  ASSUME Sound, NEW a \in Agents, AgentDelete(a) PROVE Sound'
<1> USE DEF Sound
<1>1. /\ present' = present \ {a}
      /\ UNCHANGED <<stored, cached, job, running, crashes>>
  BY DEF AgentDelete
<1>2. /\ journal' \in [Agents -> [Reports -> {"none", "pending", "complete"}]]
      /\ \A b \in Agents, q \in Reports :
           journal'[b][q] = IF b = a THEN "none" ELSE journal[b][q]
  BY DEF AgentDelete, TypeOK
<1>3. /\ total' \in [Agents -> Nat]
      /\ revoking' \in [Agents -> {"no", "deleted", "purged", "cut short"}]
      /\ \A b \in Agents : b # a => revoking'[b] = revoking[b]
  BY DEF AgentDelete, TypeOK
<1>4. TypeOK'
  BY <1>1, <1>2, <1>3 DEF TypeOK
<1>5. Linked'
  <2>1. ASSUME NEW b \in Agents, b # a
        PROVE  /\ job'[b] = job[b] /\ stored'[b] = stored[b]
               /\ revoking'[b] = revoking[b] /\ (b \in present' <=> b \in present)
               /\ \A q \in Reports : journal'[b][q] = journal[b][q]
    BY <1>1, <1>2, <1>3, <2>1
  <2>2. a \notin present' /\ \A q \in Reports : journal'[a][q] = "none"
    BY <1>1, <1>2
  <2> QED
    BY <1>1, <2>1, <2>2 DEF Linked, NonePending
<1>6. OnePending'
  BY <1>2 DEF OnePending, Rows
<1>7. StoredRows'
  BY <1>1, <1>2 DEF StoredRows, TypeOK
<1> QED
  BY <1>4, <1>5, <1>6, <1>7

LEMMA PurgeSound ==
  ASSUME Sound, NEW a \in Agents, Purge(a) PROVE Sound'
<1> USE DEF Sound
<1>1. /\ UNCHANGED <<present, journal, total, job, running, crashes>>
      /\ a \notin present
  BY DEF Purge, Linked
<1>2. /\ revoking' \in [Agents -> {"no", "deleted", "purged", "cut short"}]
      /\ \A b \in Agents : b # a => revoking'[b] = revoking[b]
  BY DEF Purge, TypeOK
<1>3. /\ stored' \in [Agents -> SUBSET Reports]
      /\ \A b \in Agents : b # a => stored'[b] = stored[b]
      /\ cached' \in [Agents -> Seq(Reports)]
  BY DEF Purge, TypeOK
<1>4. TypeOK'
  BY <1>1, <1>2, <1>3 DEF TypeOK
<1>5. Linked'
  BY <1>1, <1>2, <1>3 DEF Linked, NonePending
<1>6. OnePending'
  BY <1>1 DEF OnePending, Rows
<1>7. StoredRows'
  BY <1>1, <1>3 DEF StoredRows, TypeOK
<1> QED
  BY <1>4, <1>5, <1>6, <1>7

LEMMA FreshProcessSound ==
  ASSUME Sound, FreshProcess, crashes' \in 0 .. MaxCrashes PROVE Sound'
<1> USE DEF Sound
<1>1. /\ UNCHANGED <<present, journal, total, stored>> /\ running' = FALSE
      /\ \A a \in Agents : job'[a] = Idle
      /\ \A a \in Agents :
           revoking'[a] # "deleted"
  BY DEF FreshProcess
<1>2. TypeOK'
  <2>1. job' \in [Agents -> Jobs]
    BY IdleFacts DEF FreshProcess
  <2>2. cached' \in [Agents -> Seq(Reports)]
    <3>1. <<>> \in Seq(Reports)
      OBVIOUS
    <3> QED
      BY <3>1 DEF FreshProcess
  <2>3. revoking' \in [Agents -> {"no", "deleted", "purged", "cut short"}]
    BY DEF FreshProcess, TypeOK
  <2> QED
    BY <1>1, <2>1, <2>2, <2>3 DEF TypeOK
<1>3. Linked'
  <2>1. \A a \in Agents : job'[a].at = "idle" /\ job'[a].todo = <<>>
    BY <1>1, IdleFacts
  <2> QED
    BY <1>1, <2>1 DEF Linked
<1>4. OnePending' /\ StoredRows'
  BY <1>1 DEF OnePending, Rows, StoredRows
<1> QED
  BY <1>2, <1>3, <1>4

LEMMA RecoveryDoneSound ==
  ASSUME Sound, RecoveryDone PROVE Sound'
<1>1. TypeOK'
  BY DEF Sound, TypeOK, RecoveryDone
<1>2. Linked'
  BY DEF Sound, Linked, RecoveryDone, NonePending
<1>3. OnePending' /\ StoredRows'
  BY DEF Sound, OnePending, Rows, StoredRows, RecoveryDone
<1> QED
  BY <1>1, <1>2, <1>3 DEF Sound

LEMMA NextSound ==
  ASSUME Sound, [Next]_vars PROVE Sound'
<1>1. CASE UNCHANGED vars
  <2>1. TypeOK'
    BY <1>1 DEF vars, Sound, TypeOK
  <2>2. Linked' /\ OnePending' /\ StoredRows'
    BY <1>1 DEF vars, Sound, Linked, NonePending, OnePending, Rows, StoredRows
  <2> QED
    BY <2>1, <2>2 DEF Sound
<1>2. CASE Crash
  <2>1. crashes \in 0 .. MaxCrashes /\ crashes' = crashes + 1 /\ crashes < MaxCrashes
    BY <1>2 DEF Crash, Sound, TypeOK
  <2>2. crashes' \in 0 .. MaxCrashes
    BY <2>1, JournalAssumption
  <2> QED
    BY <1>2, <2>2, FreshProcessSound DEF Crash
<1>3. CASE RecoveryFails
  BY <1>3, FreshProcessSound DEF RecoveryFails, Sound, TypeOK
<1>4. CASE RecoveryDone
  BY <1>4, RecoveryDoneSound
<1>5. ASSUME NEW a \in Agents,
             \/ Start(a) \/ FindPending(a) \/ LookUp(a) \/ Begin(a) \/ Replay(a)
             \/ Fail(a) \/ AgentDelete(a) \/ Purge(a) \/ RecoverNext(a)
      PROVE  Sound'
  BY <1>5, StartSound, FindPendingSound, LookUpSound, BeginSound, WriteSound,
     CompleteSound, UpdateCacheSound, FailSound, AgentDeleteSound,
     PurgeSound, RecoverNextSound DEF Replay
<1> QED
  BY <1>1, <1>2, <1>3, <1>4, <1>5 DEF Next

(***************************************************************************)
(* Every variable keeps its type (the state of internal/agent/ingestion.go *)
(* and of the journal's tables).                                           *)
(***************************************************************************)
THEOREM TypesHold == Spec => []TypeOK
<1>1. Sound => TypeOK
  BY DEF Sound
<1> QED
  BY <1>1, InitSound, NextSound, PTL DEF Spec

(***************************************************************************)
(* An agent never has two records waiting for a replay: Ingest replays     *)
(* before it begins, under the agent's lock.                               *)
(***************************************************************************)
THEOREM OnePendingHolds == Spec => []OnePending
<1>1. Sound => OnePending
  BY DEF Sound
<1> QED
  BY <1>1, InitSound, NextSound, PTL DEF Spec

(***************************************************************************)
(* Journal and series agree: a completed record is stored and only what    *)
(* was journaled and counted is (replayIngestion).                         *)
(***************************************************************************)
THEOREM StoreAgreesHolds == Spec => []StoreAgrees
<1>1. Sound => StoreAgrees
  BY DEF Sound, TypeOK, StoredRows, StoreAgrees, Rows, Journaled
<1> QED
  BY <1>1, InitSound, NextSound, PTL DEF Spec

-----------------------------------------------------------------------------
LEMMA JournaledFinite ==
  ASSUME NEW a \in Agents PROVE IsFiniteSet(Journaled(a))
<1>1. IsFiniteSet(Reports)
  BY FS_Interval, JournalAssumption DEF Reports
<1> QED
  BY <1>1, FS_Subset DEF Journaled

LEMMA NextCounts ==
  ASSUME Sound, CountedOnce, [Next]_vars PROVE CountedOnce'
<1> USE DEF Sound
<1>1. ASSUME NEW a \in Agents, Begin(a) PROVE CountedOnce'
  <2> DEFINE r == job[a].record
  <2>1. /\ r \in Reports /\ journal[a][r] = "none" /\ RowStep(a, r, "pending")
        /\ total' = [total EXCEPT ![a] = @ + 1] /\ present' = present
    BY <1>1, BeginFacts DEF Begin
  <2>2. Journaled(a)' = Journaled(a) \cup {r} /\ r \notin Journaled(a)
    BY <2>1 DEF Journaled, RowStep
  <2>3. Cardinality(Journaled(a)') = Cardinality(Journaled(a)) + 1
    BY <2>2, JournaledFinite, FS_AddElement
  <2>4. total \in [Agents -> Nat] /\ present \subseteq Agents
    BY DEF TypeOK
  <2>5. ASSUME NEW b \in present, b # a PROVE Journaled(b)' = Journaled(b)
    BY <2>1, <2>4, <2>5 DEF Journaled, RowStep
  <2> HIDE DEF r
  <2> QED
    BY <2>1, <2>3, <2>4, <2>5 DEF CountedOnce
<1>2. ASSUME NEW a \in Agents, Complete(a) PROVE CountedOnce'
  <2> DEFINE r == job[a].record
  <2>1. /\ r \in Reports /\ present' = present /\ total' = total
        /\ journal' = [journal EXCEPT ![a][r] = IF @ = "none" THEN @ ELSE "complete"]
    BY <1>2 DEF Complete, Linked
  <2>2. ASSUME NEW b \in present PROVE Journaled(b)' = Journaled(b)
    BY <2>1 DEF Journaled, TypeOK
  <2> QED
    BY <2>1, <2>2 DEF CountedOnce
<1>3. ASSUME NEW a \in Agents, AgentDelete(a) PROVE CountedOnce'
  <2>1. /\ present' = present \ {a}
        /\ \A b \in present' : journal'[b] = journal[b] /\ total'[b] = total[b]
    BY <1>3 DEF AgentDelete, TypeOK
  <2> QED
    BY <2>1 DEF CountedOnce, Journaled
<1>4. CASE UNCHANGED <<present, journal, total>>
  BY <1>4 DEF CountedOnce, Journaled
<1>5. ASSUME NEW a \in Agents,
             \/ Start(a) \/ FindPending(a) \/ LookUp(a) \/ Write(a)
             \/ UpdateCache(a) \/ Fail(a) \/ Purge(a)
             \/ RecoverNext(a)
      PROVE  UNCHANGED <<present, journal, total>>
  BY <1>5 DEF Start, FindPending, LookUp, Write, UpdateCache, Fail,
              Purge, RecoverNext
<1>6. ASSUME Crash \/ RecoveryFails \/ RecoveryDone \/ UNCHANGED vars
      PROVE  UNCHANGED <<present, journal, total>>
  BY <1>6 DEF Crash, RecoveryFails, FreshProcess, RecoveryDone, vars
<1> QED
  BY <1>1, <1>2, <1>3, <1>4, <1>5, <1>6 DEF Next, Replay

(***************************************************************************)
(* The lifetime counter holds every journaled report once, whatever is     *)
(* submitted again, interrupted or replayed (IngestionBegin and its        *)
(* callers).                                                               *)
(***************************************************************************)
THEOREM CountedOnceHolds == Spec => []CountedOnce
<1>1. Init => CountedOnce
  <2> SUFFICES ASSUME Init, NEW a \in present PROVE total[a] = Cardinality(Journaled(a))
    BY DEF CountedOnce
  <2>1. total[a] = 0 /\ Journaled(a) = {}
    BY DEF Init, Journaled
  <2> QED
    BY <2>1, FS_EmptySet
<1> QED
  BY <1>1, InitSound, NextSound, NextCounts, PTL DEF Spec

-----------------------------------------------------------------------------
(* The cached window. *)

Caching(a, r) == job[a].at = "cache" /\ job[a].record = r

CacheOrdered(a) ==
  \A i, j \in 1 .. Len(cached[a]) : i < j => cached[a][i] < cached[a][j]

CacheSettled(a) ==
  \A i \in 1 .. Len(cached[a]) :
    /\ journal[a][cached[a][i]] = "complete"
    /\ ~Caching(a, cached[a][i])

CacheWhole(a) ==
  cached[a] # <<>> =>
    \A r \in Reports :
      journal[a][r] = "complete" /\ cached[a][1] <= r /\ ~Caching(a, r)
        => \E i \in 1 .. Len(cached[a]) : cached[a][i] = r

(* What is stored and has not reached the cache yet is the newest sample.  *)
NewestLast(a) ==
  \A r \in stored[a] :
    journal[a][r] = "pending" \/ Caching(a, r) => \A s \in stored[a] : s <= r

CacheDue(a) == job[a].at = "cache" => journal[a][job[a].record] = "complete"

(***************************************************************************)
(* The cache holds, in order, every completed report from its first one    *)
(* on; only the report that is about to be cached is missing, and that one *)
(* is the newest.                                                          *)
(***************************************************************************)
CacheInv ==
  \A a \in present : /\ CacheOrdered(a) /\ CacheSettled(a) /\ CacheWhole(a)
                     /\ NewestLast(a) /\ CacheDue(a)

(* What the clauses read of agent a, and that a step left it alone.        *)
SameFor(a) ==
  /\ cached'[a] = cached[a] /\ stored'[a] = stored[a]
  /\ \A r \in Reports : journal'[a][r] = journal[a][r]
  /\ \/ job'[a] = job[a]
     \/ job[a].at # "cache" /\ job'[a].at # "cache"

CachedAre(a) == \A i \in 1 .. Len(cached[a]) : cached[a][i] \in Reports

LEMMA CachedReports ==
  ASSUME Sound, NEW a \in Agents
  PROVE  /\ CachedAre(a) /\ Len(cached[a]) \in Nat /\ stored[a] \subseteq Reports
         /\ cached[a] # <<>> => 1 \in 1 .. Len(cached[a])
<1>1. cached[a] \in Seq(Reports) /\ stored[a] \subseteq Reports
  BY DEF Sound, TypeOK
<1> QED
  BY <1>1 DEF CachedAre

CacheFor(a) ==
  /\ CacheOrdered(a) /\ CacheSettled(a) /\ CacheWhole(a) /\ NewestLast(a)
  /\ CacheDue(a)

LEMMA CacheKept ==
  ASSUME Sound, NEW a \in Agents, CacheFor(a), SameFor(a) PROVE CacheFor(a)'
<1>1. /\ CachedAre(a) /\ stored[a] \subseteq Reports
      /\ job[a].at = "cache" => job[a].record \in Reports
  BY CachedReports DEF Sound, Linked
<1>2. CacheOrdered(a)'
  BY DEF CacheFor, CacheOrdered, SameFor
<1>3. CacheSettled(a)'
  BY <1>1 DEF CacheFor, CacheSettled, SameFor, CachedAre, Caching
<1>4. CacheWhole(a)'
  BY <1>1 DEF CacheFor, CacheWhole, SameFor, CachedAre, Caching
<1>5. NewestLast(a)'
  BY <1>1 DEF CacheFor, NewestLast, SameFor, Caching
<1>6. CacheDue(a)'
  BY <1>1 DEF CacheFor, CacheDue, SameFor
<1> QED
  BY <1>2, <1>3, <1>4, <1>5, <1>6 DEF CacheFor

LEMMA JobKeepsCache ==
  ASSUME Sound, CacheInv, NEW a \in Agents, UNCHANGED Stored, cached' = cached,
         NEW j, job' = [job EXCEPT ![a] = j],
         job[a].at # "cache", j.at # "cache"
  PROVE  CacheInv'
<1> SUFFICES ASSUME NEW b \in present PROVE CacheFor(b)'
  BY DEF Stored, CacheInv, CacheFor
<1>1. b \in Agents /\ CacheFor(b)
  BY DEF Sound, TypeOK, CacheInv, CacheFor
<1>2. SameFor(b)
  BY <1>1 DEF SameFor, Stored, Sound, TypeOK
<1> QED
  BY <1>1, <1>2, CacheKept

LEMMA BeginCache ==
  ASSUME Sound, CacheInv, NEW a \in Agents, Begin(a) PROVE CacheInv'
<1> DEFINE r == job[a].record
<1>1. /\ r \in Reports /\ journal[a][r] = "none" /\ RowStep(a, r, "pending")
      /\ present' = present /\ stored' = stored /\ cached' = cached
      /\ a \in present /\ job[a].at = "begin"
  BY BeginFacts DEF Begin
<1>2. MovesTo(a, "write")
  BY MovesToFacts DEF Begin, Stages, Sound
<1> HIDE DEF r
<1> SUFFICES ASSUME NEW b \in present PROVE CacheFor(b)'
  BY <1>1 DEF CacheInv, CacheFor
<1>3. b \in Agents /\ CacheFor(b)
  BY DEF Sound, TypeOK, CacheInv, CacheFor
<1>4. CASE b # a
  <2>1. SameFor(b)
    BY <1>1, <1>2, <1>3, <1>4 DEF SameFor, RowStep, MovesTo
  <2> QED
    BY <1>3, <2>1, CacheKept
<1>5. CASE b = a
  <2>1. CachedAre(a) /\ r \notin stored[a] /\ stored[a] \subseteq Reports
    BY <1>1, CachedReports DEF Sound, StoredRows
  <2>2. /\ job[a].at # "cache" /\ job'[a].at # "cache"
        /\ \A q \in Reports :
             /\ journal'[a][q] = "complete" <=> journal[a][q] = "complete"
             /\ q # r => journal'[a][q] = journal[a][q]
    BY <1>1, <1>2 DEF RowStep, MovesTo
  <2>3. CacheOrdered(a)' /\ CacheSettled(a)'
    BY <1>1, <1>3, <1>5, <2>1, <2>2
    DEF CacheFor, CacheOrdered, CacheSettled, CachedAre, Caching
  <2>4. CacheWhole(a)'
    BY <1>1, <1>3, <1>5, <2>1, <2>2 DEF CacheFor, CacheWhole, CachedAre, Caching
  <2>5. NewestLast(a)' /\ CacheDue(a)'
    BY <1>1, <1>3, <1>5, <2>1, <2>2 DEF CacheFor, NewestLast, CacheDue, Caching
  <2> QED
    BY <1>5, <2>3, <2>4, <2>5 DEF CacheFor
<1> QED
  BY <1>4, <1>5

LEMMA WriteCache ==
  ASSUME Sound, CacheInv, NEW a \in Agents, Write(a) PROVE CacheInv'
<1> DEFINE r == job[a].record
<1>1. /\ stored' = [stored EXCEPT ![a] = @ \cup {r}]
      /\ present' = present /\ journal' = journal /\ cached' = cached
      /\ job[a].at = "write" /\ r \in Reports
      /\ a \in present => journal[a][r] = "pending"
      /\ \A s \in stored[a] : s <= r
      /\ stored \in [Agents -> SUBSET Reports]
  BY DEF Write, Appendable, Sound, TypeOK, Linked
<1>2. MovesTo(a, "complete")
  BY MovesToFacts DEF Write, Stages, Sound
<1> HIDE DEF r
<1> SUFFICES ASSUME NEW b \in present PROVE CacheFor(b)'
  BY <1>1 DEF CacheInv, CacheFor
<1>3. b \in Agents /\ CacheFor(b)
  BY DEF Sound, TypeOK, CacheInv, CacheFor
<1>4. CASE b # a
  <2>1. SameFor(b)
    BY <1>1, <1>2, <1>3, <1>4 DEF SameFor, MovesTo
  <2> QED
    BY <1>3, <2>1, CacheKept
<1>5. CASE b = a
  <2>1. stored'[a] = stored[a] \cup {r} /\ stored[a] \subseteq Reports
    BY <1>1
  <2>2. job[a].at # "cache" /\ job'[a].at # "cache"
    BY <1>1, <1>2 DEF MovesTo
  <2>3. CacheOrdered(a)' /\ CacheSettled(a)' /\ CacheWhole(a)' /\ CacheDue(a)'
    BY <1>1, <1>3, <1>5, <2>2
    DEF CacheFor, CacheOrdered, CacheSettled, CacheWhole, CacheDue, Caching
  <2>4. \A q \in Reports : journal[a][q] = "pending" => q = r
    BY <1>1, <1>3, <1>5 DEF Sound, OnePending, Rows
  <2>5. r <= r
    BY <1>1, JournalAssumption DEF Reports
  <2>6. NewestLast(a)'
    BY <1>1, <2>1, <2>2, <2>4, <2>5 DEF NewestLast, Caching
  <2> QED
    BY <1>5, <2>3, <2>6 DEF CacheFor
<1> QED
  BY <1>4, <1>5

LEMMA CompleteCache ==
  ASSUME Sound, CacheInv, NEW a \in Agents, Complete(a) PROVE CacheInv'
<1> DEFINE r == job[a].record
           s == IF journal[a][r] = "none" THEN "none" ELSE "complete"
<1>1. /\ r \in Reports /\ RowStep(a, r, s)
      /\ present' = present /\ stored' = stored /\ cached' = cached
      /\ job[a].at = "complete"
      /\ a \in present => journal[a][r] = "pending" /\ r \in stored[a]
  <2>1. r \in Reports /\ journal' = [journal EXCEPT ![a][r] = s]
    BY DEF Complete, Linked, TypeOK, Sound
  <2>2. RowStep(a, r, s)
    BY <2>1, RowStepFacts DEF Sound
  <2> QED
    BY <2>1, <2>2 DEF Complete, Linked, Sound
<1>2. MovesTo(a, "cache")
  BY MovesToFacts DEF Complete, Stages, Sound
<1>3. a \in present => s = "complete"
  BY <1>1
<1>4. job'[a].at = "cache" /\ job'[a].record = r
  BY <1>2 DEF MovesTo
<1> HIDE DEF r, s
<1> SUFFICES ASSUME NEW b \in present PROVE CacheFor(b)'
  BY <1>1 DEF CacheInv, CacheFor
<1>5. b \in Agents /\ CacheFor(b)
  BY DEF Sound, TypeOK, CacheInv, CacheFor
<1>6. CASE b # a
  <2>1. SameFor(b)
    BY <1>1, <1>2, <1>5, <1>6 DEF SameFor, RowStep, MovesTo
  <2> QED
    BY <1>5, <2>1, CacheKept
<1>7. CASE b = a
  <2>1. CachedAre(a) /\ stored[a] \subseteq Reports
    BY CachedReports
  <2>2. /\ journal[a][r] = "pending" /\ r \in stored[a] /\ journal'[a][r] = "complete"
        /\ \A q \in Reports : q # r => journal'[a][q] = journal[a][q]
        /\ \A q \in Reports : journal[a][q] = "pending" => q = r
    BY <1>1, <1>3, <1>7 DEF RowStep, Sound, OnePending, Rows
  <2>3. CacheOrdered(a)'
    BY <1>1, <1>5, <1>7 DEF CacheFor, CacheOrdered
  <2>4. CacheSettled(a)'
    <3>1. \A i \in 1 .. Len(cached[a]) :
             cached[a][i] # r /\ cached[a][i] \in Reports
      BY <1>5, <1>7, <2>1, <2>2 DEF CacheFor, CacheSettled, CachedAre
    <3> QED
      BY <1>1, <1>4, <1>5, <1>7, <2>2, <3>1 DEF CacheFor, CacheSettled, Caching
  <2>5. CacheWhole(a)'
    BY <1>1, <1>4, <1>5, <1>7, <2>2 DEF CacheFor, CacheWhole, Caching
  <2>6. NewestLast(a)' /\ CacheDue(a)'
    BY <1>1, <1>4, <1>5, <1>7, <2>1, <2>2
    DEF CacheFor, NewestLast, CacheDue, Caching
  <2> QED
    BY <1>7, <2>3, <2>4, <2>5, <2>6 DEF CacheFor
<1> QED
  BY <1>6, <1>7

(***************************************************************************)
(* A report joins the window behind older ones, and completes it.          *)
(***************************************************************************)
LEMMA UpdateCacheCache ==
  ASSUME Sound, CacheInv, NEW a \in Agents, UpdateCache(a) PROVE CacheInv'
<1> DEFINE r == job[a].record
<1>1. /\ present' = present /\ stored' = stored /\ journal' = journal
      /\ cached' = [cached EXCEPT ![a] = Append(cached[a], r)]
      /\ job[a].at = "cache" /\ r \in Reports /\ job[a] \in Jobs
      /\ job' = [job EXCEPT ![a] = Advanced(job[a])]
  BY DEF UpdateCache, Goes, Sound, TypeOK, Linked
<1>2. job'[a].at # "cache" /\ \A b \in Agents : b # a => job'[b] = job[b]
  BY <1>1, AdvancedFacts DEF Sound, TypeOK
<1> HIDE DEF r
<1> SUFFICES ASSUME NEW b \in present PROVE CacheFor(b)'
  BY <1>1 DEF CacheInv, CacheFor
<1>3. b \in Agents /\ CacheFor(b)
  BY DEF Sound, TypeOK, CacheInv, CacheFor
<1>4. CASE b # a
  <2>1. SameFor(b)
    BY <1>1, <1>2, <1>3, <1>4 DEF SameFor, Sound, TypeOK
  <2> QED
    BY <1>3, <2>1, CacheKept
<1>5. CASE b = a
  <2> DEFINE c == cached[a]
             d == cached'[a]
             n == Len(c)
  <2>1. c \in Seq(Reports) /\ d = Append(c, r)
    BY <1>1 DEF Sound, TypeOK
  <2>2. /\ n \in Nat /\ Len(d) = n + 1 /\ d[n + 1] = r
        /\ \A i \in 1 .. n : d[i] = c[i] /\ c[i] \in Reports
        /\ c # <<>> => 1 \in 1 .. n
        /\ c = <<>> => n = 0
    BY <1>1, <2>1
  <2>3. /\ \A i \in 1 .. n : journal[a][c[i]] = "complete" /\ c[i] # r
        /\ journal[a][r] = "complete"
        /\ \A q \in Reports : journal[a][q] = "complete" => q \in stored[a]
    BY <1>1, <1>3, <1>5, <2>2
    DEF CacheFor, CacheSettled, CacheDue, Caching, Sound, StoredRows, r
  <2>4. \A q \in stored[a] : q <= r
    BY <1>1, <1>3, <1>5, <2>3 DEF CacheFor, NewestLast, Caching, r
  <2>5. /\ \A i, j \in 1 .. n : i < j => c[i] < c[j]
        /\ c # <<>> =>
             \A q \in Reports :
               journal[a][q] = "complete" /\ c[1] <= q /\ q # r
                 => \E i \in 1 .. n : c[i] = q
    BY <1>3, <1>5 DEF CacheFor, CacheOrdered, CacheWhole, Caching, r
  <2> HIDE DEF c, d, n
  <2>6. \A q \in Reports : q \in Nat
    BY JournalAssumption DEF Reports
  <2>7. \A i \in 1 .. n : c[i] < r
    BY <1>1, <2>2, <2>3, <2>4, <2>6
  <2>8. CacheOrdered(a)'
    <3> SUFFICES ASSUME NEW i \in 1 .. n + 1, NEW j \in 1 .. n + 1, i < j
                 PROVE  d[i] < d[j]
      BY <2>2 DEF CacheOrdered, d
    <3>1. i \in 1 .. n
      BY <2>2
    <3>2. CASE j \in 1 .. n
      BY <2>2, <2>5, <3>1, <3>2
    <3>3. CASE j = n + 1
      BY <2>2, <2>7, <3>1, <3>3
    <3> QED
      BY <2>2, <3>2, <3>3
  <2>9. CacheSettled(a)'
    <3> SUFFICES ASSUME NEW i \in 1 .. n + 1 PROVE journal[a][d[i]] = "complete"
      BY <1>1, <1>2, <2>2 DEF CacheSettled, Caching, d
    <3>1. i \in 1 .. n \/ i = n + 1
      BY <2>2
    <3> QED
      BY <2>2, <2>3, <3>1
  <2>10. CacheWhole(a)'
    <3> SUFFICES ASSUME NEW q \in Reports, journal[a][q] = "complete", d[1] <= q
                 PROVE  \E i \in 1 .. n + 1 : d[i] = q
      BY <1>1, <2>2 DEF CacheWhole, Caching, d
    <3>1. n + 1 \in 1 .. n + 1 /\ \A i \in 1 .. n : i \in 1 .. n + 1
      BY <2>2
    <3>2. CASE q = r
      BY <2>2, <3>1, <3>2
    <3>3. CASE q # r /\ c = <<>>
      <4>1. d[1] = r
        BY <2>2, <3>3
      <4>2. q <= r /\ q \in Nat /\ r \in Nat
        BY <1>1, <2>3, <2>4, <2>6
      <4> QED
        BY <3>3, <4>1, <4>2
    <3>4. CASE q # r /\ c # <<>>
      <4>1. d[1] = c[1]
        BY <2>2, <3>4
      <4>2. PICK i \in 1 .. n : c[i] = q
        BY <2>5, <3>4, <4>1
      <4> QED
        BY <2>2, <3>1, <4>2
    <3> QED
      BY <3>2, <3>3, <3>4
  <2>11. NewestLast(a)' /\ CacheDue(a)'
    BY <1>1, <1>2, <1>3, <1>5 DEF CacheFor, NewestLast, CacheDue, Caching
  <2> QED
    BY <1>5, <2>8, <2>9, <2>10, <2>11 DEF CacheFor
<1> QED
  BY <1>4, <1>5

(* Steps that disturb no agent that is still there.                        *)
LEMMA OthersKeepCache ==
  ASSUME Sound, CacheInv, present' \subseteq present,
         \A b \in present' : SameFor(b)
  PROVE  CacheInv'
<1> SUFFICES ASSUME NEW b \in present' PROVE CacheFor(b)'
  BY DEF CacheInv, CacheFor
<1>1. b \in Agents /\ CacheFor(b) /\ SameFor(b)
  BY DEF Sound, TypeOK, CacheInv, CacheFor
<1> QED
  BY <1>1, CacheKept

LEMMA FreshCache == ASSUME Sound, CacheInv, FreshProcess PROVE CacheInv'
<1>1. /\ present' = present /\ journal' = journal /\ stored' = stored
      /\ \A a \in Agents : job'[a].at = "idle" /\ cached'[a] = <<>>
  BY IdleFacts DEF FreshProcess
<1> SUFFICES ASSUME NEW a \in present PROVE CacheFor(a)'
  BY <1>1 DEF CacheInv, CacheFor
<1>2. a \in Agents /\ CacheFor(a)
  BY DEF Sound, TypeOK, CacheInv, CacheFor
<1>3. Len(cached'[a]) = 0 /\ cached'[a] = <<>> /\ job'[a].at # "cache"
  BY <1>1, <1>2
<1>4. CacheOrdered(a)' /\ CacheSettled(a)' /\ CacheWhole(a)' /\ CacheDue(a)'
  BY <1>3 DEF CacheOrdered, CacheSettled, CacheWhole, CacheDue
<1>5. NewestLast(a)'
  BY <1>1, <1>2, <1>3 DEF CacheFor, NewestLast, Caching
<1> QED
  BY <1>4, <1>5 DEF CacheFor

LEMMA NextCache == ASSUME Sound, CacheInv, [Next]_vars PROVE CacheInv'
<1> USE DEF Stored
<1>1. ASSUME NEW a \in Agents, Start(a) PROVE CacheInv'
  <2>1. PICK b \in Batches : Goes(a, [Idle EXCEPT !.at = "pending", !.todo = b])
    BY <1>1 DEF Start
  <2>2. job[a].at # "cache" /\ [Idle EXCEPT !.at = "pending", !.todo = b].at # "cache"
    BY <1>1 DEF Start, Idle
  <2> QED
    BY <1>1, <2>1, <2>2, JobKeepsCache DEF Start, Goes
<1>2. ASSUME NEW a \in Agents, FindPending(a) PROVE CacheInv'
  <2>1. job[a] \in Jobs /\ job[a].at # "cache" /\ UNCHANGED Stored /\ cached' = cached
    BY <1>2 DEF FindPending, Sound, TypeOK
  <2>2. ASSUME NEW r \in Rows(a, "pending"), Goes(a, Replaying(job[a], r))
        PROVE  CacheInv'
    <3>1. Replaying(job[a], r).at = "write"
      BY <2>1 DEF Replaying, Jobs
    <3> QED
      BY <2>1, <2>2, <3>1, JobKeepsCache DEF Goes
  <2>3. CASE To(a, "lookup")
    <3>1. [job[a] EXCEPT !.at = "lookup"].at = "lookup"
      BY <2>1 DEF Jobs
    <3> QED
      BY <2>1, <2>3, <3>1, JobKeepsCache DEF To, Goes
  <2> QED
    BY <1>2, <2>2, <2>3 DEF FindPending
<1>3. ASSUME NEW a \in Agents, LookUp(a) PROVE CacheInv'
  <2> DEFINE r == Head(job[a].todo)
             j == IF journal[a][r] = "complete" THEN Advanced(job[a])
                  ELSE IF journal[a][r] = "pending"
                  THEN [job[a] EXCEPT !.at = "write", !.record = r]
                  ELSE [job[a] EXCEPT !.at = "begin", !.record = r]
  <2>1. /\ job[a] \in Jobs /\ job[a].at # "cache" /\ UNCHANGED Stored
        /\ cached' = cached /\ job' = [job EXCEPT ![a] = j]
    BY <1>3 DEF LookUp, Sound, TypeOK, Goes
  <2>2. j.at # "cache"
    BY <2>1, AdvancedFacts DEF Jobs
  <2> HIDE DEF j
  <2> QED
    BY <2>1, <2>2, JobKeepsCache
<1>4. ASSUME NEW a \in Agents, Fail(a) PROVE CacheInv'
  BY <1>4, IdleFacts, JobKeepsCache DEF Fail, Fallible, Goes
<1>5. ASSUME NEW a \in Agents, RecoverNext(a) PROVE CacheInv'
  <2>1. PICK r \in Rows(a, "pending") : Goes(a, Replaying(Idle, r))
    BY <1>5 DEF RecoverNext
  <2>2. job[a].at # "cache" /\ Replaying(Idle, r).at # "cache"
    BY <1>5 DEF RecoverNext, AllIdle, Idle, Replaying
  <2> QED
    BY <1>5, <2>1, <2>2, JobKeepsCache DEF RecoverNext, Goes
<1>6. ASSUME NEW a \in Agents, AgentDelete(a) PROVE CacheInv'
  <2>1. \A b \in present' : SameFor(b)
    BY <1>6 DEF AgentDelete, SameFor, Sound, TypeOK
  <2> QED
    BY <1>6, <2>1, OthersKeepCache DEF AgentDelete
<1>7. ASSUME NEW a \in Agents, Purge(a) PROVE CacheInv'
  <2>1. a \notin present
    BY <1>7 DEF Purge, Sound, Linked
  <2>2. \A b \in present' : SameFor(b)
    BY <1>7, <2>1 DEF Purge, SameFor, Sound, TypeOK
  <2> QED
    BY <1>7, <2>2, OthersKeepCache DEF Purge
<1>8. CASE RecoveryDone \/ UNCHANGED vars
  <2>1. \A b \in present' : SameFor(b)
    BY <1>8 DEF RecoveryDone, vars, SameFor
  <2>2. present' = present
    BY <1>8 DEF RecoveryDone, vars
  <2> QED
    BY <2>1, <2>2, OthersKeepCache
<1>9. CASE Crash \/ RecoveryFails
  BY <1>9, FreshCache DEF Crash, RecoveryFails
<1> QED
  BY <1>1, <1>2, <1>3, <1>4, <1>5, <1>6, <1>7, <1>8, <1>9, BeginCache,
     WriteCache, CompleteCache, UpdateCacheCache DEF Next, Replay

(***************************************************************************)
(* Between submissions the cache is the end of the series, whatever was    *)
(* submitted twice, failed half way, was replayed or lost with the process *)
(* (RealtimeCache.Update, called last by replayIngestion).                 *)
(***************************************************************************)
THEOREM CacheAgreesHolds == Spec => []CacheAgrees
<1>1. Init => CacheInv
  <2> SUFFICES ASSUME Init, NEW a \in present PROVE CacheFor(a)
    BY DEF CacheInv, CacheFor
  <2>1. cached[a] = <<>> /\ stored[a] = {} /\ job[a].at = "idle"
    BY IdleFacts DEF Init
  <2>2. Len(cached[a]) = 0
    BY <2>1
  <2> QED
    BY <2>1, <2>2
    DEF CacheFor, CacheOrdered, CacheSettled, CacheWhole, NewestLast, CacheDue
<1>2. Sound /\ CacheInv => CacheAgrees
  <2> SUFFICES ASSUME Sound, CacheInv, NEW a \in present, job[a] = Idle,
                      Rows(a, "pending") = {}, cached[a] # <<>>
               PROVE  /\ \A i \in 1 .. Len(cached[a]) - 1 :
                            cached[a][i] < cached[a][i + 1]
                      /\ {cached[a][i] : i \in 1 .. Len(cached[a])}
                           = {s \in stored[a] : cached[a][1] <= s}
    BY DEF CacheAgrees
  <2>1. a \in Agents /\ CacheFor(a) /\ job[a].at # "cache"
    BY IdleFacts DEF Sound, TypeOK, CacheInv, CacheFor
  <2>2. /\ CachedAre(a) /\ Len(cached[a]) \in Nat /\ stored[a] \subseteq Reports
        /\ 1 \in 1 .. Len(cached[a])
    BY <2>1, CachedReports
  <2>3. \A r \in Reports : journal[a][r] = "complete" <=> r \in stored[a]
    BY <2>1 DEF Rows, Sound, TypeOK, StoredRows
  <2>4. \A i \in 1 .. Len(cached[a]) - 1 : cached[a][i] < cached[a][i + 1]
    BY <2>1, <2>2 DEF CacheFor, CacheOrdered
  <2>5. \A i \in 1 .. Len(cached[a]) : cached[a][1] <= cached[a][i]
    <3>1. \A r \in Reports : r \in Nat
      BY JournalAssumption DEF Reports
    <3> SUFFICES ASSUME NEW i \in 1 .. Len(cached[a])
                 PROVE  cached[a][1] <= cached[a][i]
      OBVIOUS
    <3>2. i = 1 \/ 1 < i
      BY <2>2
    <3>3. cached[a][1] \in Nat /\ cached[a][i] \in Nat
      BY <2>2, <3>1 DEF CachedAre
    <3> QED
      BY <2>1, <2>2, <3>2, <3>3 DEF CacheFor, CacheOrdered
  <2>6. \A i \in 1 .. Len(cached[a]) : cached[a][i] \in stored[a]
    BY <2>1, <2>2, <2>3 DEF CacheFor, CacheSettled, CachedAre
  <2>7. \A s \in stored[a] : cached[a][1] <= s =>
            \E i \in 1 .. Len(cached[a]) : cached[a][i] = s
    BY <2>1, <2>2, <2>3 DEF CacheFor, CacheWhole, Caching
  <2> QED
    BY <2>4, <2>5, <2>6, <2>7
<1> QED
  BY <1>1, <1>2, InitSound, NextSound, NextCache, PTL DEF Spec

-----------------------------------------------------------------------------
(***************************************************************************)
(* Part three: the incidents of network monitors.                          *)
(*                                                                         *)
(* The types, of a value each, so that a step can be judged by the value   *)
(* it leaves as well as by the one it found.                               *)
(***************************************************************************)
AlarmRows ==
  [rule : LossRules, monitor : LossMonitors, state : {"open", "resolved", "closed"}]

NoticeRows ==
  [alarm : 1..MaxAlarms, phase : {"firing", "recovery"},
   status : {"queued", "pending", "success", "failed", "skipped", "unknown"}]

AlarmsOK(A) == A \in Seq(AlarmRows) /\ Len(A) <= MaxAlarms

NoticesOK(A, N) ==
  /\ N \in Seq(NoticeRows) /\ Len(N) <= MaxNotices
  /\ \A n \in DOMAIN N : N[n].alarm \in DOMAIN A

WatchesOK(A, W) ==
  /\ W \in [LossRules -> [LossMonitors ->
       [status : {"absent", "ok", "firing", "failed"}, alarm : NoAlarm..MaxAlarms]]]
  /\ \A r \in LossRules, m \in LossMonitors : W[r][m].alarm \in {NoAlarm} \cup DOMAIN A

CouriersOK(N, C) ==
  /\ C \in [1..MaxNotices -> {"none", "waiting", "claimed", "posted"}]
  /\ \A n \in 1..MaxNotices : C[n] # "none" => n \in DOMAIN N

EvaluationsOK(N, V) ==
  V \in [Evaluators -> [on : BOOLEAN, left : SUBSET LossMonitors, queued : SUBSET (DOMAIN N)]]

LossTyped ==
  /\ lossRule \in [LossRules -> {"on", "off", "deleted"}]
  /\ metered \in [LossMonitors -> {"unused", "enabled", "paused", "archived"}]
  /\ AlarmsOK(alarm) /\ NoticesOK(alarm, notice) /\ WatchesOK(alarm, watch)
  /\ CouriersOK(notice, courier) /\ EvaluationsOK(notice, evaluation)

(***************************************************************************)
(* The rows.  One that is not alarmed names no incident, and an unused     *)
(* monitor is watched by none, so that a replacement finds no row of its   *)
(* new id.  Tracks is WatchesTrackAlarms of any alarms, rows and monitors. *)
(***************************************************************************)
Alarmed(row) == row.status \in {"firing", "failed"}

Rests(W, M) ==
  \A r \in LossRules, m \in LossMonitors :
    /\ ~Alarmed(W[r][m]) => W[r][m].alarm = NoAlarm
    /\ M[m] = "unused" => W[r][m].status = "absent"

Tracks(A, W, M) ==
  /\ \A r \in LossRules, m \in LossMonitors :
       M[m] \in {"enabled", "paused"} /\ Alarmed(W[r][m]) =>
         /\ W[r][m].alarm # NoAlarm
         /\ A[W[r][m].alarm] = [rule |-> r, monitor |-> m, state |-> "open"]
  /\ \A a \in DOMAIN A :
       A[a].state = "open" =>
         /\ W[A[a].rule][A[a].monitor].alarm = a
         /\ Alarmed(W[A[a].rule][A[a].monitor])

(***************************************************************************)
(* The notices.  Of an incident and a phase only the latest may be under   *)
(* way, which is what leaves one at most; every incident has been told of, *)
(* a recovery exactly if it is resolved; and no firing notice is queued    *)
(* for an incident that is over.                                           *)
(***************************************************************************)
Underway(n) == n.status \in {"queued", "pending"}
SameKind(k, n) == k.alarm = n.alarm /\ k.phase = n.phase

OneUnderway(N) ==
  \A n \in DOMAIN N, k \in DOMAIN N : k < n /\ SameKind(N[k], N[n]) => ~Underway(N[k])

Told(A, N) ==
  \A a \in DOMAIN A :
    /\ \E n \in DOMAIN N : N[n].alarm = a /\ N[n].phase = "firing"
    /\ (A[a].state = "resolved")
         <=> (\E n \in DOMAIN N : N[n].alarm = a /\ N[n].phase = "recovery")

NoneQueuedForOver(A, N) ==
  \A n \in DOMAIN N :
    N[n].phase = "firing" /\ N[n].status = "queued" => A[N[n].alarm].state = "open"

NoticeInv(A, N) == OneUnderway(N) /\ Told(A, N) /\ NoneQueuedForOver(A, N)

(* The inductive invariant. *)
LossInv ==
  /\ LossTyped
  /\ Rests(watch, metered) /\ Tracks(alarm, watch, metered)
  /\ NoticeInv(alarm, notice)

-----------------------------------------------------------------------------
(***************************************************************************)
(* Sequences: a function on 1..n is one, a set is listed once by SetToSeq. *)
(***************************************************************************)
LEMMA FunctionIsSequence ==
  ASSUME NEW S, NEW n \in Nat, NEW f \in [1..n -> S]
  PROVE  f \in Seq(S) /\ Len(f) = n /\ DOMAIN f = 1..n
  BY SeqDef

LEMMA SequenceIsFunction ==
  ASSUME NEW S, NEW s \in Seq(S)
  PROVE  /\ Len(s) \in Nat /\ DOMAIN s = 1..Len(s)
         /\ \A i \in 1..Len(s) : s[i] \in S
  OBVIOUS

LEMMA ListedOnce ==
  ASSUME NEW S, IsFiniteSet(S)
  PROVE  /\ SetToSeq(S) \in Seq(S)
         /\ ToSet(SetToSeq(S)) = S
         /\ \A i, j \in DOMAIN SetToSeq(S) : SetToSeq(S)[i] = SetToSeq(S)[j] => i = j
<1> DEFINE n == Cardinality(S)
<1> DEFINE f == SetToSeq(S)
<1>1. n \in Nat /\ ExistsBijection(1..n, S)
  BY FS_CardinalityType
<1>2. \E g \in [1..n -> S] : IsInjective(g)
  BY <1>1 DEF ExistsBijection, Bijection, Injection
<1>3. f \in [1..n -> S] /\ IsInjective(f)
  BY <1>2 DEF SetToSeq
<1>4. Cardinality(1..n) = n
  BY <1>1, FS_Interval
<1>5. f \in Surjection(1..n, S)
  BY <1>3, <1>4, FS_Injection DEF Injection
<1> HIDE DEF f, n
<1>6. ToSet(f) = S
  BY <1>3, <1>5 DEF ToSet, Surjection
<1>7. f \in Seq(S)
  BY <1>1, <1>3, FunctionIsSequence
<1> QED
  BY <1>3, <1>6, <1>7 DEF IsInjective, f

-----------------------------------------------------------------------------
(***************************************************************************)
(* Rewritten incidents and notices keep what does not depend on their      *)
(* states; closing incidents keeps all of NoticeInv.                       *)
(***************************************************************************)
LEMMA AlarmFacts ==
  ASSUME NEW A, AlarmsOK(A)
  PROVE  /\ Len(A) \in Nat /\ DOMAIN A = 1..Len(A)
         /\ \A i \in DOMAIN A : A[i] \in AlarmRows
  BY DEF AlarmsOK

LEMMA NoticeFacts ==
  ASSUME NEW A, NEW N, NoticesOK(A, N)
  PROVE  /\ Len(N) \in Nat /\ DOMAIN N = 1..Len(N)
         /\ \A n \in DOMAIN N : N[n] \in NoticeRows /\ N[n].alarm \in DOMAIN A
  BY DEF NoticesOK

LEMMA AlarmsRewritten ==
  ASSUME NEW A, AlarmsOK(A), NEW B, B = [i \in DOMAIN A |-> B[i]],
         \A i \in DOMAIN A : B[i] \in AlarmRows
  PROVE  AlarmsOK(B) /\ DOMAIN B = DOMAIN A /\ Len(B) = Len(A)
<1>1. Len(A) \in Nat /\ DOMAIN A = 1..Len(A)
  BY AlarmFacts
<1>2. B \in [1..Len(A) -> AlarmRows]
  BY <1>1
<1> QED
  BY <1>1, <1>2, FunctionIsSequence DEF AlarmsOK

LEMMA NoticesRewritten ==
  ASSUME NEW A, NEW N, NoticesOK(A, N), NEW B, DOMAIN B = DOMAIN A,
         NEW M, M = [n \in DOMAIN N |-> M[n]],
         \A n \in DOMAIN N : M[n] \in NoticeRows /\ M[n].alarm \in DOMAIN A
  PROVE  NoticesOK(B, M) /\ DOMAIN M = DOMAIN N /\ Len(M) = Len(N)
<1>1. Len(N) \in Nat /\ DOMAIN N = 1..Len(N)
  BY NoticeFacts
<1>2. M \in [1..Len(N) -> NoticeRows]
  BY <1>1
<1> QED
  BY <1>1, <1>2, FunctionIsSequence DEF NoticesOK

LEMMA RewrittenKeeps ==
  ASSUME NEW A, NEW N, AlarmsOK(A), NoticesOK(A, N), NoticeInv(A, N),
         NEW B, DOMAIN B = DOMAIN A,
         \A i \in DOMAIN A : (B[i].state = "resolved") <=> (A[i].state = "resolved"),
         NEW M, DOMAIN M = DOMAIN N,
         \A n \in DOMAIN N : SameKind(M[n], N[n]) /\ (Underway(M[n]) => Underway(N[n])),
         NoneQueuedForOver(B, M)
  PROVE  NoticeInv(B, M)
<1>1. OneUnderway(M)
  BY DEF NoticeInv, OneUnderway, SameKind
<1>2. Told(B, M)
  BY DEF NoticeInv, Told, SameKind
<1> QED
  BY <1>1, <1>2 DEF NoticeInv

\* Incidents that are open are closed, and their queued notices skipped.
ClosesOnly(A, N, E, S, B, M) ==
  /\ E \subseteq {i \in DOMAIN A : A[i].state = "open"}
  /\ \A n \in DOMAIN N : N[n].alarm \in E => n \in S
  /\ B = [i \in DOMAIN A |-> IF i \in E THEN [A[i] EXCEPT !.state = "closed"] ELSE A[i]]
  /\ M = [n \in DOMAIN N |-> IF n \in S /\ N[n].status = "queued"
                             THEN [N[n] EXCEPT !.status = "skipped"] ELSE N[n]]

LEMMA ClosingKeeps ==
  ASSUME NEW A, NEW N, NEW E, NEW S, NEW B, NEW M,
         AlarmsOK(A), NoticesOK(A, N), NoticeInv(A, N), ClosesOnly(A, N, E, S, B, M)
  PROVE  /\ AlarmsOK(B) /\ NoticesOK(B, M) /\ NoticeInv(B, M)
         /\ DOMAIN B = DOMAIN A /\ DOMAIN M = DOMAIN N
<1>1. /\ DOMAIN B = DOMAIN A
      /\ \A i \in DOMAIN A :
           /\ i \in E => A[i].state = "open" /\ B[i] = [A[i] EXCEPT !.state = "closed"]
           /\ i \notin E => B[i] = A[i]
  BY DEF ClosesOnly
<1>2. /\ DOMAIN M = DOMAIN N
      /\ \A n \in DOMAIN N :
           /\ n \in S /\ N[n].status = "queued" => M[n] = [N[n] EXCEPT !.status = "skipped"]
           /\ ~(n \in S /\ N[n].status = "queued") => M[n] = N[n]
           /\ N[n].alarm \in E => n \in S
  BY DEF ClosesOnly
<1>3. B = [i \in DOMAIN A |-> B[i]] /\ M = [n \in DOMAIN N |-> M[n]]
  BY DEF ClosesOnly
<1>4. \A i \in DOMAIN A :
        B[i] \in AlarmRows /\ ((B[i].state = "resolved") <=> (A[i].state = "resolved"))
  BY <1>1, AlarmFacts DEF AlarmRows
<1>5. \A n \in DOMAIN N :
        /\ M[n] \in NoticeRows /\ M[n].alarm \in DOMAIN A
        /\ SameKind(M[n], N[n]) /\ (Underway(M[n]) => Underway(N[n]))
        /\ M[n].status = "queued" => N[n].status = "queued" /\ N[n].alarm \notin E
  BY <1>2, NoticeFacts DEF NoticeRows, SameKind, Underway
<1>6. AlarmsOK(B)
  BY <1>3, <1>4, AlarmsRewritten
<1>7. NoticesOK(B, M)
  BY <1>1, <1>3, <1>5, NoticesRewritten
<1>8. NoneQueuedForOver(B, M)
  BY <1>1, <1>2, <1>5, NoticeFacts DEF NoneQueuedForOver, NoticeInv, SameKind
<1>9. NoticeInv(B, M)
  BY <1>1, <1>2, <1>4, <1>5, <1>8, RewrittenKeeps
<1> QED
  BY <1>1, <1>2, <1>6, <1>7, <1>9

-----------------------------------------------------------------------------
(***************************************************************************)
(* What closing incidents asks of the rows, and the step that does both.   *)
(***************************************************************************)
\* The rows follow when the incidents E are closed.
RowsFollow(A, E, W, M, V, L) ==
  /\ V = [r \in LossRules |-> [m \in LossMonitors |-> V[r][m]]]
  /\ \A r \in LossRules, m \in LossMonitors :
       /\ V[r][m] \in {W[r][m], Watching, NoWatch}
       /\ L[m] = "unused" => V[r][m].status = "absent"
       /\ L[m] \in {"enabled", "paused"} /\ Alarmed(W[r][m]) /\ V[r][m] = W[r][m] =>
            M[m] \in {"enabled", "paused"} /\ W[r][m].alarm \notin E
  /\ \A a \in DOMAIN A :
       a \notin E /\ A[a].state = "open" =>
         V[A[a].rule][A[a].monitor] = W[A[a].rule][A[a].monitor]

LEMMA RowFacts ==
  ASSUME NEW A, NEW W, AlarmsOK(A), WatchesOK(A, W), NEW r \in LossRules, NEW m \in LossMonitors
  PROVE  /\ W[r][m] \in [status : {"absent", "ok", "firing", "failed"}, alarm : NoAlarm..MaxAlarms]
         /\ W[r][m].alarm \in {NoAlarm} \cup DOMAIN A
  BY DEF WatchesOK

LEMMA RowsFollowClosing ==
  ASSUME NEW A, NEW N, NEW E, NEW S, NEW B, NEW K, NEW W, NEW M, NEW V, NEW L,
         AlarmsOK(A), AlarmsOK(B), WatchesOK(A, W), Rests(W, M), Tracks(A, W, M),
         ClosesOnly(A, N, E, S, B, K), RowsFollow(A, E, W, M, V, L)
  PROVE  WatchesOK(B, V) /\ Rests(V, L) /\ Tracks(B, V, L)
<1>1. /\ DOMAIN B = DOMAIN A
      /\ \A i \in DOMAIN A :
           /\ i \in E => B[i] = [A[i] EXCEPT !.state = "closed"]
           /\ i \notin E => B[i] = A[i]
  BY DEF ClosesOnly
<1>2. \A r \in LossRules, m \in LossMonitors :
        /\ V[r][m] \in [status : {"absent", "ok", "firing", "failed"}, alarm : NoAlarm..MaxAlarms]
        /\ V[r][m].alarm \in {NoAlarm} \cup DOMAIN B
        /\ ~Alarmed(V[r][m]) => V[r][m].alarm = NoAlarm
        /\ Alarmed(V[r][m]) => V[r][m] = W[r][m]
  <2> TAKE r \in LossRules, m \in LossMonitors
  <2>1. V[r][m] \in {W[r][m], Watching, NoWatch}
    BY DEF RowsFollow
  <2>2. CASE V[r][m] = W[r][m]
    BY <2>2, <1>1, RowFacts DEF Rests
  <2>3. CASE V[r][m] = Watching
    BY <2>3, LossAssumption DEF Watching, NoAlarm, Alarmed
  <2>4. CASE V[r][m] = NoWatch
    BY <2>4, LossAssumption DEF NoWatch, NoAlarm, Alarmed
  <2> QED
    BY <2>1, <2>2, <2>3, <2>4
<1>3. WatchesOK(B, V)
  BY <1>2 DEF WatchesOK, RowsFollow
<1>4. Rests(V, L)
  BY <1>2 DEF Rests, RowsFollow
<1>5. ASSUME NEW r \in LossRules, NEW m \in LossMonitors,
             L[m] \in {"enabled", "paused"}, Alarmed(V[r][m])
      PROVE  /\ V[r][m].alarm # NoAlarm
             /\ B[V[r][m].alarm] = [rule |-> r, monitor |-> m, state |-> "open"]
  <2>1. V[r][m] = W[r][m] /\ M[m] \in {"enabled", "paused"} /\ W[r][m].alarm \notin E
    BY <1>2, <1>5 DEF RowsFollow
  <2>2. /\ W[r][m].alarm # NoAlarm
        /\ A[W[r][m].alarm] = [rule |-> r, monitor |-> m, state |-> "open"]
    BY <2>1, <1>5 DEF Tracks
  <2>3. W[r][m].alarm \in DOMAIN A
    BY <2>2, RowFacts
  <2> QED
    BY <2>1, <2>2, <2>3, <1>1
<1>6. ASSUME NEW a \in DOMAIN B, B[a].state = "open"
      PROVE  /\ V[B[a].rule][B[a].monitor].alarm = a
             /\ Alarmed(V[B[a].rule][B[a].monitor])
  <2>1. a \in DOMAIN A /\ a \notin E /\ B[a] = A[a]
    BY <1>1, <1>6, AlarmFacts DEF AlarmRows
  <2> QED
    BY <2>1, <1>6 DEF RowsFollow, Tracks
<1> QED
  BY <1>3, <1>4, <1>5, <1>6 DEF Tracks

LEMMA ClosingStep ==
  ASSUME LossInv, NEW E, NEW S,
         ClosesOnly(alarm, notice, E, S, alarm', notice'),
         RowsFollow(alarm, E, watch, metered, watch', metered'),
         lossRule' \in [LossRules -> {"on", "off", "deleted"}],
         metered' \in [LossMonitors -> {"unused", "enabled", "paused", "archived"}],
         UNCHANGED <<courier, evaluation>>
  PROVE  LossInv'
<1>1. /\ AlarmsOK(alarm) /\ NoticesOK(alarm, notice) /\ NoticeInv(alarm, notice)
      /\ WatchesOK(alarm, watch) /\ Rests(watch, metered) /\ Tracks(alarm, watch, metered)
      /\ CouriersOK(notice, courier) /\ EvaluationsOK(notice, evaluation)
  BY DEF LossInv, LossTyped
<1>2. /\ AlarmsOK(alarm') /\ NoticesOK(alarm', notice') /\ NoticeInv(alarm', notice')
      /\ DOMAIN notice' = DOMAIN notice
  BY <1>1, ClosingKeeps
<1>3. WatchesOK(alarm', watch') /\ Rests(watch', metered') /\ Tracks(alarm', watch', metered')
  BY <1>1, <1>2, RowsFollowClosing
<1>4. CouriersOK(notice', courier') /\ EvaluationsOK(notice', evaluation')
  BY <1>1, <1>2 DEF CouriersOK, EvaluationsOK
<1> QED
  BY <1>2, <1>3, <1>4 DEF LossInv, LossTyped

-----------------------------------------------------------------------------
(***************************************************************************)
(* The operations on monitors and rules.                                   *)
(***************************************************************************)
LEMMA InitInv == LossInit => LossInv
<1> SUFFICES ASSUME LossInit PROVE LossInv
  OBVIOUS
<1>1. alarm = <<>> /\ notice = <<>> /\ Len(<<>>) = 0 /\ DOMAIN (<<>>) = {}
  BY DEF LossInit
<1>2. AlarmsOK(alarm) /\ NoticesOK(alarm, notice)
  BY <1>1, LossAssumption DEF AlarmsOK, NoticesOK
<1>3. \A r \in LossRules, m \in LossMonitors : watch[r][m] = NoWatch
  BY DEF LossInit
<1>4. WatchesOK(alarm, watch)
  <2>1. NoWatch \in [status : {"absent", "ok", "firing", "failed"}, alarm : NoAlarm..MaxAlarms]
    BY LossAssumption DEF NoWatch, NoAlarm
  <2> QED
    BY <2>1, <1>3 DEF WatchesOK, NoWatch, LossInit
<1>5. CouriersOK(notice, courier) /\ EvaluationsOK(notice, evaluation)
  BY DEF LossInit, CouriersOK, EvaluationsOK, NotEvaluating
<1>6. Rests(watch, metered) /\ Tracks(alarm, watch, metered)
  BY <1>1, <1>3 DEF Rests, Tracks, NoWatch, Alarmed
<1>7. NoticeInv(alarm, notice)
  BY <1>1 DEF NoticeInv, OneUnderway, Told, NoneQueuedForOver
<1> QED
  BY <1>2, <1>4, <1>5, <1>6, <1>7 DEF LossInv, LossTyped, LossInit

LEMMA InvFacts ==
  ASSUME LossInv
  PROVE  /\ \A i \in DOMAIN alarm : alarm[i] \in AlarmRows
         /\ \A r \in LossRules, m \in LossMonitors :
              /\ watch[r][m] \in [status : {"absent", "ok", "firing", "failed"},
                                  alarm : NoAlarm..MaxAlarms]
              /\ watch[r][m].alarm \in {NoAlarm} \cup DOMAIN alarm
  BY AlarmFacts, RowFacts DEF LossInv, LossTyped

LEMMA CloseIncidentsCloses ==
  ASSUME LossInv, NEW Pairs, CloseIncidents(Pairs)
  PROVE  LET E == {i \in DOMAIN alarm : alarm[i].state = "open"
                                        /\ <<alarm[i].rule, alarm[i].monitor>> \in Pairs}
         IN  /\ ClosesOnly(alarm, notice, E, NoticesOf(E), alarm', notice')
             /\ watch' = Calmed(Pairs)
  BY DEF CloseIncidents, ClosesOnly, OpenWhere, NoticesOf, Closing, Skipping

LEMMA CreateMonitorKeeps ==
  ASSUME LossInv, NEW m \in LossMonitors, CreateMonitor(m)
  PROVE  LossInv'
<1> USE DEF CreateMonitor
<1>1. LossTyped'
  BY DEF LossInv, LossTyped
<1>2. Rests(watch', metered')
  BY DEF LossInv, LossTyped, Rests
<1>3. \A r \in LossRules : ~Alarmed(watch[r][m])
  BY DEF LossInv, Rests, Alarmed
<1>4. Tracks(alarm', watch', metered')
  BY <1>3 DEF LossInv, LossTyped, Tracks
<1> QED
  BY <1>1, <1>2, <1>4 DEF LossInv

LEMMA MonitorClosed ==
  ASSUME LossInv, NEW m \in LossMonitors, CloseIncidents(LossRules \X {m}),
         metered[m] # "unused", NEW state \in {"enabled", "paused", "archived"},
         metered' = [metered EXCEPT ![m] = state],
         UNCHANGED <<lossRule, courier, evaluation>>
  PROVE  LossInv'
<1> DEFINE E == {i \in DOMAIN alarm :
                   alarm[i].state = "open" /\ <<alarm[i].rule, alarm[i].monitor>> \in LossRules \X {m}}
<1>1. /\ ClosesOnly(alarm, notice, E, NoticesOf(E), alarm', notice')
      /\ watch' = Calmed(LossRules \X {m})
  BY CloseIncidentsCloses
<1>2. \A r \in LossRules, k \in LossMonitors :
        /\ k # m => watch'[r][k] = watch[r][k]
        /\ k = m => watch'[r][k] = IF Watches(r, k) THEN Watching ELSE watch[r][k]
  BY <1>1 DEF Calmed
<1>3. \A i \in DOMAIN alarm : i \in E <=> alarm[i].state = "open" /\ alarm[i].monitor = m
  BY InvFacts DEF AlarmRows
<1> HIDE DEF E
<1>4. metered' \in [LossMonitors -> {"unused", "enabled", "paused", "archived"}]
  BY DEF LossInv, LossTyped
<1>5. \A k \in LossMonitors : k # m => metered'[k] = metered[k]
  BY DEF LossInv, LossTyped
<1>6. metered'[m] # "unused"
  BY DEF LossInv, LossTyped
<1>7. ASSUME NEW r \in LossRules, NEW k \in LossMonitors
      PROVE  /\ watch'[r][k] \in {watch[r][k], Watching, NoWatch}
             /\ metered'[k] = "unused" => watch'[r][k].status = "absent"
             /\ metered'[k] \in {"enabled", "paused"} /\ Alarmed(watch[r][k])
                  /\ watch'[r][k] = watch[r][k] =>
                  metered[k] \in {"enabled", "paused"} /\ watch[r][k].alarm \notin E
  <2>1. CASE k = m
    BY <2>1, <1>2, <1>6 DEF Watches, Watching, Alarmed
  <2>2. CASE k # m
    <3>1. watch'[r][k] = watch[r][k] /\ metered'[k] = metered[k]
      BY <2>2, <1>2, <1>5
    <3>2. metered[k] \in {"enabled", "paused"} /\ Alarmed(watch[r][k]) =>
            /\ watch[r][k].alarm # NoAlarm
            /\ alarm[watch[r][k].alarm] = [rule |-> r, monitor |-> k, state |-> "open"]
      BY DEF LossInv, Tracks
    <3>3. metered[k] \in {"enabled", "paused"} /\ Alarmed(watch[r][k]) => watch[r][k].alarm \notin E
      BY <3>2, <2>2, <1>3, InvFacts
    <3> QED
      BY <3>1, <3>3 DEF LossInv, Rests
  <2> QED
    BY <2>1, <2>2
<1>8. ASSUME NEW a \in DOMAIN alarm, a \notin E, alarm[a].state = "open"
      PROVE  watch'[alarm[a].rule][alarm[a].monitor] = watch[alarm[a].rule][alarm[a].monitor]
  BY <1>2, <1>3, <1>8, InvFacts DEF AlarmRows
<1>9. watch' = [r \in LossRules |-> [k \in LossMonitors |-> watch'[r][k]]]
  BY <1>1 DEF Calmed
<1>10. RowsFollow(alarm, E, watch, metered, watch', metered')
  BY <1>7, <1>8, <1>9 DEF RowsFollow
<1> QED
  BY <1>1, <1>4, <1>10, ClosingStep DEF LossInv, LossTyped

LEMMA EditMonitorKeeps ==
  ASSUME LossInv, NEW m \in LossMonitors, NEW state \in {"enabled", "paused"},
         EditMonitor(m, state)
  PROVE  LossInv'
<1> USE DEF EditMonitor, Current
<1>1. CASE state = "paused"
  BY <1>1, MonitorClosed
<1>2. CASE state # "paused"
  <2>1. UNCHANGED <<watch, alarm, notice, courier, evaluation, lossRule>>
    BY <1>2
  <2>2. LossTyped'
    BY <2>1 DEF LossInv, LossTyped
  <2>3. Rests(watch', metered') /\ Tracks(alarm', watch', metered')
    BY <2>1 DEF LossInv, LossTyped, Rests, Tracks
  <2> QED
    BY <2>1, <2>2, <2>3 DEF LossInv
<1> QED
  BY <1>1, <1>2

LEMMA ArchiveMonitorKeeps ==
  ASSUME LossInv, NEW m \in LossMonitors, ArchiveMonitor(m)
  PROVE  LossInv'
  BY MonitorClosed DEF ArchiveMonitor

\* An alarmed row of a monitor that is not archived names the open incident of its pair.
LEMMA RowNamesOpen ==
  ASSUME LossInv, NEW r \in LossRules, NEW m \in LossMonitors,
         metered[m] \in {"enabled", "paused"}, Alarmed(watch[r][m])
  PROVE  /\ watch[r][m].alarm \in DOMAIN alarm
         /\ alarm[watch[r][m].alarm] = [rule |-> r, monitor |-> m, state |-> "open"]
         /\ alarm[watch[r][m].alarm].rule = r /\ alarm[watch[r][m].alarm].monitor = m
<1>1. /\ watch[r][m].alarm # NoAlarm
      /\ alarm[watch[r][m].alarm] = [rule |-> r, monitor |-> m, state |-> "open"]
  BY DEF LossInv, Tracks
<1> QED
  BY <1>1, InvFacts

LEMMA ReplaceMonitorKeeps ==
  ASSUME LossInv, NEW m \in LossMonitors, NEW new \in LossMonitors,
         NEW state \in {"enabled", "paused"}, ReplaceMonitor(m, new, state)
  PROVE  LossInv'
<1> USE DEF ReplaceMonitor, Current
<1> DEFINE E == {i \in DOMAIN alarm : alarm[i].state = "open" /\ alarm[i].monitor = m}
<1>1. ClosesOnly(alarm, notice, E, NoticesOf(E), alarm', notice')
  BY DEF ClosesOnly, OpenWhere, NoticesOf, Closing, Skipping
<1>2. \A i \in DOMAIN alarm : i \in E <=> alarm[i].state = "open" /\ alarm[i].monitor = m
  OBVIOUS
<1> HIDE DEF E
<1>3. m # new
  OBVIOUS
<1>4. /\ metered' \in [LossMonitors -> {"unused", "enabled", "paused", "archived"}]
      /\ metered'[m] = "archived" /\ metered'[new] = state
      /\ \A k \in LossMonitors \ {m, new} : metered'[k] = metered[k]
  BY <1>3 DEF LossInv, LossTyped
<1>5. \A r \in LossRules :
        /\ watch'[r] = [watch[r] EXCEPT ![m] = NoWatch, ![new] = Calmed({<<r, m>>})[r][m]]
        /\ Calmed({<<r, m>>})[r][m] = IF Watches(r, m) THEN Watching ELSE watch[r][m]
        /\ DOMAIN watch[r] = LossMonitors
  BY DEF Calmed, LossInv, LossTyped, WatchesOK
<1>6. \A r \in LossRules :
        /\ watch'[r][m] = NoWatch
        /\ watch'[r][new] = IF Watches(r, m) THEN Watching ELSE watch[r][m]
        /\ \A k \in LossMonitors \ {m, new} : watch'[r][k] = watch[r][k]
        /\ watch'[r] = [k \in LossMonitors |-> watch'[r][k]]
  BY <1>3, <1>5
<1>7. \A r \in LossRules : ~Watches(r, m) => watch[r][m] = NoWatch
  BY InvFacts DEF Watches, NoWatch, LossInv, Rests, Alarmed
<1>8. \A r \in LossRules : ~Alarmed(watch[r][new])
  BY DEF LossInv, Rests, Alarmed
<1>9. ASSUME NEW r \in LossRules, NEW k \in LossMonitors
      PROVE  /\ watch'[r][k] \in {watch[r][k], Watching, NoWatch}
             /\ metered'[k] = "unused" => watch'[r][k].status = "absent"
             /\ metered'[k] \in {"enabled", "paused"} /\ Alarmed(watch[r][k])
                  /\ watch'[r][k] = watch[r][k] =>
                  metered[k] \in {"enabled", "paused"} /\ watch[r][k].alarm \notin E
  <2>1. CASE k = m
    BY <2>1, <1>6, <1>4
  <2>2. CASE k = new
    BY <2>2, <1>6, <1>7, <1>8, <1>4
  <2>3. CASE k \in LossMonitors \ {m, new}
    <3>1. watch'[r][k] = watch[r][k] /\ metered'[k] = metered[k]
      BY <2>3, <1>4, <1>6
    <3>2. metered[k] \in {"enabled", "paused"} /\ Alarmed(watch[r][k]) => watch[r][k].alarm \notin E
      <4> HAVE metered[k] \in {"enabled", "paused"} /\ Alarmed(watch[r][k])
      <4>1. watch[r][k].alarm \in DOMAIN alarm /\ alarm[watch[r][k].alarm].monitor = k
        BY RowNamesOpen
      <4> QED
        BY <4>1, <2>3, <1>2
    <3> QED
      BY <3>1, <3>2 DEF LossInv, Rests
  <2> QED
    BY <2>1, <2>2, <2>3
<1>10. ASSUME NEW a \in DOMAIN alarm, a \notin E, alarm[a].state = "open"
       PROVE  watch'[alarm[a].rule][alarm[a].monitor] = watch[alarm[a].rule][alarm[a].monitor]
  <2>1. alarm[a].rule \in LossRules /\ alarm[a].monitor \in LossMonitors
    BY InvFacts DEF AlarmRows
  <2>2. Alarmed(watch[alarm[a].rule][alarm[a].monitor])
    BY <1>10 DEF LossInv, Tracks
  <2>3. alarm[a].monitor # m /\ alarm[a].monitor # new
    BY <2>1, <2>2, <1>2, <1>8, <1>10
  <2> QED
    BY <2>1, <2>3, <1>6
<1>11. watch' = [r \in LossRules |-> [k \in LossMonitors |-> watch'[r][k]]]
  BY <1>6
<1>12. RowsFollow(alarm, E, watch, metered, watch', metered')
  BY <1>9, <1>10, <1>11 DEF RowsFollow
<1> QED
  BY <1>1, <1>4, <1>12, ClosingStep DEF LossInv, LossTyped

LEMMA DeleteMeteredAgentKeeps ==
  ASSUME LossInv, DeleteMeteredAgent
  PROVE  LossInv'
<1> USE DEF DeleteMeteredAgent, Current
<1> DEFINE E == {i \in DOMAIN alarm : alarm[i].state = "open"}
<1>1. ClosesOnly(alarm, notice, E, DOMAIN notice, alarm', notice')
  BY DEF ClosesOnly, OpenWhere, Closing, Skipping
<1>2. /\ metered' \in [LossMonitors -> {"unused", "enabled", "paused", "archived"}]
      /\ \A m \in LossMonitors :
           /\ metered'[m] \notin {"enabled", "paused"}
           /\ metered'[m] = "unused" => metered[m] = "unused"
  BY DEF LossInv, LossTyped
<1>3. watch' = [r \in LossRules |-> [m \in LossMonitors |-> watch'[r][m]]]
  BY DEF LossInv, LossTyped, WatchesOK
<1>4. RowsFollow(alarm, E, watch, metered, watch', metered')
  BY <1>2, <1>3 DEF RowsFollow, LossInv, Rests
<1> QED
  BY <1>1, <1>2, <1>4, ClosingStep DEF LossInv, LossTyped

LEMMA DeleteLossRuleKeeps ==
  ASSUME LossInv, NEW r \in LossRules, DeleteLossRule(r)
  PROVE  LossInv'
<1> USE DEF DeleteLossRule
<1> DEFINE E == {i \in DOMAIN alarm : alarm[i].state = "open" /\ alarm[i].rule = r}
<1> DEFINE S == NoticesOf({i \in DOMAIN alarm : alarm[i].rule = r})
<1>1. ClosesOnly(alarm, notice, E, S, alarm', notice')
  BY DEF ClosesOnly, OpenWhere, NoticesOf, Closing, Skipping
<1>2. \A i \in DOMAIN alarm : i \in E <=> alarm[i].state = "open" /\ alarm[i].rule = r
  OBVIOUS
<1> HIDE DEF E, S
<1>3. /\ \A m \in LossMonitors : watch'[r][m] = NoWatch
      /\ \A s \in LossRules \ {r}, m \in LossMonitors : watch'[s][m] = watch[s][m]
      /\ watch' = [s \in LossRules |-> [m \in LossMonitors |-> watch'[s][m]]]
  BY DEF LossInv, LossTyped, WatchesOK
<1>4. ASSUME NEW s \in LossRules, NEW m \in LossMonitors
      PROVE  /\ watch'[s][m] \in {watch[s][m], Watching, NoWatch}
             /\ metered'[m] = "unused" => watch'[s][m].status = "absent"
             /\ metered'[m] \in {"enabled", "paused"} /\ Alarmed(watch[s][m])
                  /\ watch'[s][m] = watch[s][m] =>
                  metered[m] \in {"enabled", "paused"} /\ watch[s][m].alarm \notin E
  <2>1. CASE s = r
    BY <2>1, <1>3 DEF NoWatch, Alarmed
  <2>2. CASE s # r
    <3>1. watch'[s][m] = watch[s][m] /\ metered' = metered
      BY <2>2, <1>3
    <3>2. metered[m] \in {"enabled", "paused"} /\ Alarmed(watch[s][m]) => watch[s][m].alarm \notin E
      <4> HAVE metered[m] \in {"enabled", "paused"} /\ Alarmed(watch[s][m])
      <4>1. watch[s][m].alarm \in DOMAIN alarm /\ alarm[watch[s][m].alarm].rule = s
        BY RowNamesOpen
      <4> QED
        BY <4>1, <2>2, <1>2
    <3> QED
      BY <3>1, <3>2 DEF LossInv, Rests
  <2> QED
    BY <2>1, <2>2
<1>5. ASSUME NEW a \in DOMAIN alarm, a \notin E, alarm[a].state = "open"
      PROVE  watch'[alarm[a].rule][alarm[a].monitor] = watch[alarm[a].rule][alarm[a].monitor]
  BY <1>2, <1>3, <1>5, InvFacts DEF AlarmRows
<1>6. RowsFollow(alarm, E, watch, metered, watch', metered')
  BY <1>3, <1>4, <1>5 DEF RowsFollow
<1>7. lossRule' \in [LossRules -> {"on", "off", "deleted"}]
  BY DEF LossInv, LossTyped
<1> QED
  BY <1>1, <1>6, <1>7, ClosingStep DEF LossInv, LossTyped

LEMMA SaveLossRuleKeeps ==
  ASSUME LossInv, NEW r \in LossRules, NEW state \in {"on", "off"},
         NEW wanted \in SUBSET LossMonitors, SaveLossRule(r, state, wanted)
  PROVE  LossInv'
<1> DEFINE Left == {m \in LossMonitors : Watches(r, m) /\ (m \notin wanted \/ state = "off")}
<1> DEFINE E == {i \in DOMAIN alarm :
                   alarm[i].state = "open" /\ alarm[i].rule = r /\ alarm[i].monitor \in Left}
<1> DEFINE Row(m) == IF m \notin wanted THEN NoWatch
                   ELSE IF m \in Left \/ ~Watches(r, m) THEN Watching
                   ELSE watch[r][m]
<1>1. ClosesOnly(alarm, notice, E, NoticesOf(E), alarm', notice')
  BY DEF SaveLossRule, ClosesOnly, OpenWhere, NoticesOf, Closing, Skipping
<1>2. /\ watch' = [watch EXCEPT ![r] = [m \in LossMonitors |-> Row(m)]]
      /\ lossRule' = [lossRule EXCEPT ![r] = state]
      /\ \A m \in wanted : metered[m] \in {"enabled", "paused"}
      /\ UNCHANGED <<metered, courier, evaluation>>
  BY DEF SaveLossRule, Current
<1>3. \A i \in DOMAIN alarm :
        i \in E <=> alarm[i].state = "open" /\ alarm[i].rule = r /\ alarm[i].monitor \in Left
  OBVIOUS
<1>4. \A m \in LossMonitors :
        /\ m \notin wanted => Row(m) = NoWatch
        /\ m \in wanted /\ (m \in Left \/ ~Watches(r, m)) => Row(m) = Watching
        /\ m \in wanted /\ ~(m \in Left \/ ~Watches(r, m)) => Row(m) = watch[r][m]
        /\ m \notin wanted /\ Watches(r, m) => m \in Left
  BY DEF Watches
<1> HIDE DEF E, Left, Row
<1>5. /\ \A m \in LossMonitors : watch'[r][m] = Row(m)
      /\ \A s \in LossRules \ {r}, m \in LossMonitors : watch'[s][m] = watch[s][m]
      /\ watch' = [s \in LossRules |-> [m \in LossMonitors |-> watch'[s][m]]]
  BY <1>2 DEF LossInv, LossTyped, WatchesOK
<1>6. ASSUME NEW s \in LossRules, NEW m \in LossMonitors
      PROVE  /\ watch'[s][m] \in {watch[s][m], Watching, NoWatch}
             /\ metered'[m] = "unused" => watch'[s][m].status = "absent"
             /\ metered'[m] \in {"enabled", "paused"} /\ Alarmed(watch[s][m])
                  /\ watch'[s][m] = watch[s][m] =>
                  metered[m] \in {"enabled", "paused"} /\ watch[s][m].alarm \notin E
  <2>1. metered[m] \in {"enabled", "paused"} /\ Alarmed(watch[s][m]) =>
          (watch[s][m].alarm \in E => s = r /\ m \in Left)
    <3> HAVE metered[m] \in {"enabled", "paused"} /\ Alarmed(watch[s][m])
    <3>1. /\ watch[s][m].alarm \in DOMAIN alarm
          /\ alarm[watch[s][m].alarm].rule = s /\ alarm[watch[s][m].alarm].monitor = m
      BY RowNamesOpen
    <3> QED
      BY <3>1, <1>3
  <2>2. CASE s = r
    <3>1. watch'[s][m] = Row(m)
      BY <2>2, <1>5
    <3>2. CASE m \notin wanted
      BY <3>1, <3>2, <1>2, <1>4 DEF NoWatch, Alarmed
    <3>3. CASE m \in wanted /\ (m \in Left \/ ~Watches(r, m))
      BY <3>1, <3>3, <1>2, <1>4 DEF Watching, Alarmed
    <3>4. CASE m \in wanted /\ ~(m \in Left \/ ~Watches(r, m))
      BY <3>1, <3>4, <1>2, <1>4, <2>1, <2>2
    <3> QED
      BY <3>2, <3>3, <3>4
  <2>3. CASE s # r
    BY <2>3, <2>1, <1>2, <1>5 DEF LossInv, Rests
  <2> QED
    BY <2>2, <2>3
<1>7. ASSUME NEW a \in DOMAIN alarm, a \notin E, alarm[a].state = "open"
      PROVE  watch'[alarm[a].rule][alarm[a].monitor] = watch[alarm[a].rule][alarm[a].monitor]
  <2>1. alarm[a].rule \in LossRules /\ alarm[a].monitor \in LossMonitors
    BY InvFacts DEF AlarmRows
  <2>2. Alarmed(watch[alarm[a].rule][alarm[a].monitor])
    BY <1>7 DEF LossInv, Tracks
  <2>3. CASE alarm[a].rule = r
    <3>1. Watches(r, alarm[a].monitor)
      BY <2>2, <2>3 DEF Watches, Alarmed
    <3>2. alarm[a].monitor \notin Left
      BY <2>3, <1>3, <1>7
    <3> QED
      BY <3>1, <3>2, <2>1, <2>3, <1>4, <1>5
  <2> QED
    BY <2>1, <2>3, <1>5
<1>8. RowsFollow(alarm, E, watch, metered, watch', metered')
  BY <1>5, <1>6, <1>7 DEF RowsFollow
<1>9. /\ lossRule' \in [LossRules -> {"on", "off", "deleted"}]
      /\ metered' \in [LossMonitors -> {"unused", "enabled", "paused", "archived"}]
  BY <1>2 DEF LossInv, LossTyped
<1> QED
  BY <1>1, <1>2, <1>8, <1>9, ClosingStep

-----------------------------------------------------------------------------
(***************************************************************************)
(* Delivery: a step that sets the status of one notice, a restart, and a   *)
(* retry, which adds a notice after the latest of its incident and phase.  *)
(***************************************************************************)
LEMMA StatusSet ==
  ASSUME LossInv, NEW n \in DOMAIN notice,
         NEW status \in {"pending", "success", "failed", "skipped"}, NoticeIs(n, status),
         status = "pending" => Underway(notice[n])
  PROVE  /\ NoticesOK(alarm, notice') /\ NoticeInv(alarm, notice')
         /\ DOMAIN notice' = DOMAIN notice
<1>1. /\ AlarmsOK(alarm) /\ NoticesOK(alarm, notice) /\ NoticeInv(alarm, notice)
      /\ \A k \in DOMAIN notice : notice[k] \in NoticeRows /\ notice[k].alarm \in DOMAIN alarm
  BY NoticeFacts DEF LossInv, LossTyped
<1>2. notice' = [k \in DOMAIN notice |-> IF k = n THEN [notice[n] EXCEPT !.status = status]
                                         ELSE notice[k]]
  BY DEF NoticeIs
<1>3. /\ DOMAIN notice' = DOMAIN notice
      /\ notice' = [k \in DOMAIN notice |-> notice'[k]]
      /\ \A k \in DOMAIN notice :
           /\ k = n => notice'[k] = [notice[k] EXCEPT !.status = status]
           /\ k # n => notice'[k] = notice[k]
  BY <1>2
<1>4. \A k \in DOMAIN notice :
        /\ notice'[k] \in NoticeRows /\ notice'[k].alarm \in DOMAIN alarm
        /\ SameKind(notice'[k], notice[k])
        /\ Underway(notice'[k]) => Underway(notice[k])
        /\ notice'[k].status = "queued" => notice[k].status = "queued"
  BY <1>1, <1>3 DEF NoticeRows, SameKind, Underway
<1>5. NoticesOK(alarm, notice')
  BY <1>1, <1>3, <1>4, NoticesRewritten
<1>6. NoneQueuedForOver(alarm, notice')
  BY <1>1, <1>3, <1>4 DEF NoticeInv, NoneQueuedForOver, SameKind
<1>7. NoticeInv(alarm, notice')
  BY <1>1, <1>3, <1>4, <1>6, RewrittenKeeps
<1> QED
  BY <1>3, <1>5, <1>7

\* A step that touches the notices and the couriers only.
LEMMA NoticesStep ==
  ASSUME LossInv,
         NoticesOK(alarm, notice'), NoticeInv(alarm, notice'),
         DOMAIN notice \subseteq DOMAIN notice', CouriersOK(notice', courier'),
         UNCHANGED <<lossRule, metered, agentGone, watch, alarm, evaluation>>
  PROVE  LossInv'
<1>1. EvaluationsOK(notice', evaluation)
  BY DEF LossInv, LossTyped, EvaluationsOK
<1> QED
  BY <1>1 DEF LossInv, LossTyped

LEMMA CourierSet ==
  ASSUME LossInv, NEW n \in DOMAIN notice, NEW place \in {"none", "claimed", "posted"},
         CourierIs(n, place), DOMAIN notice' = DOMAIN notice
  PROVE  CouriersOK(notice', courier')
<1>1. CouriersOK(notice, courier)
  BY DEF LossInv, LossTyped
<1> QED
  BY <1>1 DEF CouriersOK, CourierIs

LEMMA ClaimNoticeKeeps ==
  ASSUME LossInv, NEW n \in DOMAIN notice, ClaimNotice(n)
  PROVE  LossInv'
<1> USE DEF ClaimNotice
<1>1. CASE notice[n].status # "queued"
  <2>1. CourierIs(n, "none") /\ UNCHANGED notice
    BY <1>1
  <2>2. CouriersOK(notice', courier')
    BY <2>1, CourierSet
  <2> QED
    BY <2>1, <2>2, NoticesStep DEF LossInv, LossTyped
<1>2. CASE notice[n].status = "queued" /\ Deliverable(n)
  <2>1. CourierIs(n, "claimed") /\ NoticeIs(n, "pending") /\ Underway(notice[n])
    BY <1>2 DEF Underway
  <2>2. /\ NoticesOK(alarm, notice') /\ NoticeInv(alarm, notice')
        /\ DOMAIN notice' = DOMAIN notice
    BY <2>1, StatusSet
  <2>3. CouriersOK(notice', courier')
    BY <2>1, <2>2, CourierSet
  <2> QED
    BY <2>2, <2>3, NoticesStep
<1>3. CASE notice[n].status = "queued" /\ ~Deliverable(n)
  <2>1. CourierIs(n, "none") /\ NoticeIs(n, "skipped")
    BY <1>3
  <2>2. /\ NoticesOK(alarm, notice') /\ NoticeInv(alarm, notice')
        /\ DOMAIN notice' = DOMAIN notice
    BY <2>1, StatusSet
  <2>3. CouriersOK(notice', courier')
    BY <2>1, <2>2, CourierSet
  <2> QED
    BY <2>2, <2>3, NoticesStep
<1> QED
  BY <1>1, <1>2, <1>3

LEMMA PostNoticeKeeps ==
  ASSUME LossInv, NEW n \in DOMAIN notice, PostNotice(n)
  PROVE  LossInv'
<1> USE DEF PostNotice
<1>1. CASE Deliverable(n)
  <2>1. CourierIs(n, "posted") /\ UNCHANGED notice
    BY <1>1
  <2>2. CouriersOK(notice', courier')
    BY <2>1, CourierSet
  <2> QED
    BY <2>1, <2>2, NoticesStep DEF LossInv, LossTyped
<1>2. CASE ~Deliverable(n)
  <2>1. CourierIs(n, "none") /\ NoticeIs(n, "skipped")
    BY <1>2
  <2>2. /\ NoticesOK(alarm, notice') /\ NoticeInv(alarm, notice')
        /\ DOMAIN notice' = DOMAIN notice
    BY <2>1, StatusSet
  <2>3. CouriersOK(notice', courier')
    BY <2>1, <2>2, CourierSet
  <2> QED
    BY <2>2, <2>3, NoticesStep
<1> QED
  BY <1>1, <1>2

LEMMA OutcomeLostKeeps ==
  ASSUME LossInv, NEW n \in DOMAIN notice, OutcomeLost(n)
  PROVE  LossInv'
<1>1. CourierIs(n, "none") /\ UNCHANGED <<lossStore, evaluation>>
  BY DEF OutcomeLost
<1>2. CouriersOK(notice', courier')
  BY <1>1, CourierSet DEF lossStore
<1> QED
  BY <1>1, <1>2, NoticesStep DEF LossInv, LossTyped, lossStore

LEMMA CompleteNoticeKeeps ==
  ASSUME LossInv, NEW n \in DOMAIN notice, NEW outcome \in {"success", "failed"},
         CompleteNotice(n, outcome)
  PROVE  LossInv'
<1> DEFINE a == notice[n].alarm
<1> DEFINE r == alarm[a].rule
<1> DEFINE m == alarm[a].monitor
<1> DEFINE status == IF outcome = "failed" THEN "failed" ELSE "firing"
<1>1. /\ CourierIs(n, "none") /\ NoticeIs(n, outcome)
      /\ watch' = IF notice[n].phase = "firing" /\ alarm[a].state = "open" /\ NamedBy(a)
                  THEN [watch EXCEPT ![r][m].status = status] ELSE watch
      /\ UNCHANGED <<lossRule, metered, agentGone, alarm, evaluation>>
  BY DEF CompleteNotice
<1>2. /\ a \in DOMAIN alarm /\ alarm[a] \in AlarmRows
      /\ WatchesOK(alarm, watch) /\ Rests(watch, metered) /\ Tracks(alarm, watch, metered)
  BY NoticeFacts, InvFacts DEF LossInv, LossTyped
<1>3. r \in LossRules /\ m \in LossMonitors /\ status \in {"firing", "failed"}
  BY <1>2 DEF AlarmRows
<1> HIDE DEF a, r, m, status
<1>4. /\ NoticesOK(alarm, notice') /\ NoticeInv(alarm, notice')
      /\ DOMAIN notice' = DOMAIN notice
  BY <1>1, StatusSet
<1>5. CouriersOK(notice', courier')
  BY <1>1, <1>4, CourierSet
<1>6. EvaluationsOK(notice', evaluation')
  BY <1>1, <1>4 DEF LossInv, LossTyped, EvaluationsOK
<1>7. WatchesOK(alarm', watch') /\ Rests(watch', metered') /\ Tracks(alarm', watch', metered')
  <2>1. CASE watch' = watch
    BY <2>1, <1>1, <1>2
  <2>2. CASE watch' # watch
    <3>1. /\ watch' = [watch EXCEPT ![r][m].status = status]
          /\ alarm[a].state = "open"
      BY <2>2, <1>1
    <3>2. Alarmed(watch[r][m]) /\ watch[r][m].alarm = a
      BY <1>2, <3>1 DEF Tracks, r, m
    <3>3. \A s \in LossRules, k \in LossMonitors :
            /\ watch'[s][k].alarm = watch[s][k].alarm
            /\ Alarmed(watch'[s][k]) <=> Alarmed(watch[s][k])
            /\ watch'[s][k].status = "absent" <=> watch[s][k].status = "absent"
      BY <3>1, <3>2, <1>2, <1>3 DEF WatchesOK, Alarmed
    <3>4. WatchesOK(alarm', watch')
      BY <3>1, <3>3, <1>1, <1>2, <1>3 DEF WatchesOK
    <3>5. Rests(watch', metered')
      BY <3>3, <1>1, <1>2 DEF Rests
    <3>6. Tracks(alarm', watch', metered')
      BY <3>3, <1>1, <1>2, InvFacts DEF Tracks, AlarmRows
    <3> QED
      BY <3>4, <3>5, <3>6
  <2> QED
    BY <2>1, <2>2
<1> QED
  BY <1>1, <1>4, <1>5, <1>6, <1>7 DEF LossInv, LossTyped

LEMMA RestartNoticesKeeps ==
  ASSUME LossInv, RestartNotices
  PROVE  LossInv'
<1>1. /\ AlarmsOK(alarm) /\ NoticesOK(alarm, notice) /\ NoticeInv(alarm, notice)
      /\ \A k \in DOMAIN notice : notice[k] \in NoticeRows /\ notice[k].alarm \in DOMAIN alarm
  BY NoticeFacts DEF LossInv, LossTyped
<1>2. notice' = [k \in DOMAIN notice |->
                   IF notice[k].status \in {"queued", "pending"}
                   THEN [notice[k] EXCEPT !.status = "unknown"] ELSE notice[k]]
  BY DEF RestartNotices
<1>3. /\ DOMAIN notice' = DOMAIN notice
      /\ notice' = [k \in DOMAIN notice |-> notice'[k]]
      /\ \A k \in DOMAIN notice :
           /\ Underway(notice[k]) => notice'[k] = [notice[k] EXCEPT !.status = "unknown"]
           /\ ~Underway(notice[k]) => notice'[k] = notice[k]
  BY <1>2 DEF Underway
<1>4. \A k \in DOMAIN notice :
        /\ notice'[k] \in NoticeRows /\ notice'[k].alarm \in DOMAIN alarm
        /\ SameKind(notice'[k], notice[k]) /\ ~Underway(notice'[k])
  BY <1>1, <1>3 DEF NoticeRows, SameKind, Underway
<1>5. NoticesOK(alarm, notice')
  BY <1>1, <1>3, <1>4, NoticesRewritten
<1>6. NoneQueuedForOver(alarm, notice')
  BY <1>3, <1>4 DEF NoneQueuedForOver, Underway
<1>7. NoticeInv(alarm, notice')
  BY <1>1, <1>3, <1>4, <1>6, RewrittenKeeps
<1>8. CouriersOK(notice', courier')
  BY DEF LossInv, LossTyped, CouriersOK, RestartNotices
<1>9. EvaluationsOK(notice', evaluation')
  BY DEF EvaluationsOK, RestartNotices, NotEvaluating
<1> QED
  BY <1>5, <1>7, <1>8, <1>9 DEF RestartNotices, LossInv, LossTyped

LEMMA RetryNoticeKeeps ==
  ASSUME LossInv, NEW n \in DOMAIN notice, RetryNotice(n)
  PROVE  LossInv'
<1> DEFINE next == [notice[n] EXCEPT !.status = "queued"]
<1>1. /\ AlarmsOK(alarm) /\ NoticesOK(alarm, notice) /\ NoticeInv(alarm, notice)
      /\ CouriersOK(notice, courier)
      /\ \A k \in DOMAIN notice : notice[k] \in NoticeRows /\ notice[k].alarm \in DOMAIN alarm
  BY NoticeFacts DEF LossInv, LossTyped
<1>2. /\ notice \in Seq(NoticeRows) /\ Len(notice) \in Nat /\ Len(notice) < MaxNotices
      /\ DOMAIN notice = 1..Len(notice)
  BY <1>1 DEF NoticesOK, RetryNotice
<1>3. next \in NoticeRows /\ SameKind(next, notice[n]) /\ next.status = "queued"
  BY <1>1 DEF NoticeRows, SameKind
<1>4. notice' = Append(notice, next)
  BY DEF RetryNotice
<1> HIDE DEF next
<1>5. /\ notice' \in Seq(NoticeRows) /\ Len(notice') = Len(notice) + 1
      /\ DOMAIN notice' = 1..(Len(notice) + 1)
      /\ notice'[Len(notice) + 1] = next
      /\ \A k \in DOMAIN notice : notice'[k] = notice[k]
  BY <1>2, <1>3, <1>4, AppendProperties
<1>6. \A k \in DOMAIN notice' : k \in DOMAIN notice \/ k = Len(notice) + 1
  BY <1>2, <1>5
<1>7. Len(notice) + 1 \in 1..MaxNotices
  BY <1>2, LossAssumption
<1>8. NoticesOK(alarm, notice')
  BY <1>1, <1>2, <1>3, <1>5, <1>6, LossAssumption DEF NoticesOK, SameKind
<1>9. OneUnderway(notice')
  <2> SUFFICES ASSUME NEW i \in DOMAIN notice', NEW k \in DOMAIN notice',
                      k < i, SameKind(notice'[k], notice'[i])
               PROVE  ~Underway(notice'[k])
    BY DEF OneUnderway
  <2>1. k \in DOMAIN notice
    BY <1>2, <1>5
  <2>2. CASE i \in DOMAIN notice
    BY <2>1, <2>2, <1>1, <1>5 DEF NoticeInv, OneUnderway
  <2>3. CASE i = Len(notice) + 1
    <3>1. SameKind(notice[k], notice[n])
      BY <2>1, <2>3, <1>3, <1>5 DEF SameKind
    <3>2. k <= n
      BY <3>1, <2>1 DEF RetryNotice, LatestNotice, SameKind
    <3>3. CASE k = n
      BY <3>3, <2>1, <1>5 DEF RetryNotice, Underway
    <3>4. CASE k < n
      BY <3>1, <3>4, <2>1, <1>1, <1>5 DEF NoticeInv, OneUnderway
    <3> QED
      BY <3>2, <3>3, <3>4, <2>1, <1>2
  <2> QED
    BY <2>2, <2>3, <1>6
<1>10. Told(alarm, notice')
  <2> SUFFICES ASSUME NEW a \in DOMAIN alarm
               PROVE  /\ \E i \in DOMAIN notice' : notice'[i].alarm = a /\ notice'[i].phase = "firing"
                      /\ (alarm[a].state = "resolved")
                           <=> (\E i \in DOMAIN notice' : notice'[i].alarm = a /\ notice'[i].phase = "recovery")
    BY DEF Told
  <2>1. /\ \E i \in DOMAIN notice : notice[i].alarm = a /\ notice[i].phase = "firing"
        /\ (alarm[a].state = "resolved")
             <=> (\E i \in DOMAIN notice : notice[i].alarm = a /\ notice[i].phase = "recovery")
    BY <1>1 DEF NoticeInv, Told
  <2>2. \A i \in DOMAIN notice : i \in DOMAIN notice' /\ notice'[i] = notice[i]
    BY <1>2, <1>5
  <2>3. \A i \in DOMAIN notice' :
          \E k \in DOMAIN notice : SameKind(notice'[i], notice[k])
    BY <1>3, <1>5, <1>6 DEF SameKind
  <2> QED
    BY <2>1, <2>2, <2>3 DEF SameKind
<1>11. NoneQueuedForOver(alarm, notice')
  <2>1. notice[n].phase = "firing" => alarm[notice[n].alarm].state = "open"
    BY DEF RetryNotice, Deliverable
  <2>2. \A i \in DOMAIN notice :
          notice[i].phase = "firing" /\ notice[i].status = "queued" =>
            alarm[notice[i].alarm].state = "open"
    BY <1>1 DEF NoticeInv, NoneQueuedForOver
  <2> QED
    BY <2>1, <2>2, <1>3, <1>5, <1>6 DEF NoneQueuedForOver, SameKind
<1>12. CouriersOK(notice', courier')
  <2>1. courier' = [courier EXCEPT ![Len(notice) + 1] = "waiting"]
    BY DEF RetryNotice, CourierIs
  <2> QED
    BY <2>1, <1>1, <1>2, <1>5, <1>7 DEF CouriersOK
<1>13. DOMAIN notice \subseteq DOMAIN notice'
  BY <1>2, <1>5
<1> QED
  BY <1>8, <1>9, <1>10, <1>11, <1>12, <1>13, NoticesStep DEF NoticeInv, RetryNotice

-----------------------------------------------------------------------------
(***************************************************************************)
(* An evaluation's other steps touch no stored state.                      *)
(***************************************************************************)
\* A step that touches an evaluation and the couriers only.
LEMMA EvaluationStep ==
  ASSUME LossInv, UNCHANGED lossStore,
         CouriersOK(notice, courier'), EvaluationsOK(notice, evaluation')
  PROVE  LossInv'
  BY DEF LossInv, LossTyped, lossStore

LEMMA BeginEvaluationKeeps ==
  ASSUME LossInv, NEW e \in Evaluators, BeginEvaluation(e)
  PROVE  LossInv'
<1>1. CouriersOK(notice, courier') /\ EvaluationsOK(notice, evaluation')
  BY DEF LossInv, LossTyped, BeginEvaluation, EvaluationsOK
<1> QED
  BY <1>1, EvaluationStep DEF BeginEvaluation

LEMMA SkipMonitorKeeps ==
  ASSUME LossInv, NEW e \in Evaluators, NEW m \in LossMonitors, SkipMonitor(e, m)
  PROVE  LossInv'
<1>1. CouriersOK(notice, courier') /\ EvaluationsOK(notice, evaluation')
  BY DEF LossInv, LossTyped, SkipMonitor, EvaluationsOK
<1> QED
  BY <1>1, EvaluationStep DEF SkipMonitor

LEMMA EvaluationFailsKeeps ==
  ASSUME LossInv, NEW e \in Evaluators, EvaluationFails(e)
  PROVE  LossInv'
<1>1. CouriersOK(notice, courier') /\ EvaluationsOK(notice, evaluation')
  BY DEF LossInv, LossTyped, EvaluationFails, EvaluationsOK, NotEvaluating
<1> QED
  BY <1>1, EvaluationStep DEF EvaluationFails

LEMMA DispatchQueuedKeeps ==
  ASSUME LossInv, NEW e \in Evaluators, DispatchQueued(e)
  PROVE  LossInv'
<1>1. evaluation[e].queued \subseteq DOMAIN notice
  BY DEF LossInv, LossTyped, EvaluationsOK
<1>2. CouriersOK(notice, courier')
  BY <1>1 DEF LossInv, LossTyped, DispatchQueued, CouriersOK
<1>3. EvaluationsOK(notice, evaluation')
  BY DEF LossInv, LossTyped, DispatchQueued, EvaluationsOK, NotEvaluating
<1> QED
  BY <1>2, <1>3, EvaluationStep DEF DispatchQueued

-----------------------------------------------------------------------------
(***************************************************************************)
(* An evaluation of a monitor.  What it reads is split from what it        *)
(* writes: the rules it raises and the incidents it ends become two        *)
(* sequences without repetition.                                           *)
(***************************************************************************)
\* What an evaluation makes of the incidents: those of Ended are resolved, one of each
\* rule raised is opened.
EvaluatedAlarms(A, B, m, raised, Ended) ==
  /\ DOMAIN B = 1..(Len(A) + Len(raised))
  /\ \A i \in DOMAIN A :
       /\ i \in DOMAIN B
       /\ i \in Ended => B[i] = [A[i] EXCEPT !.state = "resolved"]
       /\ i \notin Ended => B[i] = A[i]
  /\ \A k \in 1..Len(raised) :
       /\ Len(A) + k \in DOMAIN B /\ Len(A) + k \notin DOMAIN A
       /\ B[Len(A) + k] = [rule |-> raised[k], monitor |-> m, state |-> "open"]
  /\ \A j \in DOMAIN B : j \in DOMAIN A \/ \E k \in 1..Len(raised) : j = Len(A) + k

\* u is s followed by t.
Joined(s, t, u) ==
  /\ Len(u) = Len(s) + Len(t) /\ DOMAIN u = 1..(Len(s) + Len(t))
  /\ \A i \in 1..Len(s) : u[i] = s[i]
  /\ \A k \in 1..Len(t) : u[Len(s) + k] = t[k]

LEMMA Concatenated ==
  ASSUME NEW S, NEW s \in Seq(S), NEW t \in Seq(S)
  PROVE  s \o t \in Seq(S) /\ Joined(s, t, s \o t)
<1>0. Len(s) \in Nat /\ Len(t) \in Nat
  OBVIOUS
<1>1. /\ s \o t \in Seq(S) /\ Len(s \o t) = Len(s) + Len(t)
      /\ \A i \in 1..(Len(s) + Len(t)) :
           (s \o t)[i] = IF i <= Len(s) THEN s[i] ELSE t[i - Len(s)]
  BY ConcatProperties
<1>2. \A i \in 1..Len(s) : i \in 1..(Len(s) + Len(t)) /\ i <= Len(s)
  BY <1>0
<1>3. \A k \in 1..Len(t) :
        /\ Len(s) + k \in 1..(Len(s) + Len(t)) /\ ~(Len(s) + k <= Len(s))
        /\ (Len(s) + k) - Len(s) = k
  BY <1>0
<1>4. \A i \in 1..Len(s) : (s \o t)[i] = s[i]
  BY <1>1, <1>2
<1>5. \A k \in 1..Len(t) : (s \o t)[Len(s) + k] = t[k]
  <2> TAKE k \in 1..Len(t)
  <2>1. (s \o t)[Len(s) + k] = t[(Len(s) + k) - Len(s)]
    BY <1>1, <1>3
  <2> QED
    BY <2>1, <1>3
<1>6. DOMAIN (s \o t) = 1..(Len(s) + Len(t))
  BY <1>1
<1> QED
  BY <1>1, <1>4, <1>5, <1>6 DEF Joined

LEMMA RowsConcatenated ==
  /\ \A s, t \in Seq(AlarmRows) : s \o t \in Seq(AlarmRows) /\ Joined(s, t, s \o t)
  /\ \A s, t \in Seq(NoticeRows) : s \o t \in Seq(NoticeRows) /\ Joined(s, t, s \o t)
  BY Concatenated

AlarmsWritten(A, B, m, raised, Ended) ==
  B = [i \in DOMAIN A |-> IF i \in Ended THEN [A[i] EXCEPT !.state = "resolved"] ELSE A[i]]
      \o [k \in DOMAIN raised |-> [rule |-> raised[k], monitor |-> m, state |-> "open"]]

LEMMA AlarmsEvaluated ==
  ASSUME NEW A, AlarmsOK(A), NEW raised \in Seq(LossRules), NEW Ended,
         NEW m \in LossMonitors, Len(A) + Len(raised) <= MaxAlarms, NEW B,
         AlarmsWritten(A, B, m, raised, Ended)
  PROVE  AlarmsOK(B) /\ EvaluatedAlarms(A, B, m, raised, Ended)
<1> DEFINE Old == [i \in DOMAIN A |->
                     IF i \in Ended THEN [A[i] EXCEPT !.state = "resolved"] ELSE A[i]]
<1> DEFINE New == [k \in DOMAIN raised |->
                     [rule |-> raised[k], monitor |-> m, state |-> "open"]]
<1>1. /\ Len(A) \in Nat /\ DOMAIN A = 1..Len(A) /\ \A i \in DOMAIN A : A[i] \in AlarmRows
      /\ Len(raised) \in Nat /\ DOMAIN raised = 1..Len(raised)
      /\ \A k \in 1..Len(raised) : raised[k] \in LossRules
  BY AlarmFacts
<1>2. Old \in [1..Len(A) -> AlarmRows] /\ New \in [1..Len(raised) -> AlarmRows]
  BY <1>1 DEF AlarmRows
<1>3. /\ \A i \in DOMAIN A :
           /\ i \in Ended => Old[i] = [A[i] EXCEPT !.state = "resolved"]
           /\ i \notin Ended => Old[i] = A[i]
      /\ \A k \in 1..Len(raised) :
           New[k] = [rule |-> raised[k], monitor |-> m, state |-> "open"]
  BY <1>1
<1>4. B = Old \o New
  BY DEF AlarmsWritten
<1> HIDE DEF Old, New
<1>5. /\ Old \in Seq(AlarmRows) /\ Len(Old) = Len(A)
      /\ New \in Seq(AlarmRows) /\ Len(New) = Len(raised)
  BY <1>1, <1>2, FunctionIsSequence
<1>6. /\ B \in Seq(AlarmRows) /\ Len(B) = Len(A) + Len(raised)
      /\ \A i \in 1..Len(A) : B[i] = Old[i]
      /\ \A k \in 1..Len(raised) : B[Len(A) + k] = New[k]
  <2>1. Old \o New \in Seq(AlarmRows) /\ Joined(Old, New, Old \o New)
    BY <1>5, RowsConcatenated
  <2> QED
    BY <2>1, <1>4, <1>5 DEF Joined
<1>7. DOMAIN B = 1..(Len(A) + Len(raised))
  BY <1>6
<1>8. \A i \in 1..Len(A) : i \in 1..(Len(A) + Len(raised)) /\ i <= Len(A)
  BY <1>1
<1>9. \A k \in 1..Len(raised) :
        Len(A) + k \in 1..(Len(A) + Len(raised)) /\ Len(A) + k \notin 1..Len(A)
  BY <1>1
<1>10. \A j \in 1..(Len(A) + Len(raised)) :
         j \in 1..Len(A) \/ \E k \in 1..Len(raised) : j = Len(A) + k
  <2> TAKE j \in 1..(Len(A) + Len(raised))
  <2>1. j > Len(A) => j - Len(A) \in 1..Len(raised) /\ j = Len(A) + (j - Len(A))
    BY <1>1
  <2> QED
    BY <2>1, <1>1
<1>11. \A i \in DOMAIN A : i \in DOMAIN B /\ B[i] = Old[i]
  BY <1>1, <1>6, <1>7, <1>8
<1>12. \A k \in 1..Len(raised) :
         /\ Len(A) + k \in DOMAIN B /\ Len(A) + k \notin DOMAIN A
         /\ B[Len(A) + k] = New[k]
  BY <1>1, <1>6, <1>7, <1>9
<1> QED
  BY <1>1, <1>3, <1>6, <1>7, <1>10, <1>11, <1>12 DEF AlarmsOK, EvaluatedAlarms

\* And of the notices: the firing ones of the resolved incidents that are still queued
\* are skipped, one is queued for each incident that was opened or resolved.
EvaluatedNotices(N, M, first, p, ended) ==
  /\ DOMAIN M = 1..(Len(N) + p + Len(ended))
  /\ \A n \in DOMAIN N :
       /\ n \in DOMAIN M /\ n <= Len(N)
       /\ SameKind(M[n], N[n]) /\ (Underway(M[n]) => Underway(N[n]))
       /\ M[n].status = "queued" =>
            /\ N[n].status = "queued"
            /\ N[n].phase = "firing" => N[n].alarm \notin ToSet(ended)
  /\ \A k \in 1..p :
       /\ Len(N) + k \in DOMAIN M /\ Len(N) + k > Len(N)
       /\ M[Len(N) + k] = [alarm |-> first + k, phase |-> "firing", status |-> "queued"]
  /\ \A k \in 1..Len(ended) :
       /\ Len(N) + p + k \in DOMAIN M /\ Len(N) + p + k > Len(N)
       /\ M[Len(N) + p + k] = [alarm |-> ended[k], phase |-> "recovery", status |-> "queued"]
  /\ \A j \in DOMAIN M :
       \/ j \in DOMAIN N
       \/ \E k \in 1..p : j = Len(N) + k
       \/ \E k \in 1..Len(ended) : j = Len(N) + p + k

NoticesWritten(N, M, first, p, ended) ==
  M = [n \in DOMAIN N |->
         IF N[n].alarm \in ToSet(ended) /\ N[n].phase = "firing" /\ N[n].status = "queued"
         THEN [N[n] EXCEPT !.status = "skipped"] ELSE N[n]]
      \o ([k \in 1..p |-> [alarm |-> first + k, phase |-> "firing", status |-> "queued"]]
          \o [k \in DOMAIN ended |->
                [alarm |-> ended[k], phase |-> "recovery", status |-> "queued"]])

LEMMA NoticesEvaluated ==
  ASSUME NEW A, NEW N, AlarmsOK(A), NoticesOK(A, N), NEW B, NEW p \in Nat,
         DOMAIN B = 1..(Len(A) + p), Len(A) + p <= MaxAlarms,
         NEW ended \in Seq(DOMAIN A),
         Len(N) + p + Len(ended) <= MaxNotices,
         NEW M, NoticesWritten(N, M, Len(A), p, ended)
  PROVE  NoticesOK(B, M) /\ EvaluatedNotices(N, M, Len(A), p, ended)
<1> DEFINE Old == [n \in DOMAIN N |->
                IF N[n].alarm \in ToSet(ended) /\ N[n].phase = "firing" /\ N[n].status = "queued"
                THEN [N[n] EXCEPT !.status = "skipped"] ELSE N[n]]
<1> DEFINE Fire == [k \in 1..p |-> [alarm |-> Len(A) + k, phase |-> "firing", status |-> "queued"]]
<1> DEFINE Calm == [k \in DOMAIN ended |->
                      [alarm |-> ended[k], phase |-> "recovery", status |-> "queued"]]
<1> DEFINE q == Len(ended)
<1>1. /\ Len(A) \in Nat /\ DOMAIN A = 1..Len(A)
      /\ Len(N) \in Nat /\ DOMAIN N = 1..Len(N)
      /\ \A n \in DOMAIN N : N[n] \in NoticeRows /\ N[n].alarm \in DOMAIN A
      /\ q \in Nat /\ DOMAIN ended = 1..q
      /\ \A k \in 1..q : ended[k] \in DOMAIN A
  BY AlarmFacts, NoticeFacts
<1>2. \A k \in 1..p : Len(A) + k \in 1..MaxAlarms /\ Len(A) + k \in DOMAIN B
  BY <1>1, LossAssumption
<1>3. \A i \in DOMAIN A : i \in 1..MaxAlarms /\ i \in DOMAIN B
  BY <1>1, LossAssumption
<1>4. /\ Old \in [1..Len(N) -> NoticeRows] /\ Fire \in [1..p -> NoticeRows]
      /\ Calm \in [1..q -> NoticeRows]
  BY <1>1, <1>2, <1>3 DEF NoticeRows
<1>5. /\ \A n \in DOMAIN N :
           /\ SameKind(Old[n], N[n]) /\ (Underway(Old[n]) => Underway(N[n]))
           /\ Old[n].status = "queued" =>
                /\ N[n].status = "queued"
                /\ N[n].phase = "firing" => N[n].alarm \notin ToSet(ended)
      /\ \A k \in 1..p :
           Fire[k] = [alarm |-> Len(A) + k, phase |-> "firing", status |-> "queued"]
      /\ \A k \in 1..q :
           Calm[k] = [alarm |-> ended[k], phase |-> "recovery", status |-> "queued"]
  BY <1>1 DEF SameKind, Underway, NoticeRows
<1>6. M = Old \o (Fire \o Calm)
  BY DEF NoticesWritten
<1>7. \A k \in 1..Len(ended) : ended[k] \in DOMAIN A
  BY <1>1
<1>8. Len(N) + p + q <= MaxNotices
  OBVIOUS
<1>9. q = Len(ended)
  OBVIOUS
<1> HIDE DEF Old, Fire, Calm, q
<1>10. /\ Old \in Seq(NoticeRows) /\ Len(Old) = Len(N)
       /\ Fire \in Seq(NoticeRows) /\ Len(Fire) = p
       /\ Calm \in Seq(NoticeRows) /\ Len(Calm) = q
  BY <1>1, <1>4, FunctionIsSequence
<1>11. /\ Fire \o Calm \in Seq(NoticeRows) /\ Len(Fire \o Calm) = p + q
       /\ \A k \in 1..p : (Fire \o Calm)[k] = Fire[k]
       /\ \A k \in 1..q : (Fire \o Calm)[p + k] = Calm[k]
  <2>1. Fire \o Calm \in Seq(NoticeRows) /\ Joined(Fire, Calm, Fire \o Calm)
    BY <1>10, RowsConcatenated
  <2> QED
    BY <2>1, <1>10 DEF Joined
<1>12. /\ M \in Seq(NoticeRows) /\ Len(M) = Len(N) + (p + q)
       /\ DOMAIN M = 1..(Len(N) + (p + q))
       /\ \A n \in 1..Len(N) : M[n] = Old[n]
       /\ \A k \in 1..(p + q) : M[Len(N) + k] = (Fire \o Calm)[k]
  <2> DEFINE New == Fire \o Calm
  <2>1. New \in Seq(NoticeRows) /\ Len(New) = p + q
    BY <1>11
  <2> HIDE DEF New
  <2>2. Old \o New \in Seq(NoticeRows) /\ Joined(Old, New, Old \o New)
    BY <2>1, <1>10, RowsConcatenated
  <2>3. M = Old \o New
    BY <1>6 DEF New
  <2>4. New = Fire \o Calm
    BY DEF New
  <2> QED
    BY <2>1, <2>2, <2>3, <2>4, <1>10 DEF Joined
<1>13. DOMAIN M = 1..(Len(N) + p + q) /\ Len(M) = Len(N) + p + q
  <2>1. Len(N) + (p + q) = Len(N) + p + q
    BY <1>1
  <2> QED
    BY <2>1, <1>12
<1>14. \A n \in DOMAIN N : n \in DOMAIN M /\ n <= Len(N)
  BY <1>1, <1>13
<1>15. \A k \in 1..p :
         Len(N) + k \in 1..(Len(N) + p + q) /\ Len(N) + k > Len(N) /\ k \in 1..(p + q)
  BY <1>1
<1>16. \A k \in 1..q :
         /\ Len(N) + p + k \in 1..(Len(N) + p + q) /\ Len(N) + p + k > Len(N)
         /\ Len(N) + p + k = Len(N) + (p + k) /\ p + k \in 1..(p + q)
  BY <1>1
<1>17. \A n \in DOMAIN N : M[n] = Old[n]
  BY <1>1, <1>12
<1>18. \A k \in 1..p : M[Len(N) + k] = Fire[k]
  BY <1>11, <1>12, <1>15
<1>19. \A k \in 1..q : M[Len(N) + p + k] = Calm[k]
  <2> TAKE k \in 1..q
  <2>1. M[Len(N) + (p + k)] = (Fire \o Calm)[p + k]
    BY <1>12, <1>16
  <2> QED
    BY <2>1, <1>11, <1>16
<1>20. \A j \in 1..(Len(N) + p + q) :
         \/ j \in 1..Len(N)
         \/ \E k \in 1..p : j = Len(N) + k
         \/ \E k \in 1..q : j = Len(N) + p + k
  <2> TAKE j \in 1..(Len(N) + p + q)
  <2>1. j > Len(N) /\ j <= Len(N) + p => j - Len(N) \in 1..p /\ j = Len(N) + (j - Len(N))
    BY <1>1
  <2>2. j > Len(N) + p => j - Len(N) - p \in 1..q /\ j = Len(N) + p + (j - Len(N) - p)
    BY <1>1
  <2>3. j \in 1..Len(N) \/ (j > Len(N) /\ j <= Len(N) + p) \/ j > Len(N) + p
    BY <1>1
  <2> QED
    BY <2>1, <2>2, <2>3
<1>21. EvaluatedNotices(N, M, Len(A), p, ended)
  <2>1. \A n \in DOMAIN N :
          /\ n \in DOMAIN M /\ n <= Len(N)
          /\ SameKind(M[n], N[n]) /\ (Underway(M[n]) => Underway(N[n]))
          /\ M[n].status = "queued" =>
               /\ N[n].status = "queued"
               /\ N[n].phase = "firing" => N[n].alarm \notin ToSet(ended)
    BY <1>5, <1>14, <1>17
  <2>2. \A k \in 1..p :
          /\ Len(N) + k \in DOMAIN M /\ Len(N) + k > Len(N)
          /\ M[Len(N) + k] = [alarm |-> Len(A) + k, phase |-> "firing", status |-> "queued"]
    BY <1>5, <1>13, <1>15, <1>18
  <2>3. \A k \in 1..q :
          /\ Len(N) + p + k \in DOMAIN M /\ Len(N) + p + k > Len(N)
          /\ M[Len(N) + p + k] = [alarm |-> ended[k], phase |-> "recovery", status |-> "queued"]
    BY <1>5, <1>13, <1>16, <1>19
  <2>4. \A j \in DOMAIN M :
          \/ j \in DOMAIN N
          \/ \E k \in 1..p : j = Len(N) + k
          \/ \E k \in 1..q : j = Len(N) + p + k
    BY <1>1, <1>13, <1>20
  <2> QED
    BY <2>1, <2>2, <2>3, <2>4, <1>9, <1>13 DEF EvaluatedNotices
<1>22. \A j \in DOMAIN M : M[j].alarm \in DOMAIN B
  <2> TAKE j \in DOMAIN M
  <2>1. CASE j \in DOMAIN N
    BY <2>1, <1>1, <1>3, <1>5, <1>17 DEF SameKind
  <2>2. ASSUME NEW k \in 1..p, j = Len(N) + k PROVE M[j].alarm \in DOMAIN B
    <3>1. M[j] = [alarm |-> Len(A) + k, phase |-> "firing", status |-> "queued"]
      BY <2>2, <1>5, <1>18
    <3> QED
      BY <3>1, <1>2
  <2>3. ASSUME NEW k \in 1..q, j = Len(N) + p + k PROVE M[j].alarm \in DOMAIN B
    <3>1. M[j] = [alarm |-> ended[k], phase |-> "recovery", status |-> "queued"]
      BY <2>3, <1>5, <1>19
    <3> QED
      BY <3>1, <1>1, <1>3, <1>9
  <2> QED
    BY <2>1, <2>2, <2>3, <1>1, <1>13, <1>20
<1> QED
  BY <1>8, <1>12, <1>13, <1>21, <1>22 DEF NoticesOK

\* And of the rows of the monitor.
EvaluatedRows(W, V, m, first, raised, ended) ==
  /\ V = [r \in LossRules |-> [k \in LossMonitors |-> V[r][k]]]
  /\ \A r \in LossRules :
       /\ \A k \in LossMonitors \ {m} : V[r][k] = W[r][k]
       /\ W[r][m].alarm \in ToSet(ended) => V[r][m] = Watching
       /\ W[r][m].alarm \notin ToSet(ended) /\ r \in ToSet(raised) =>
            \E k \in 1..Len(raised) :
              raised[k] = r /\ V[r][m] = [status |-> "firing", alarm |-> first + k]
       /\ W[r][m].alarm \notin ToSet(ended) /\ r \notin ToSet(raised) => V[r][m] = W[r][m]

\* The rules of raised and the incidents of ended, each once.
Evaluated(m, raised, ended) ==
  /\ metered[m] = "enabled"
  /\ \A k \in 1..Len(raised) : watch[raised[k]][m].status = "ok"
  /\ \A k \in 1..Len(ended) :
       alarm[ended[k]].state = "open" /\ alarm[ended[k]].monitor = m
  /\ \A i, k \in 1..Len(raised) : raised[i] = raised[k] => i = k
  /\ \A i, k \in 1..Len(ended) : ended[i] = ended[k] => i = k

LEMMA EvaluateMonitorWrites ==
  ASSUME LossInv, NEW e \in Evaluators, NEW m \in LossMonitors, NEW over \in SUBSET LossRules,
         EvaluateMonitor(e, m, over)
  PROVE  \E raised \in Seq(LossRules), ended \in Seq(DOMAIN alarm) :
           /\ Evaluated(m, raised, ended)
           /\ AlarmsOK(alarm')
           /\ EvaluatedAlarms(alarm, alarm', m, raised, ToSet(ended))
           /\ NoticesOK(alarm', notice')
           /\ EvaluatedNotices(notice, notice', Len(alarm), Len(raised), ended)
           /\ EvaluatedRows(watch, watch', m, Len(alarm), raised, ended)
           /\ EvaluationsOK(notice', evaluation')
           /\ UNCHANGED <<lossRule, metered, agentGone, courier>>
<1> DEFINE Rules == {r \in LossRules : lossRule[r] = "on" /\ Watches(r, m)}
<1> DEFINE R == {r \in Rules \cap over : Fires(r, m)}
<1> DEFINE X == {watch[r][m].alarm : r \in {s \in Rules \ over : Recovers(s, m)}}
<1> DEFINE raised == SetToSeq(R)
<1> DEFINE ended == SetToSeq(X)
<1> DEFINE Fire == [k \in DOMAIN raised |->
                      [alarm |-> Len(alarm) + k, phase |-> "firing", status |-> "queued"]]
<1> DEFINE Calm == [k \in DOMAIN ended |->
                      [alarm |-> ended[k], phase |-> "recovery", status |-> "queued"]]
<1>1. /\ m \in evaluation[e].left /\ metered[m] = "enabled"
      /\ Len(alarm) + Len(raised) <= MaxAlarms
      /\ Len(notice) + Len(Fire \o Calm) <= MaxNotices
      /\ alarm' = [i \in DOMAIN alarm |->
                     IF i \in ToSet(ended) THEN [alarm[i] EXCEPT !.state = "resolved"]
                     ELSE alarm[i]]
                  \o [k \in DOMAIN raised |->
                        [rule |-> raised[k], monitor |-> m, state |-> "open"]]
      /\ notice' = Skipping({n \in NoticesOf(ToSet(ended)) : notice[n].phase = "firing"})
                   \o (Fire \o Calm)
      /\ watch' = [r \in LossRules |-> [watch[r] EXCEPT ![m] =
                     IF watch[r][m].alarm \in ToSet(ended) THEN Watching
                     ELSE IF r \in ToSet(raised)
                     THEN [status |-> "firing",
                           alarm |-> Len(alarm) + CHOOSE k \in DOMAIN raised : raised[k] = r]
                     ELSE watch[r][m]]]
      /\ evaluation' = [evaluation EXCEPT
           ![e].left = evaluation[e].left \ {m},
           ![e].queued = evaluation[e].queued
                         \cup {Len(notice) + k : k \in DOMAIN (Fire \o Calm)}]
      /\ UNCHANGED <<lossRule, metered, agentGone, courier>>
  BY DEF EvaluateMonitor
<1>2. R \in SUBSET LossRules /\ \A r \in R : watch[r][m].status = "ok"
  BY DEF Fires
<1>3. \A x \in X : x \in DOMAIN alarm /\ alarm[x].state = "open" /\ alarm[x].monitor = m
  <2> TAKE x \in X
  <2>1. PICK r \in LossRules : Recovers(r, m) /\ x = watch[r][m].alarm
    OBVIOUS
  <2>2. Alarmed(watch[r][m])
    BY <2>1, InvFacts DEF Recovers, Alarmed
  <2>3. /\ watch[r][m].alarm \in DOMAIN alarm
        /\ alarm[watch[r][m].alarm] = [rule |-> r, monitor |-> m, state |-> "open"]
    BY <2>2, <1>1, RowNamesOpen
  <2> QED
    BY <2>1, <2>3
<1> HIDE DEF R, X
<1>4. IsFiniteSet(R) /\ IsFiniteSet(X)
  <2>1. DOMAIN alarm = 1..Len(alarm) /\ Len(alarm) \in Nat
    BY AlarmFacts DEF LossInv, LossTyped
  <2>2. IsFiniteSet(1..Len(alarm))
    BY <2>1, FS_Interval
  <2>3. X \subseteq 1..Len(alarm)
    BY <2>1, <1>3
  <2> QED
    BY <2>2, <2>3, <1>2, FS_Subset, LossAssumption
<1>5. /\ raised \in Seq(R) /\ ToSet(raised) = R
      /\ \A i, k \in DOMAIN raised : raised[i] = raised[k] => i = k
      /\ ended \in Seq(X) /\ ToSet(ended) = X
      /\ \A i, k \in DOMAIN ended : ended[i] = ended[k] => i = k
  BY <1>4, ListedOnce
<1> HIDE DEF raised, ended
<1>6. /\ Len(raised) \in Nat /\ DOMAIN raised = 1..Len(raised)
      /\ \A k \in 1..Len(raised) : raised[k] \in R
      /\ Len(ended) \in Nat /\ DOMAIN ended = 1..Len(ended)
      /\ \A k \in 1..Len(ended) : ended[k] \in X
  BY <1>5
<1>7. raised \in Seq(LossRules) /\ ended \in Seq(DOMAIN alarm)
  <2>1. raised \in [1..Len(raised) -> LossRules] /\ ended \in [1..Len(ended) -> DOMAIN alarm]
    BY <1>2, <1>3, <1>5, <1>6
  <2> QED
    BY <2>1, <1>6, FunctionIsSequence
<1>8. Evaluated(m, raised, ended)
  BY <1>1, <1>2, <1>3, <1>5, <1>6 DEF Evaluated
<1>9. AlarmsOK(alarm') /\ EvaluatedAlarms(alarm, alarm', m, raised, ToSet(ended))
  <2>1. AlarmsWritten(alarm, alarm', m, raised, ToSet(ended))
    BY <1>1 DEF AlarmsWritten
  <2>2. AlarmsOK(alarm) /\ Len(alarm) + Len(raised) <= MaxAlarms
    BY <1>1 DEF LossInv, LossTyped
  <2> QED
    BY <2>1, <2>2, <1>7, AlarmsEvaluated
<1>10. /\ Len(alarm) \in Nat /\ DOMAIN alarm = 1..Len(alarm)
       /\ AlarmsOK(alarm) /\ NoticesOK(alarm, notice)
       /\ DOMAIN alarm' = 1..(Len(alarm) + Len(raised))
       /\ Len(notice) \in Nat /\ DOMAIN notice = 1..Len(notice)
  BY <1>9, AlarmFacts, NoticeFacts DEF LossInv, LossTyped, EvaluatedAlarms
<1>11. Len(Fire \o Calm) = Len(raised) + Len(ended)
       /\ DOMAIN (Fire \o Calm) = 1..(Len(raised) + Len(ended))
  <2>1. \A k \in 1..Len(raised) : Len(alarm) + k \in 1..MaxAlarms
    BY <1>1, <1>6, <1>10, LossAssumption
  <2>2. \A k \in 1..Len(ended) : ended[k] \in 1..MaxAlarms
    BY <1>1, <1>3, <1>6, <1>10, LossAssumption
  <2>3. Fire \in [1..Len(raised) -> NoticeRows] /\ Calm \in [1..Len(ended) -> NoticeRows]
    BY <2>1, <2>2, <1>6 DEF NoticeRows
  <2> HIDE DEF Fire, Calm
  <2>4. /\ Fire \in Seq(NoticeRows) /\ Len(Fire) = Len(raised)
        /\ Calm \in Seq(NoticeRows) /\ Len(Calm) = Len(ended)
    BY <2>3, <1>6, FunctionIsSequence
  <2>5. Joined(Fire, Calm, Fire \o Calm)
    BY <2>4, RowsConcatenated
  <2> QED
    BY <2>4, <2>5 DEF Joined
<1>12. NoticesOK(alarm', notice')
       /\ EvaluatedNotices(notice, notice', Len(alarm), Len(raised), ended)
  <2>1. NoticesWritten(notice, notice', Len(alarm), Len(raised), ended)
    <3>1. Skipping({n \in NoticesOf(ToSet(ended)) : notice[n].phase = "firing"})
            = [n \in DOMAIN notice |->
                 IF notice[n].alarm \in ToSet(ended) /\ notice[n].phase = "firing"
                    /\ notice[n].status = "queued"
                 THEN [notice[n] EXCEPT !.status = "skipped"] ELSE notice[n]]
      BY DEF Skipping, NoticesOf
    <3> QED
      BY <3>1, <1>1, <1>6 DEF NoticesWritten
  <2>2. Len(notice) + Len(raised) + Len(ended) <= MaxNotices
    BY <1>1, <1>6, <1>10, <1>11, LossAssumption
  <2>3. Len(alarm) + Len(raised) <= MaxAlarms
    BY <1>1
  <2> QED
    BY <2>1, <2>2, <2>3, <1>6, <1>7, <1>10, NoticesEvaluated
<1>13. EvaluatedRows(watch, watch', m, Len(alarm), raised, ended)
  <2>1. ASSUME NEW r \in LossRules
        PROVE  /\ \A k \in LossMonitors \ {m} : watch'[r][k] = watch[r][k]
               /\ watch'[r][m] =
                    IF watch[r][m].alarm \in ToSet(ended) THEN Watching
                    ELSE IF r \in ToSet(raised)
                    THEN [status |-> "firing",
                          alarm |-> Len(alarm) + CHOOSE k \in DOMAIN raised : raised[k] = r]
                    ELSE watch[r][m]
               /\ watch'[r] = [k \in LossMonitors |-> watch'[r][k]]
    BY <1>1 DEF LossInv, LossTyped, WatchesOK
  <2>2. ASSUME NEW r \in LossRules, r \in ToSet(raised)
        PROVE  /\ (CHOOSE k \in DOMAIN raised : raised[k] = r) \in 1..Len(raised)
               /\ raised[CHOOSE k \in DOMAIN raised : raised[k] = r] = r
    BY <2>2, <1>6 DEF ToSet
  <2>3. watch' = [r \in LossRules |-> [k \in LossMonitors |-> watch'[r][k]]]
    BY <2>1, <1>1
  <2> QED
    BY <2>1, <2>2, <2>3 DEF EvaluatedRows
<1>14. EvaluationsOK(notice', evaluation')
  <2>1. DOMAIN notice' = 1..(Len(notice) + Len(raised) + Len(ended))
    BY <1>12 DEF EvaluatedNotices
  <2>2. \A k \in 1..(Len(raised) + Len(ended)) : Len(notice) + k \in DOMAIN notice'
    BY <2>1, <1>6, <1>10
  <2>3. DOMAIN notice \subseteq DOMAIN notice'
    BY <2>1, <1>6, <1>10
  <2>4. {Len(notice) + k : k \in DOMAIN (Fire \o Calm)} \subseteq DOMAIN notice'
    BY <2>2, <1>11
  <2> DEFINE Q == {Len(notice) + k : k \in DOMAIN (Fire \o Calm)}
  <2> HIDE DEF Q
  <2>5. /\ evaluation' = [evaluation EXCEPT ![e].left = evaluation[e].left \ {m},
                                            ![e].queued = evaluation[e].queued \cup Q]
        /\ Q \subseteq DOMAIN notice'
    BY <2>4, <1>1 DEF Q
  <2> QED
    BY <2>3, <2>5 DEF LossInv, LossTyped, EvaluationsOK
<1> QED
  BY <1>1, <1>7, <1>8, <1>9, <1>12, <1>13, <1>14

LEMMA ToSetFacts ==
  ASSUME NEW S, NEW s \in Seq(S)
  PROVE  /\ Len(s) \in Nat /\ DOMAIN s = 1..Len(s)
         /\ \A k \in 1..Len(s) : s[k] \in S /\ s[k] \in ToSet(s)
         /\ \A x \in ToSet(s) : \E k \in 1..Len(s) : s[k] = x
  BY DEF ToSet

\* What an evaluation resolves was open, of its monitor, and named by the row.
LEMMA EvaluationRowsKeep ==
  ASSUME LossInv, NEW m \in LossMonitors,
         NEW raised \in Seq(LossRules), NEW ended \in Seq(DOMAIN alarm),
         Evaluated(m, raised, ended), AlarmsOK(alarm'),
         EvaluatedAlarms(alarm, alarm', m, raised, ToSet(ended)),
         EvaluatedRows(watch, watch', m, Len(alarm), raised, ended),
         UNCHANGED metered
  PROVE  WatchesOK(alarm', watch') /\ Rests(watch', metered') /\ Tracks(alarm', watch', metered')
<1>1. /\ Len(raised) \in Nat /\ Len(ended) \in Nat /\ Len(alarm) \in Nat
      /\ DOMAIN alarm = 1..Len(alarm)
      /\ \A k \in 1..Len(raised) : raised[k] \in LossRules /\ raised[k] \in ToSet(raised)
      /\ \A r \in ToSet(raised) : \E k \in 1..Len(raised) : raised[k] = r
  BY ToSetFacts, AlarmFacts DEF LossInv, LossTyped
<1>2. \A x \in ToSet(ended) :
        x \in DOMAIN alarm /\ alarm[x].state = "open" /\ alarm[x].monitor = m
  BY ToSetFacts DEF Evaluated
<1>3. \A r \in ToSet(raised) : watch[r][m].status = "ok"
  BY <1>1 DEF Evaluated
<1>4. NoAlarm \notin ToSet(ended)
  BY <1>1, <1>2 DEF NoAlarm
<1>5. /\ WatchesOK(alarm, watch) /\ Rests(watch, metered) /\ Tracks(alarm, watch, metered)
      /\ metered[m] = "enabled" /\ metered' = metered
  BY DEF LossInv, LossTyped, Evaluated
<1>6. /\ \A i \in DOMAIN alarm :
           /\ i \in DOMAIN alarm'
           /\ i \in ToSet(ended) => alarm'[i] = [alarm[i] EXCEPT !.state = "resolved"]
           /\ i \notin ToSet(ended) => alarm'[i] = alarm[i]
      /\ \A k \in 1..Len(raised) :
           /\ Len(alarm) + k \in DOMAIN alarm' /\ Len(alarm) + k \notin DOMAIN alarm
           /\ alarm'[Len(alarm) + k] = [rule |-> raised[k], monitor |-> m, state |-> "open"]
      /\ \A j \in DOMAIN alarm' :
           j \in DOMAIN alarm \/ \E k \in 1..Len(raised) : j = Len(alarm) + k
  BY DEF EvaluatedAlarms
<1>7. /\ \A i \in DOMAIN alarm' : i \in NoAlarm..MaxAlarms /\ i # NoAlarm
      /\ NoAlarm \in NoAlarm..MaxAlarms
  BY AlarmFacts, LossAssumption DEF AlarmsOK, NoAlarm
<1>8. \A r \in LossRules :
        /\ \A k \in LossMonitors \ {m} : watch'[r][k] = watch[r][k]
        /\ watch[r][m].alarm \in ToSet(ended) => watch'[r][m] = Watching
        /\ watch[r][m].alarm \notin ToSet(ended) /\ r \in ToSet(raised) =>
             \E k \in 1..Len(raised) :
               /\ raised[k] = r
               /\ watch'[r][m] = [status |-> "firing", alarm |-> Len(alarm) + k]
        /\ watch[r][m].alarm \notin ToSet(ended) /\ r \notin ToSet(raised) =>
             watch'[r][m] = watch[r][m]
  BY DEF EvaluatedRows
<1>9. \A r \in LossRules, k \in LossMonitors :
        \/ watch'[r][k] = watch[r][k] /\ (k = m => watch[r][m].alarm \notin ToSet(ended))
        \/ k = m /\ watch'[r][k] = Watching
        \/ k = m /\ \E j \in 1..Len(raised) :
             /\ raised[j] = r
             /\ watch'[r][k] = [status |-> "firing", alarm |-> Len(alarm) + j]
  <2> TAKE r \in LossRules, k \in LossMonitors
  <2>1. CASE k # m
    BY <2>1, <1>8
  <2>2. CASE k = m /\ watch[r][m].alarm \in ToSet(ended)
    BY <2>2, <1>8
  <2>3. CASE k = m /\ watch[r][m].alarm \notin ToSet(ended) /\ r \in ToSet(raised)
    <3>1. PICK j \in 1..Len(raised) :
            /\ raised[j] = r
            /\ watch'[r][m] = [status |-> "firing", alarm |-> Len(alarm) + j]
      BY <2>3, <1>8
    <3> QED
      BY <2>3, <3>1
  <2>4. CASE k = m /\ watch[r][m].alarm \notin ToSet(ended) /\ r \notin ToSet(raised)
    BY <2>4, <1>8
  <2> QED
    BY <2>1, <2>2, <2>3, <2>4
<1>10. ASSUME NEW r \in LossRules, NEW k \in LossMonitors
       PROVE  /\ watch'[r][k] \in [status : {"absent", "ok", "firing", "failed"},
                                   alarm : NoAlarm..MaxAlarms]
              /\ watch'[r][k].alarm \in {NoAlarm} \cup DOMAIN alarm'
              /\ ~Alarmed(watch'[r][k]) => watch'[r][k].alarm = NoAlarm
              /\ metered'[k] = "unused" => watch'[r][k].status = "absent"
  <2>1. CASE watch'[r][k] = watch[r][k]
    <3>1. /\ watch[r][k] \in [status : {"absent", "ok", "firing", "failed"},
                               alarm : NoAlarm..MaxAlarms]
          /\ watch[r][k].alarm = NoAlarm \/ watch[r][k].alarm \in DOMAIN alarm
      BY InvFacts
    <3>2. watch[r][k].alarm \in {NoAlarm} \cup DOMAIN alarm'
      BY <3>1, <1>6
    <3>3. /\ ~Alarmed(watch[r][k]) => watch[r][k].alarm = NoAlarm
          /\ metered'[k] = "unused" => watch[r][k].status = "absent"
      BY <1>5 DEF Rests
    <3> QED
      BY <2>1, <3>1, <3>2, <3>3
  <2>2. CASE k = m /\ watch'[r][k] = Watching
    BY <2>2, <1>5, <1>7 DEF Watching, Alarmed
  <2>3. ASSUME k = m, NEW j \in 1..Len(raised),
               watch'[r][k] = [status |-> "firing", alarm |-> Len(alarm) + j]
        PROVE  /\ watch'[r][k] \in [status : {"absent", "ok", "firing", "failed"},
                                    alarm : NoAlarm..MaxAlarms]
               /\ watch'[r][k].alarm \in {NoAlarm} \cup DOMAIN alarm'
               /\ ~Alarmed(watch'[r][k]) => watch'[r][k].alarm = NoAlarm
               /\ metered'[k] = "unused" => watch'[r][k].status = "absent"
    <3>1. Len(alarm) + j \in DOMAIN alarm' /\ Len(alarm) + j \in NoAlarm..MaxAlarms
      BY <1>6, <1>7
    <3>2. watch'[r][k].status = "firing" /\ watch'[r][k].alarm = Len(alarm) + j
      BY <2>3
    <3>3. metered'[k] # "unused"
      BY <2>3, <1>5
    <3> QED
      BY <2>3, <3>1, <3>2, <3>3 DEF Alarmed
  <2> QED
    BY <2>1, <2>2, <2>3, <1>9
<1>11. WatchesOK(alarm', watch')
  BY <1>10 DEF WatchesOK, EvaluatedRows
<1>12. Rests(watch', metered')
  BY <1>10 DEF Rests
<1>13. ASSUME NEW r \in LossRules, NEW k \in LossMonitors,
              metered'[k] \in {"enabled", "paused"}, Alarmed(watch'[r][k])
       PROVE  /\ watch'[r][k].alarm # NoAlarm
              /\ alarm'[watch'[r][k].alarm] = [rule |-> r, monitor |-> k, state |-> "open"]
  <2>1. CASE watch'[r][k] = watch[r][k] /\ (k = m => watch[r][m].alarm \notin ToSet(ended))
    <3>1. /\ watch[r][k].alarm \in DOMAIN alarm
          /\ alarm[watch[r][k].alarm] = [rule |-> r, monitor |-> k, state |-> "open"]
          /\ alarm[watch[r][k].alarm].monitor = k
      BY <2>1, <1>5, <1>13, RowNamesOpen
    <3>2. watch[r][k].alarm \notin ToSet(ended)
      BY <2>1, <3>1, <1>2
    <3> QED
      BY <2>1, <3>1, <3>2, <1>6, <1>7
  <2>2. CASE k = m /\ watch'[r][k] = Watching
    BY <2>2, <1>13 DEF Watching, Alarmed
  <2>3. ASSUME k = m, NEW j \in 1..Len(raised), raised[j] = r,
               watch'[r][k] = [status |-> "firing", alarm |-> Len(alarm) + j]
        PROVE  /\ watch'[r][k].alarm # NoAlarm
               /\ alarm'[watch'[r][k].alarm] = [rule |-> r, monitor |-> k, state |-> "open"]
    <3>1. watch'[r][k].alarm = Len(alarm) + j
      BY <2>3
    <3> QED
      BY <2>3, <3>1, <1>6, <1>7
  <2> QED
    BY <2>1, <2>2, <2>3, <1>9
<1>14. ASSUME NEW a \in DOMAIN alarm', alarm'[a].state = "open"
       PROVE  /\ watch'[alarm'[a].rule][alarm'[a].monitor].alarm = a
              /\ Alarmed(watch'[alarm'[a].rule][alarm'[a].monitor])
  <2>1. CASE a \in DOMAIN alarm
    <3>1. a \notin ToSet(ended) /\ alarm'[a] = alarm[a]
      BY <2>1, <1>6, <1>14, InvFacts DEF AlarmRows
    <3>2. /\ watch[alarm[a].rule][alarm[a].monitor].alarm = a
          /\ Alarmed(watch[alarm[a].rule][alarm[a].monitor])
          /\ alarm[a].rule \in LossRules /\ alarm[a].monitor \in LossMonitors
      BY <2>1, <3>1, <1>5, <1>14, InvFacts DEF Tracks, AlarmRows
    <3>3. alarm[a].monitor = m => alarm[a].rule \notin ToSet(raised)
      BY <3>2, <1>3 DEF Alarmed
    <3>4. watch'[alarm[a].rule][alarm[a].monitor] = watch[alarm[a].rule][alarm[a].monitor]
      BY <3>1, <3>2, <3>3, <1>8
    <3> QED
      BY <3>1, <3>2, <3>4
  <2>2. ASSUME NEW k \in 1..Len(raised), a = Len(alarm) + k
        PROVE  /\ watch'[alarm'[a].rule][alarm'[a].monitor].alarm = a
               /\ Alarmed(watch'[alarm'[a].rule][alarm'[a].monitor])
    <3>0. alarm'[a] = [rule |-> raised[k], monitor |-> m, state |-> "open"]
      BY <2>2, <1>6
    <3>1. alarm'[a].rule = raised[k] /\ alarm'[a].monitor = m /\ raised[k] \in LossRules
      BY <3>0, <1>1
    <3>2. watch[raised[k]][m].alarm = NoAlarm
      BY <3>1, <1>1, <1>3, <1>5 DEF Rests, Alarmed
    <3>3. PICK j \in 1..Len(raised) :
            /\ raised[j] = raised[k]
            /\ watch'[raised[k]][m] = [status |-> "firing", alarm |-> Len(alarm) + j]
      BY <3>1, <3>2, <1>1, <1>4, <1>8
    <3>4. j = k
      BY <3>3 DEF Evaluated
    <3> QED
      BY <2>2, <3>1, <3>3, <3>4 DEF Alarmed
  <2> QED
    BY <2>1, <2>2, <1>6
<1> QED
  BY <1>11, <1>12, <1>13, <1>14 DEF Tracks

LEMMA EvaluationNoticesKeep ==
  ASSUME LossInv, NEW m \in LossMonitors,
         NEW raised \in Seq(LossRules), NEW ended \in Seq(DOMAIN alarm),
         Evaluated(m, raised, ended),
         EvaluatedAlarms(alarm, alarm', m, raised, ToSet(ended)),
         EvaluatedNotices(notice, notice', Len(alarm), Len(raised), ended)
  PROVE  NoticeInv(alarm', notice') /\ DOMAIN notice \subseteq DOMAIN notice'
<1> DEFINE p == Len(raised)
<1> DEFINE q == Len(ended)
<1> DEFINE first == Len(alarm)
<1> DEFINE F(k) == Len(notice) + k
<1> DEFINE C(k) == Len(notice) + p + k
<1>1. /\ p \in Nat /\ q \in Nat /\ first \in Nat /\ DOMAIN alarm = 1..first
      /\ Len(notice) \in Nat /\ DOMAIN notice = 1..Len(notice)
      /\ \A k \in 1..q : ended[k] \in DOMAIN alarm /\ ended[k] \in ToSet(ended)
      /\ \A x \in ToSet(ended) : \E k \in 1..q : ended[k] = x
      /\ \A i, k \in 1..q : ended[i] = ended[k] => i = k
      /\ \A k \in 1..q : alarm[ended[k]].state = "open"
  BY ToSetFacts, AlarmFacts, NoticeFacts DEF LossInv, LossTyped, Evaluated
<1>2. /\ OneUnderway(notice) /\ Told(alarm, notice) /\ NoneQueuedForOver(alarm, notice)
      /\ \A n \in DOMAIN notice : notice[n].alarm \in DOMAIN alarm
  BY NoticeFacts DEF LossInv, LossTyped, NoticeInv
<1>3. /\ \A i \in DOMAIN alarm :
           /\ i \in DOMAIN alarm'
           /\ i \in ToSet(ended) => alarm'[i].state = "resolved"
           /\ i \notin ToSet(ended) => alarm'[i] = alarm[i]
      /\ \A k \in 1..p : first + k \in DOMAIN alarm' /\ alarm'[first + k].state = "open"
      /\ \A j \in DOMAIN alarm' : j \in DOMAIN alarm \/ \E k \in 1..p : j = first + k
  <2>1. \A i \in DOMAIN alarm : i \in ToSet(ended) => alarm'[i].state = "resolved"
    <3> TAKE i \in DOMAIN alarm
    <3>1. i \in ToSet(ended) => alarm'[i] = [alarm[i] EXCEPT !.state = "resolved"]
      BY DEF EvaluatedAlarms
    <3> QED
      BY <3>1, InvFacts DEF AlarmRows
  <2>2. \A k \in 1..p : alarm'[first + k].state = "open"
    <3> TAKE k \in 1..p
    <3>1. alarm'[first + k] = [rule |-> raised[k], monitor |-> m, state |-> "open"]
      BY DEF EvaluatedAlarms
    <3> QED
      BY <3>1
  <2> QED
    BY <2>1, <2>2 DEF EvaluatedAlarms
<1>4. \A k \in 1..p : first + k \notin DOMAIN alarm
  BY <1>1
<1>5. \A n \in DOMAIN notice :
        /\ n \in DOMAIN notice' /\ n <= Len(notice)
        /\ SameKind(notice'[n], notice[n]) /\ (Underway(notice'[n]) => Underway(notice[n]))
        /\ notice'[n].status = "queued" =>
             /\ notice[n].status = "queued"
             /\ notice[n].phase = "firing" => notice[n].alarm \notin ToSet(ended)
  BY DEF EvaluatedNotices
<1>6. \A k \in 1..p :
        /\ F(k) \in DOMAIN notice' /\ F(k) > Len(notice)
        /\ notice'[F(k)].alarm = first + k /\ notice'[F(k)].phase = "firing"
        /\ notice'[F(k)].status = "queued"
  <2> TAKE k \in 1..p
  <2>1. /\ F(k) \in DOMAIN notice' /\ F(k) > Len(notice)
        /\ notice'[F(k)] = [alarm |-> first + k, phase |-> "firing", status |-> "queued"]
    BY DEF EvaluatedNotices
  <2> HIDE DEF F, first
  <2> QED
    BY <2>1
<1>7. \A k \in 1..q :
        /\ C(k) \in DOMAIN notice' /\ C(k) > Len(notice)
        /\ notice'[C(k)].alarm = ended[k] /\ notice'[C(k)].phase = "recovery"
        /\ notice'[C(k)].status = "queued"
  <2> TAKE k \in 1..q
  <2>1. /\ C(k) \in DOMAIN notice' /\ C(k) > Len(notice)
        /\ notice'[C(k)] = [alarm |-> ended[k], phase |-> "recovery", status |-> "queued"]
    BY DEF EvaluatedNotices
  <2> HIDE DEF C
  <2> QED
    BY <2>1
<1>8. \A j \in DOMAIN notice' :
        \/ j \in DOMAIN notice
        \/ \E k \in 1..p : j = F(k)
        \/ \E k \in 1..q : j = C(k)
  BY DEF EvaluatedNotices
<1>9. /\ DOMAIN notice' \subseteq Nat
      /\ \A i, k \in 1..p : F(i) < F(k) => i # k
      /\ \A i, k \in 1..q : C(i) < C(k) => i # k
  BY <1>1 DEF EvaluatedNotices
<1> HIDE DEF p, q, first, F, C
<1>10. \A k \in 1..q :
         \A n \in DOMAIN notice : notice[n].alarm = ended[k] => notice[n].phase # "recovery"
  <2> TAKE k \in 1..q
  <2>1. ended[k] \in DOMAIN alarm /\ alarm[ended[k]].state # "resolved"
    BY <1>1
  <2> QED
    BY <2>1, <1>2 DEF Told
<1>11. ASSUME NEW i \in DOMAIN notice', NEW j \in DOMAIN notice',
              j < i, SameKind(notice'[j], notice'[i])
       PROVE  ~Underway(notice'[j])
  <2>1. CASE i \in DOMAIN notice
    <3>1. j \in DOMAIN notice
      BY <2>1, <1>1, <1>5, <1>6, <1>7, <1>8, <1>9, <1>11
    <3>2. SameKind(notice[j], notice[i])
      BY <2>1, <3>1, <1>5, <1>11 DEF SameKind
    <3> QED
      BY <2>1, <3>1, <3>2, <1>2, <1>5, <1>11 DEF OneUnderway
  <2>2. ASSUME NEW k \in 1..p, i = F(k) PROVE FALSE
    <3>1. notice'[j].alarm = first + k /\ notice'[j].phase = "firing"
      BY <2>2, <1>6, <1>11 DEF SameKind
    <3>2. j \notin DOMAIN notice
      BY <3>1, <1>2, <1>4, <1>5 DEF SameKind
    <3>3. \A l \in 1..p : j = F(l) => FALSE
      <4> SUFFICES ASSUME NEW l \in 1..p, j = F(l) PROVE FALSE
        OBVIOUS
      <4>1. notice'[j].alarm = first + l
        BY <1>6
      <4>2. l = k
        BY <3>1, <4>1, <1>1
      <4> QED
        BY <2>2, <4>2, <1>9, <1>11
    <3>4. \A l \in 1..q : j # C(l)
      BY <3>1, <1>7
    <3> QED
      BY <3>2, <3>3, <3>4, <1>8
  <2>3. ASSUME NEW k \in 1..q, i = C(k) PROVE FALSE
    <3>1. notice'[j].alarm = ended[k] /\ notice'[j].phase = "recovery"
      BY <2>3, <1>7, <1>11 DEF SameKind
    <3>2. j \notin DOMAIN notice
      BY <3>1, <1>5, <1>10 DEF SameKind
    <3>3. \A l \in 1..q : j # C(l)
      <4> SUFFICES ASSUME NEW l \in 1..q, j = C(l) PROVE FALSE
        OBVIOUS
      <4>1. ended[l] = ended[k]
        BY <3>1, <1>7
      <4>2. l = k
        BY <4>1, <1>1
      <4> QED
        BY <2>3, <4>2, <1>9, <1>11
    <3>4. \A l \in 1..p : j # F(l)
      BY <3>1, <1>6
    <3> QED
      BY <3>2, <3>3, <3>4, <1>8
  <2> QED
    BY <2>1, <2>2, <2>3, <1>8
<1>12. OneUnderway(notice')
  BY <1>11 DEF OneUnderway
<1>13. ASSUME NEW a \in DOMAIN alarm'
       PROVE  /\ \E n \in DOMAIN notice' : notice'[n].alarm = a /\ notice'[n].phase = "firing"
              /\ (alarm'[a].state = "resolved")
                   <=> (\E n \in DOMAIN notice' :
                          notice'[n].alarm = a /\ notice'[n].phase = "recovery")
  <2>1. CASE a \in DOMAIN alarm
    <3>1. \E n \in DOMAIN notice' : notice'[n].alarm = a /\ notice'[n].phase = "firing"
      <4>1. PICK n \in DOMAIN notice : notice[n].alarm = a /\ notice[n].phase = "firing"
        BY <2>1, <1>2 DEF Told
      <4>2. n \in DOMAIN notice' /\ SameKind(notice'[n], notice[n])
        BY <1>5
      <4> QED
        BY <4>1, <4>2 DEF SameKind
    <3>2. CASE a \in ToSet(ended)
      <4>1. PICK k \in 1..q : ended[k] = a
        BY <3>2, <1>1
      <4>2. notice'[C(k)].alarm = a /\ notice'[C(k)].phase = "recovery" /\ C(k) \in DOMAIN notice'
        BY <4>1, <1>7
      <4>3. alarm'[a].state = "resolved"
        BY <2>1, <3>2, <1>3
      <4> QED
        BY <3>1, <4>2, <4>3
    <3>3. CASE a \notin ToSet(ended)
      <4>1. alarm'[a] = alarm[a]
        BY <2>1, <3>3, <1>3
      <4>2. (alarm[a].state = "resolved")
              <=> (\E n \in DOMAIN notice : notice[n].alarm = a /\ notice[n].phase = "recovery")
        BY <2>1, <1>2 DEF Told
      <4>3. \A n \in DOMAIN notice' :
              notice'[n].alarm = a /\ notice'[n].phase = "recovery" => n \in DOMAIN notice
        BY <3>3, <1>1, <1>6, <1>7, <1>8
      <4>4. \A n \in DOMAIN notice : n \in DOMAIN notice' /\ SameKind(notice'[n], notice[n])
        BY <1>5
      <4> QED
        BY <3>1, <4>1, <4>2, <4>3, <4>4 DEF SameKind
    <3> QED
      BY <3>2, <3>3
  <2>2. ASSUME NEW k \in 1..p, a = first + k
        PROVE  /\ \E n \in DOMAIN notice' : notice'[n].alarm = a /\ notice'[n].phase = "firing"
               /\ alarm'[a].state # "resolved"
               /\ \A n \in DOMAIN notice' :
                    ~(notice'[n].alarm = a /\ notice'[n].phase = "recovery")
    <3>1. a \notin DOMAIN alarm /\ alarm'[a].state = "open"
      BY <2>2, <1>3, <1>4
    <3>2. F(k) \in DOMAIN notice' /\ notice'[F(k)].alarm = a /\ notice'[F(k)].phase = "firing"
      BY <2>2, <1>6
    <3>3. \A n \in DOMAIN notice' :
            ~(notice'[n].alarm = a /\ notice'[n].phase = "recovery")
      <4> SUFFICES ASSUME NEW n \in DOMAIN notice',
                          notice'[n].alarm = a, notice'[n].phase = "recovery"
                   PROVE  FALSE
        OBVIOUS
      <4>1. n \notin DOMAIN notice
        BY <3>1, <1>2, <1>5 DEF SameKind
      <4>2. \A l \in 1..p : n # F(l)
        BY <1>6
      <4>3. \A l \in 1..q : n # C(l)
        BY <3>1, <1>1, <1>7
      <4> QED
        BY <4>1, <4>2, <4>3, <1>8
    <3> QED
      BY <3>1, <3>2, <3>3
  <2> QED
    BY <2>1, <2>2, <1>3
<1>14. Told(alarm', notice')
  BY <1>13 DEF Told
<1>15. ASSUME NEW n \in DOMAIN notice',
              notice'[n].phase = "firing", notice'[n].status = "queued"
       PROVE  alarm'[notice'[n].alarm].state = "open"
  <2>1. CASE n \in DOMAIN notice
    BY <2>1, <1>2, <1>3, <1>5, <1>15 DEF NoneQueuedForOver, SameKind
  <2>2. ASSUME NEW k \in 1..p, n = F(k) PROVE alarm'[notice'[n].alarm].state = "open"
    BY <2>2, <1>3, <1>6
  <2>3. \A k \in 1..q : n # C(k)
    BY <1>7, <1>15
  <2> QED
    BY <2>1, <2>2, <2>3, <1>8
<1>16. NoneQueuedForOver(alarm', notice')
  BY <1>15 DEF NoneQueuedForOver
<1> QED
  BY <1>5, <1>12, <1>14, <1>16 DEF NoticeInv

LEMMA EvaluateMonitorKeeps ==
  ASSUME LossInv, NEW e \in Evaluators, NEW m \in LossMonitors, NEW over \in SUBSET LossRules,
         EvaluateMonitor(e, m, over)
  PROVE  LossInv'
<1>1. PICK raised \in Seq(LossRules), ended \in Seq(DOMAIN alarm) :
        /\ Evaluated(m, raised, ended)
        /\ AlarmsOK(alarm')
        /\ EvaluatedAlarms(alarm, alarm', m, raised, ToSet(ended))
        /\ NoticesOK(alarm', notice')
        /\ EvaluatedNotices(notice, notice', Len(alarm), Len(raised), ended)
        /\ EvaluatedRows(watch, watch', m, Len(alarm), raised, ended)
        /\ EvaluationsOK(notice', evaluation')
        /\ UNCHANGED <<lossRule, metered, agentGone, courier>>
  BY EvaluateMonitorWrites
<1>2. WatchesOK(alarm', watch') /\ Rests(watch', metered') /\ Tracks(alarm', watch', metered')
  BY <1>1, EvaluationRowsKeep
<1>3. NoticeInv(alarm', notice') /\ DOMAIN notice \subseteq DOMAIN notice'
  BY <1>1, EvaluationNoticesKeep
<1>4. CouriersOK(notice', courier')
  BY <1>1, <1>3 DEF LossInv, LossTyped, CouriersOK
<1> QED
  BY <1>1, <1>2, <1>3, <1>4 DEF LossInv, LossTyped

-----------------------------------------------------------------------------
(***************************************************************************)
(* All steps, and what the invariant says of the runs' properties.         *)
(***************************************************************************)
LEMMA LossInvNext == LossInv /\ [LossNext]_lossVars => LossInv'
<1> SUFFICES ASSUME LossInv, [LossNext]_lossVars PROVE LossInv'
  OBVIOUS
<1>1. ASSUME NEW m \in LossMonitors,
             \/ CreateMonitor(m) \/ ArchiveMonitor(m)
             \/ \E state \in {"enabled", "paused"} :
                  EditMonitor(m, state) \/ \E new \in LossMonitors : ReplaceMonitor(m, new, state)
      PROVE  LossInv'
  BY <1>1, CreateMonitorKeeps, ArchiveMonitorKeeps, EditMonitorKeeps, ReplaceMonitorKeeps
<1>2. CASE DeleteMeteredAgent
  BY <1>2, DeleteMeteredAgentKeeps
<1>3. ASSUME NEW r \in LossRules,
             \/ DeleteLossRule(r)
             \/ \E state \in {"on", "off"}, wanted \in SUBSET LossMonitors :
                  SaveLossRule(r, state, wanted)
      PROVE  LossInv'
  BY <1>3, DeleteLossRuleKeeps, SaveLossRuleKeeps
<1>4. ASSUME NEW e \in Evaluators, Evaluates(e) PROVE LossInv'
  BY <1>4, BeginEvaluationKeeps, SkipMonitorKeeps, EvaluateMonitorKeeps,
     EvaluationFailsKeeps, DispatchQueuedKeeps DEF Evaluates, Examines
<1>5. ASSUME NEW n \in DOMAIN notice, Delivers(n) \/ RetryNotice(n) PROVE LossInv'
  BY <1>5, ClaimNoticeKeeps, PostNoticeKeeps, OutcomeLostKeeps, CompleteNoticeKeeps,
     RetryNoticeKeeps DEF Delivers
<1>6. CASE RestartNotices
  BY <1>6, RestartNoticesKeeps
<1>7. CASE UNCHANGED lossVars
  BY <1>7 DEF lossVars, LossInv, LossTyped
<1> QED
  BY <1>1, <1>2, <1>3, <1>4, <1>5, <1>6, <1>7 DEF LossNext

LEMMA LiveAtMostOne ==
  ASSUME LossInv, NEW a, NEW ph
  PROVE  Cardinality({n \in {k \in NoticesOf({a}) : notice[k].phase = ph} :
                        notice[n].status \in {"queued", "pending"}}) <= 1
<1> DEFINE Live == {n \in {k \in NoticesOf({a}) : notice[k].phase = ph} :
                      notice[n].status \in {"queued", "pending"}}
<1>1. /\ \A n \in Live : n \in DOMAIN notice /\ n \in Nat
      /\ \A n, k \in Live : SameKind(notice[k], notice[n]) /\ Underway(notice[k])
  BY NoticeFacts DEF NoticesOf, SameKind, Underway, LossInv, LossTyped
<1> HIDE DEF Live
<1>2. \A n, k \in Live : n = k
  <2> SUFFICES ASSUME NEW n \in Live, NEW k \in Live, n # k PROVE FALSE
    OBVIOUS
  <2>1. n < k \/ k < n
    BY <1>1
  <2>2. OneUnderway(notice)
    BY DEF LossInv, NoticeInv
  <2> QED
    BY <2>1, <2>2, <1>1 DEF OneUnderway
<1>3. Cardinality(Live) <= 1
  <2>1. CASE Live = {}
    BY <2>1, FS_EmptySet
  <2>2. CASE Live # {}
    <3>1. PICK n \in Live : TRUE
      BY <2>2
    <3>2. Live = {n}
      BY <3>1, <1>2
    <3>3. Cardinality({n}) = 1
      BY FS_Singleton
    <3> QED
      BY <3>2, <3>3
  <2> QED
    BY <2>1, <2>2
<1> QED
  BY <1>3 DEF Live

LEMMA LossInvAgrees == LossInv => LossTypeOK /\ NetworkAlarmsAgree
<1> SUFFICES ASSUME LossInv PROVE LossTypeOK /\ NetworkAlarmsAgree
  OBVIOUS
<1>1. LossTypeOK
  BY DEF LossTypeOK, LossInv, LossTyped, AlarmsOK, NoticesOK, WatchesOK, AlarmRows, NoticeRows
<1>2. WatchesTrackAlarms
  BY DEF WatchesTrackAlarms, LossInv, Tracks, Alarmed, Current, OpenWhere, NamedBy
<1>3. NoticesMatchAlarms
  <2> SUFFICES ASSUME NEW a \in DOMAIN alarm
               PROVE  LET Of(ph) == {n \in NoticesOf({a}) : notice[n].phase = ph}
                          Live(ph) == {n \in Of(ph) : notice[n].status \in {"queued", "pending"}}
                      IN  /\ Of("firing") # {}
                          /\ (Of("recovery") # {}) = (alarm[a].state = "resolved")
                          /\ Cardinality(Live("firing")) <= 1
                          /\ Cardinality(Live("recovery")) <= 1
                          /\ alarm[a].state # "open" =>
                               \A n \in Of("firing") : notice[n].status # "queued"
    BY DEF NoticesMatchAlarms
  <2> DEFINE Of(ph) == {n \in NoticesOf({a}) : notice[n].phase = ph}
  <2>1. \A ph, n : n \in Of(ph) <=> n \in DOMAIN notice /\ notice[n].alarm = a /\ notice[n].phase = ph
    BY DEF NoticesOf
  <2>2. /\ \E n \in DOMAIN notice : notice[n].alarm = a /\ notice[n].phase = "firing"
        /\ (alarm[a].state = "resolved")
             <=> (\E n \in DOMAIN notice : notice[n].alarm = a /\ notice[n].phase = "recovery")
    BY DEF LossInv, NoticeInv, Told
  <2>3. \A n \in DOMAIN notice :
          notice[n].phase = "firing" /\ notice[n].status = "queued" =>
            alarm[notice[n].alarm].state = "open"
    BY DEF LossInv, NoticeInv, NoneQueuedForOver
  <2>4. /\ Cardinality({n \in Of("firing") : notice[n].status \in {"queued", "pending"}}) <= 1
        /\ Cardinality({n \in Of("recovery") : notice[n].status \in {"queued", "pending"}}) <= 1
    BY LiveAtMostOne
  <2> HIDE DEF Of
  <2>5. Of("firing") # {}
    BY <2>1, <2>2
  <2>6. (Of("recovery") # {}) = (alarm[a].state = "resolved")
    <3>1. (Of("recovery") # {}) <=> (alarm[a].state = "resolved")
      BY <2>1, <2>2
    <3> QED
      BY <3>1
  <2>7. alarm[a].state # "open" => \A n \in Of("firing") : notice[n].status # "queued"
    BY <2>1, <2>3
  <2> QED
    BY <2>4, <2>5, <2>6, <2>7 DEF Of
<1> QED
  BY <1>1, <1>2, <1>3 DEF NetworkAlarmsAgree

(***************************************************************************)
(* Rules, monitors, rows, incidents and notices keep their types.          *)
(***************************************************************************)
THEOREM LossTypesHold == LossSpec => []LossTypeOK
  BY InitInv, LossInvNext, LossInvAgrees, PTL DEF LossSpec

(***************************************************************************)
(* A row is alarmed as long as an open incident of its pair is, and names  *)
(* it; every incident is announced once, a recovery once more, with one    *)
(* message of a phase under way at a time (evaluateMonitor,                *)
(* closeIncidents, setAlertMonitors, AlertAttemptComplete).                *)
(***************************************************************************)
THEOREM NetworkAlarmsHold == LossSpec => []NetworkAlarmsAgree
  BY InitInv, LossInvNext, LossInvAgrees, PTL DEF LossSpec

-----------------------------------------------------------------------------
(***************************************************************************)
(* Part four: the cache of agent tokens.                                   *)
(*                                                                         *)
(* StaleFound and StaleCached follow what a lookup has read from the query *)
(* to the cache.  As long as a change has committed and not advanced the   *)
(* generation, its eviction is still to come; once it has, the generation  *)
(* differs from the one that every earlier lookup remembers.  So an old    *)
(* entry is either in the way of an eviction that has not come to its      *)
(* token yet, or the lookup that stored it will delete it.                 *)
(***************************************************************************)
TypesOK ==
  /\ owner \in [Tokens -> Owners \cup {NoOwner}]
  /\ cachedOwner \in [Tokens -> Owners \cup {NoOwner}]
  /\ tokenGen \in Nat
  /\ lookup \in [Lookups ->
       {NoCall} \cup [at : {"query", "check"}, token : Tokens, gen : 0..tokenGen]
                \cup [at : {"store"}, token : Tokens, gen : 0..tokenGen, found : Owners]]
  /\ change \in [Changers ->
       {NoCall} \cup [at : {"advance"}, agent : Owners]
                \cup [at : {"evict"}, agent : Owners, left : SUBSET Tokens]]

\* A change of the agent's tokens has committed and not raised the generation.
Unannounced(a) == \E c \in Changers : change[c].at = "advance" /\ change[c].agent = a

\* What was read under this generation, of this agent, will not be kept.
WillDrop(gen, a) == gen # tokenGen \/ Unannounced(a)

\* An eviction of the agent's entries has yet to come to the token.
ToEvict(a, t) ==
  \E c \in Changers :
    /\ change[c] # NoCall /\ change[c].agent = a
    /\ change[c].at = "advance" \/ t \in change[c].left

\* The lookup that stored the entry will delete it.
ToDelete(t) ==
  \E l \in Lookups :
    /\ lookup[l].at = "check" /\ lookup[l].token = t
    /\ WillDrop(lookup[l].gen, cachedOwner[t])

StaleFound ==
  \A l \in Lookups :
    lookup[l].at = "store" =>
      \/ lookup[l].found = owner[lookup[l].token]
      \/ WillDrop(lookup[l].gen, lookup[l].found)

StaleCached ==
  \A t \in Tokens :
    cachedOwner[t] \in {NoOwner, owner[t]} \/ ToEvict(cachedOwner[t], t) \/ ToDelete(t)

CachedInv == TypesOK /\ StaleFound /\ StaleCached

USE DEF TypesOK

LEMMA CachedInvInit == IdentityInit => CachedInv
  BY DEF IdentityInit, CachedInv, StaleFound, StaleCached, NoCall

(***************************************************************************)
(* The steps of a lookup.  A change is not touched by them, nor are the    *)
(* agents, so what will be dropped stays so.                               *)
(***************************************************************************)
LEMMA MissKeeps ==
  ASSUME CachedInv, NEW l \in Lookups, NEW t \in Tokens, MissIdentity(l, t)
  PROVE  CachedInv'
<1> USE DEF MissIdentity, CachedInv
<1>1. TypesOK'
  OBVIOUS
<1>2. \A k \in Lookups : lookup'[k].at \in {"store", "check"} => lookup'[k] = lookup[k]
  OBVIOUS
<1>3. StaleFound'
  BY <1>2 DEF StaleFound, WillDrop, Unannounced
<1>4. \A k \in Lookups : lookup[k].at = "check" => lookup'[k] = lookup[k]
  BY DEF NoCall
<1>5. StaleCached'
  BY <1>4 DEF StaleCached, ToDelete, WillDrop, Unannounced, ToEvict
<1> QED
  BY <1>1, <1>3, <1>5

LEMMA QueryKeeps ==
  ASSUME CachedInv, NEW l \in Lookups, QueryIdentity(l)
  PROVE  CachedInv'
<1> USE DEF QueryIdentity, CachedInv
<1>1. lookup[l] \in [at : {"query", "check"}, token : Tokens, gen : 0..tokenGen]
  BY DEF NoCall
<1>2. TypesOK'
  BY <1>1
<1>3. \A k \in Lookups : lookup'[k].at = "store" =>
        \/ lookup'[k] = lookup[k]
        \/ lookup'[k].found = owner[lookup'[k].token]
  BY <1>1 DEF NoCall
<1>4. StaleFound'
  BY <1>3 DEF StaleFound, WillDrop, Unannounced
<1>5. \A k \in Lookups : lookup[k].at = "check" => lookup'[k] = lookup[k]
  OBVIOUS
<1>6. StaleCached'
  BY <1>5 DEF StaleCached, ToDelete, WillDrop, Unannounced, ToEvict
<1> QED
  BY <1>2, <1>4, <1>6

LEMMA StoreKeeps ==
  ASSUME CachedInv, NEW l \in Lookups, StoreIdentity(l)
  PROVE  CachedInv'
<1> USE DEF StoreIdentity, CachedInv
<1> DEFINE t == lookup[l].token
           a == lookup[l].found
<1>1. lookup[l] \in [at : {"store"}, token : Tokens, gen : 0..tokenGen, found : Owners]
  BY DEF NoCall
<1>2. /\ lookup'[l] = [at |-> "check", token |-> t, gen |-> lookup[l].gen]
      /\ \A k \in Lookups \ {l} : lookup'[k] = lookup[k]
      /\ t \in Tokens /\ a \in Owners
      /\ cachedOwner'[t] = a
      /\ \A s \in Tokens \ {t} : cachedOwner'[s] = cachedOwner[s]
  BY <1>1
<1>3. TypesOK'
  BY <1>1
<1>4. StaleFound'
  BY <1>2 DEF StaleFound, WillDrop, Unannounced
<1>5. StaleCached'
  <2> SUFFICES ASSUME NEW s \in Tokens, cachedOwner'[s] \notin {NoOwner, owner[s]},
                      ~ToEvict(cachedOwner[s], s)'
               PROVE  ToDelete(s)'
    BY DEF StaleCached
  <2>1. CASE s = t
    <3>1. WillDrop(lookup[l].gen, a)
      BY <1>1, <1>2, <2>1 DEF StaleFound
    <3> QED
      BY <1>2, <2>1, <3>1 DEF ToDelete, WillDrop, Unannounced
  <2>2. CASE s # t
    <3>1. PICK k \in Lookups : /\ lookup[k].at = "check" /\ lookup[k].token = s
                               /\ WillDrop(lookup[k].gen, cachedOwner[s])
      BY <1>2, <2>2 DEF StaleCached, ToEvict, ToDelete
    <3>2. k # l
      BY <3>1
    <3> QED
      BY <1>2, <2>2, <3>1, <3>2 DEF ToDelete, WillDrop, Unannounced
  <2> QED
    BY <2>1, <2>2
<1> QED
  BY <1>3, <1>4, <1>5

LEMMA CheckKeeps ==
  ASSUME CachedInv, NEW l \in Lookups, CheckGeneration(l)
  PROVE  CachedInv'
<1> USE DEF CheckGeneration, CachedInv
<1> DEFINE t == lookup[l].token
<1>1. lookup[l] \in [at : {"query", "check"}, token : Tokens, gen : 0..tokenGen]
  BY DEF NoCall
<1>2. /\ lookup'[l] = NoCall /\ t \in Tokens
      /\ \A k \in Lookups \ {l} : lookup'[k] = lookup[k]
      /\ \A s \in Tokens : s # t \/ tokenGen = lookup[l].gen => cachedOwner'[s] = cachedOwner[s]
      /\ tokenGen # lookup[l].gen => cachedOwner'[t] = NoOwner
  BY <1>1
<1>3. TypesOK'
  BY <1>1
<1>4. StaleFound'
  BY <1>2 DEF StaleFound, WillDrop, Unannounced, NoCall
<1>5. StaleCached'
  <2> SUFFICES ASSUME NEW s \in Tokens, cachedOwner'[s] \notin {NoOwner, owner[s]},
                      ~ToEvict(cachedOwner[s], s)'
               PROVE  ToDelete(s)'
    BY DEF StaleCached
  <2>1. cachedOwner'[s] = cachedOwner[s]
    BY <1>2
  <2>2. PICK k \in Lookups : /\ lookup[k].at = "check" /\ lookup[k].token = s
                             /\ WillDrop(lookup[k].gen, cachedOwner[s])
    BY <2>1 DEF StaleCached, ToEvict, ToDelete
  <2>3. k # l
    <3> SUFFICES ASSUME k = l PROVE FALSE
      OBVIOUS
    <3>1. tokenGen = lookup[l].gen
      BY <1>2, <2>1, <2>2
    <3>2. Unannounced(cachedOwner[s])
      BY <2>2, <3>1 DEF WillDrop
    <3> QED
      BY <2>1, <3>2 DEF Unannounced, ToEvict, NoCall
  <2> QED
    BY <1>2, <2>1, <2>2, <2>3 DEF ToDelete, WillDrop, Unannounced
<1> QED
  BY <1>3, <1>4, <1>5

(***************************************************************************)
(* The steps of a change.                                                  *)
(***************************************************************************)
LEMMA CommitKeeps ==
  ASSUME CachedInv, NEW c \in Changers, NEW a \in Owners, NEW news \in SUBSET Tokens,
         CommitTokens(c, a, news)
  PROVE  CachedInv'
<1> USE DEF CommitTokens, CachedInv
<1>1. /\ change[c] = NoCall
      /\ change'[c] = [at |-> "advance", agent |-> a]
      /\ \A d \in Changers \ {c} : change'[d] = change[d]
  OBVIOUS
<1>2. TypesOK'
  OBVIOUS
<1>3. Unannounced(a)'
  BY <1>1 DEF Unannounced
<1>4. \A b : Unannounced(b) => Unannounced(b)'
  BY <1>1 DEF Unannounced, NoCall
<1>5. \A b, t : ToEvict(b, t) => ToEvict(b, t)'
  BY <1>1 DEF ToEvict, NoCall
<1>6. \A t : ToEvict(a, t)'
  BY <1>1 DEF ToEvict, NoCall
<1>7. \A t \in Tokens : t \notin news => owner'[t] = owner[t] \/ owner[t] = a
  BY DEF Issued
<1>8. \A t \in news : /\ cachedOwner[t] = NoOwner
                      /\ \A l \in Lookups : lookup[l] # NoCall => lookup[l].token # t
  BY DEF Unknown
<1>9. StaleFound'
  <2> SUFFICES ASSUME NEW l \in Lookups, lookup[l].at = "store"
               PROVE  \/ lookup[l].found = owner'[lookup[l].token]
                      \/ WillDrop(lookup[l].gen, lookup[l].found)'
    BY DEF StaleFound
  <2>1. lookup[l].token \in Tokens \ news
    BY <1>8 DEF NoCall
  <2>2. CASE lookup[l].found = owner[lookup[l].token]
    BY <1>3, <1>7, <2>1, <2>2 DEF WillDrop
  <2>3. CASE WillDrop(lookup[l].gen, lookup[l].found)
    BY <1>4, <2>3 DEF WillDrop
  <2> QED
    BY <2>2, <2>3 DEF StaleFound
<1>10. StaleCached'
  <2> SUFFICES ASSUME NEW t \in Tokens, t \notin news, cachedOwner[t] # NoOwner,
                      cachedOwner[t] # a, cachedOwner[t] # owner'[t],
                      ~ToEvict(cachedOwner[t], t)'
               PROVE  ToDelete(t)'
    BY <1>6, <1>8 DEF StaleCached
  <2>1. cachedOwner[t] # owner[t]
    BY <1>7
  <2>2. PICK k \in Lookups : /\ lookup[k].at = "check" /\ lookup[k].token = t
                             /\ WillDrop(lookup[k].gen, cachedOwner[t])
    BY <1>5, <2>1 DEF StaleCached, ToDelete
  <2> QED
    BY <1>4, <2>2 DEF ToDelete, WillDrop
<1> QED
  BY <1>2, <1>9, <1>10

LEMMA AdvanceKeeps ==
  ASSUME CachedInv, NEW c \in Changers, AdvanceGeneration(c)
  PROVE  CachedInv'
<1> USE DEF AdvanceGeneration, CachedInv
<1> DEFINE a == change[c].agent
<1>1. change[c] \in [at : {"advance"}, agent : Owners]
  BY DEF NoCall
<1>2. /\ change'[c] = [at |-> "evict", agent |-> a, left |-> Tokens]
      /\ \A d \in Changers \ {c} : change'[d] = change[d]
      /\ tokenGen' = tokenGen + 1
  BY <1>1
<1>3. \A l \in Lookups : lookup[l] # NoCall =>
        lookup[l].gen \in 0..tokenGen /\ lookup[l].gen # tokenGen'
  BY <1>2
<1>4. TypesOK'
  <2>1. change' \in [Changers ->
       {NoCall} \cup [at : {"advance"}, agent : Owners]
                \cup [at : {"evict"}, agent : Owners, left : SUBSET Tokens]]
    BY <1>1
  <2>2. lookup' \in [Lookups ->
       {NoCall} \cup [at : {"query", "check"}, token : Tokens, gen : 0..tokenGen']
                \cup [at : {"store"}, token : Tokens, gen : 0..tokenGen', found : Owners]]
    BY <1>2
  <2> QED
    BY <2>1, <2>2
<1>5. StaleFound'
  BY <1>3 DEF StaleFound, WillDrop, NoCall
<1>6. ASSUME NEW b, NEW t \in Tokens, ToEvict(b, t)
      PROVE  \E d \in Changers :
               /\ change'[d] # NoCall /\ change'[d].agent = b
               /\ change'[d].at = "advance" \/ t \in change'[d].left
  <2> PICK d \in Changers : /\ change[d] # NoCall /\ change[d].agent = b
                            /\ change[d].at = "advance" \/ t \in change[d].left
    BY <1>6 DEF ToEvict
  <2>1. CASE d = c
    BY <1>2, <2>1 DEF NoCall
  <2>2. CASE d # c
    BY <1>2, <2>2
  <2> QED
    BY <2>1, <2>2
<1>7. StaleCached'
  <2> SUFFICES ASSUME NEW t \in Tokens, cachedOwner[t] \notin {NoOwner, owner[t]}
               PROVE  ToEvict(cachedOwner[t], t)' \/ ToDelete(t)'
    BY DEF StaleCached
  <2>1. CASE ToEvict(cachedOwner[t], t)
    BY <1>6, <2>1 DEF ToEvict
  <2>2. CASE ToDelete(t)
    BY <1>3, <2>2 DEF ToDelete, WillDrop, NoCall
  <2> QED
    BY <2>1, <2>2 DEF StaleCached
<1> QED
  BY <1>4, <1>5, <1>7

LEMMA EvictKeeps ==
  ASSUME CachedInv, NEW c \in Changers, NEW t \in Tokens, EvictIdentity(c, t)
  PROVE  CachedInv'
<1> USE DEF EvictIdentity, CachedInv
<1> DEFINE a == change[c].agent
<1>1. change[c] \in [at : {"evict"}, agent : Owners, left : SUBSET Tokens]
  BY DEF NoCall
<1>2. /\ \A d \in Changers \ {c} : change'[d] = change[d]
      /\ \/ change'[c] = NoCall /\ change[c].left = {t}
         \/ change'[c] = [at |-> "evict", agent |-> a, left |-> change[c].left \ {t}]
  OBVIOUS
<1>3. \A s \in Tokens : IF s = t /\ cachedOwner[t] = a THEN cachedOwner'[s] = NoOwner
                        ELSE cachedOwner'[s] = cachedOwner[s]
  OBVIOUS
<1>4. TypesOK'
  <2> change' \in [Changers ->
       {NoCall} \cup [at : {"advance"}, agent : Owners]
                \cup [at : {"evict"}, agent : Owners, left : SUBSET Tokens]]
    BY <1>1
  <2> QED
    OBVIOUS
<1>5. \A b : Unannounced(b) => Unannounced(b)'
  BY <1>1, <1>2 DEF Unannounced
<1>6. StaleFound'
  BY <1>5 DEF StaleFound, WillDrop
<1>7. StaleCached'
  <2> SUFFICES ASSUME NEW s \in Tokens, cachedOwner'[s] \notin {NoOwner, owner[s]}
               PROVE  ToEvict(cachedOwner[s], s)' \/ ToDelete(s)'
    BY DEF StaleCached
  <2>1. cachedOwner'[s] = cachedOwner[s] /\ ~(s = t /\ cachedOwner[s] = a)
    BY <1>3
  <2>2. CASE ToEvict(cachedOwner[s], s)
    <3>1. PICK d \in Changers : /\ change[d] # NoCall /\ change[d].agent = cachedOwner[s]
                                /\ change[d].at = "advance" \/ s \in change[d].left
      BY <2>2 DEF ToEvict
    <3>2. CASE d # c
      BY <1>2, <2>1, <3>1, <3>2 DEF ToEvict
    <3>3. CASE d = c
      <4>1. s # t /\ s \in change[c].left
        BY <1>1, <2>1, <3>1, <3>3
      <4>2. change'[c] = [at |-> "evict", agent |-> a, left |-> change[c].left \ {t}]
        BY <1>2, <4>1
      <4> QED
        BY <2>1, <3>1, <3>3, <4>1, <4>2 DEF ToEvict, NoCall
    <3> QED
      BY <3>2, <3>3
  <2>3. CASE ~ToEvict(cachedOwner[s], s)
    <3>1. PICK k \in Lookups : /\ lookup[k].at = "check" /\ lookup[k].token = s
                               /\ WillDrop(lookup[k].gen, cachedOwner[s])
      BY <2>1, <2>3 DEF StaleCached, ToDelete
    <3> QED
      BY <1>5, <2>1, <3>1 DEF ToDelete, WillDrop
  <2> QED
    BY <2>2, <2>3
<1> QED
  BY <1>4, <1>6, <1>7

LEMMA CachedInvNext == CachedInv /\ [IdentityNext]_identityVars => CachedInv'
<1> SUFFICES ASSUME CachedInv, [IdentityNext]_identityVars PROVE CachedInv'
  OBVIOUS
<1>1. ASSUME NEW l \in Lookups, LookupSteps(l) PROVE CachedInv'
  BY <1>1, MissKeeps, QueryKeeps, StoreKeeps, CheckKeeps DEF LookupSteps
<1>2. ASSUME NEW c \in Changers, ChangeSteps(c) PROVE CachedInv'
  <2>1. \A news \in {{}} \cup {{t} : t \in Tokens} : news \in SUBSET Tokens
    OBVIOUS
  <2> QED
    BY <1>2, <2>1, CommitKeeps, AdvanceKeeps, EvictKeeps DEF ChangeSteps
<1>3. CASE UNCHANGED identityVars
  BY <1>3
  DEF identityVars, CachedInv, StaleFound, StaleCached, ToDelete, WillDrop, Unannounced, ToEvict
<1> QED
  BY <1>1, <1>2, <1>3 DEF IdentityNext

(***************************************************************************)
(* Nothing of the cache, the lookups or the changes is ever of another     *)
(* type, and no lookup remembers a generation that is still to come.       *)
(***************************************************************************)
THEOREM IdentityTypesHold == IdentitySpec => []TypesOK
<1>1. CachedInv => TypesOK
  BY DEF CachedInv
<1> QED
  BY <1>1, CachedInvInit, CachedInvNext, PTL DEF IdentitySpec

(***************************************************************************)
(* A token stays cached for an agent it was taken from only until the      *)
(* change that took it, or the lookup that stored it, is through           *)
(* (AgentGetByToken, evictAgentTokens).                                    *)
(***************************************************************************)
THEOREM OldTokensGo == IdentitySpec => []OnlyCurrentTokensStay
<1>1. CachedInv => OnlyCurrentTokensStay
  BY DEF CachedInv, StaleCached, OnlyCurrentTokensStay, ToEvict, ToDelete
<1> QED
  BY <1>1, CachedInvInit, CachedInvNext, PTL DEF IdentitySpec
=============================================================================
