--------------------------- MODULE DeliveryLedger ---------------------------
(***************************************************************************)
(* What the alert store promises about notification attempts, whoever      *)
(* queues them and however they are delivered: the routine, an HTTP retry  *)
(* or a network evaluation.  An attempt belongs to one phase of one        *)
(* incident; it is queued, claimed by one delivery and settled, or         *)
(* withdrawn before it is claimed, or interrupted by a restart.  A phase   *)
(* gets a further attempt only after its latest one failed or was          *)
(* interrupted.                                                            *)
(***************************************************************************)
EXTENDS AttemptTypes

CONSTANTS
    MaxIncidents,   \* bound: how many incidents attempts may belong to
    MaxAttempts     \* bound: how many attempts are ever queued

ASSUME LedgerAssumption == MaxIncidents \in Nat /\ MaxAttempts \in Nat

VARIABLES
    attempt,        \* attempt id -> [incident, phase, status, retryOf]
    nAttempts       \* how many attempts were queued so far

ledgerVars == <<attempt, nAttempts>>

IncidentIds == 1..MaxIncidents
AttemptIds == 1..MaxAttempts

(***************************************************************************)
(* The attempts made so far, in order of created_at.                       *)
(***************************************************************************)
Attempts == 1..nAttempts

Absent == [incident |-> NoIncident, phase |-> "firing", status |-> "none",
           retryOf |-> NoAttempt]

LedgerTypeOK ==
    /\ nAttempts \in 0..MaxAttempts
    /\ attempt \in [AttemptIds -> [incident : 0..MaxIncidents, phase : Phases,
                                   status : Statuses,
                                   retryOf : 0..MaxAttempts]]

OfPhase(e, i, ph) == attempt[e].incident = i /\ attempt[e].phase = ph

IsLatest(e, i, ph) ==
    /\ e \in Attempts
    /\ OfPhase(e, i, ph)
    /\ \A f \in Attempts : f > e => ~OfPhase(f, i, ph)

(***************************************************************************)
(* Mutants of MayFollow: a first attempt is accepted beside others; an     *)
(* earlier failure is followed a second time.                              *)
(***************************************************************************)
MayStartOver(p, i, ph) ==
    \/ p = NoAttempt
    \/ IsLatest(p, i, ph) /\ attempt[p].status \in Retryable

MayFollowEarlier(p, i, ph) ==
    \/ p = NoAttempt /\ \A e \in Attempts : ~OfPhase(e, i, ph)
    \/ /\ p \in Attempts
       /\ OfPhase(p, i, ph) /\ attempt[p].status \in Retryable

(***************************************************************************)
(* The attempt p an attempt of phase ph may follow: none when it is the    *)
(* first, otherwise the latest one, if that one may be tried again.        *)
(***************************************************************************)
MayFollow(p, i, ph) ==
    \/ p = NoAttempt /\ \A e \in Attempts : ~OfPhase(e, i, ph)
    \/ IsLatest(p, i, ph) /\ attempt[p].status \in Retryable

-----------------------------------------------------------------------------

LedgerInit ==
    /\ nAttempts = 0
    /\ attempt = [e \in AttemptIds |-> Absent]

Enqueue(i, ph, p) ==
    /\ nAttempts < MaxAttempts
    /\ MayFollow(p, i, ph)
    /\ nAttempts' = nAttempts + 1
    /\ attempt' = [attempt EXCEPT ![nAttempts + 1] =
           [incident |-> i, phase |-> ph, status |-> "queued", retryOf |-> p]]

(***************************************************************************)
(* Mutant of Claim: the status is not looked at.                           *)
(***************************************************************************)
ClaimAny(e) ==
    /\ e \in Attempts
    /\ attempt' = [attempt EXCEPT ![e].status = "pending"]
    /\ UNCHANGED nAttempts

(***************************************************************************)
(* Only a queued attempt is claimed, so of two deliveries of the same      *)
(* attempt one is turned away.                                             *)
(***************************************************************************)
Claim(e) ==
    /\ attempt[e].status = "queued"
    /\ attempt' = [attempt EXCEPT ![e].status = "pending"]
    /\ UNCHANGED nAttempts

(***************************************************************************)
(* The delivery that claimed it reports the outcome, once.                 *)
(***************************************************************************)
Settle(e, outcome) ==
    /\ attempt[e].status = "pending"
    /\ attempt' = [attempt EXCEPT ![e].status = outcome]
    /\ UNCHANGED nAttempts

(***************************************************************************)
(* Attempts not yet claimed whose incident is over are skipped together.   *)
(***************************************************************************)
Withdraw(S) ==
    /\ \A e \in S : attempt[e].status = "queued"
    /\ attempt' = [e \in AttemptIds |->
           IF e \in S THEN [attempt[e] EXCEPT !.status = "skipped"]
                      ELSE attempt[e]]
    /\ UNCHANGED nAttempts

(***************************************************************************)
(* A restart does not know what became of the attempts in flight.          *)
(***************************************************************************)
Interrupt ==
    /\ attempt' = [e \in AttemptIds |->
           IF attempt[e].status \in Outstanding
           THEN [attempt[e] EXCEPT !.status = "unknown"]
           ELSE attempt[e]]
    /\ UNCHANGED nAttempts

LedgerNext ==
    \/ \E S \in SUBSET AttemptIds : Withdraw(S)
    \/ \E e \in AttemptIds : Claim(e)
    \/ \E e \in AttemptIds, outcome \in {"success", "failed", "skipped"} :
           Settle(e, outcome)
    \/ Interrupt
    \/ \E i \in IncidentIds, ph \in Phases, p \in 0..MaxAttempts :
           Enqueue(i, ph, p)

LedgerSpec == LedgerInit /\ [][LedgerNext]_ledgerVars

-----------------------------------------------------------------------------

(***************************************************************************)
(* At most one attempt of a phase is queued or being sent: two deliveries  *)
(* never race for the same message (AlertAttemptQueue, network             *)
(* queueNotification, and the partial unique index behind them).           *)
(***************************************************************************)
OneOutstanding ==
    \A e, f \in Attempts :
        /\ attempt[e].status \in Outstanding
        /\ attempt[f].status \in Outstanding
        /\ OfPhase(e, attempt[f].incident, attempt[f].phase)
        => e = f

FollowsFailure(e) ==
    LET p == attempt[e].retryOf IN
    p # NoAttempt => /\ p < e
                     /\ OfPhase(p, attempt[e].incident, attempt[e].phase)
                     /\ attempt[p].status \in Retryable

FollowedOnce(e) ==
    \A f \in Attempts : /\ OfPhase(f, attempt[e].incident, attempt[e].phase)
                        /\ attempt[f].retryOf = attempt[e].retryOf
                        => f = e

(***************************************************************************)
(* The attempts of a phase form one chain: each follows an earlier attempt *)
(* of the same phase that failed or was interrupted, and no attempt is     *)
(* followed twice, so a retry that was already accepted is never repeated. *)
(***************************************************************************)
RetryChain == \A e \in Attempts : FollowsFailure(e) /\ FollowedOnce(e)

(***************************************************************************)
(* A phase succeeds at most once: after a delivery that is known to have   *)
(* succeeded no attempt of the phase is made again.                        *)
(***************************************************************************)
OneSuccess ==
    \A e \in Attempts : attempt[e].status = "success" =>
        IsLatest(e, attempt[e].incident, attempt[e].phase)

(***************************************************************************)
(* Both together: whatever follows an attempt follows it once, and nothing *)
(* follows a success (AlertAttemptQueue).                                  *)
(***************************************************************************)
OneChain == RetryChain /\ OneSuccess

(***************************************************************************)
(* A settled attempt keeps its outcome and nothing of an attempt but its   *)
(* status ever changes: late deliveries, resolutions, deletions and        *)
(* restarts cannot rewrite the history the user reads.                     *)
(***************************************************************************)
OutcomesAreFinal ==
    [][\A e \in Attempts :
          /\ attempt[e].status \in Settled => attempt'[e] = attempt[e]
          /\ attempt'[e] = [attempt[e] EXCEPT !.status = attempt'[e].status]
      ]_ledgerVars
=============================================================================
