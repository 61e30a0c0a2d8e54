-------------------------- MODULE PublicPages_proofs --------------------------
(***************************************************************************)
(* A public status page shows what the visitor selected, in both of its    *)
(* forms, for any servers, ranges, status pages and requests at a time.    *)
(*                                                                         *)
(* The page with the script cancels: the load in force is always the one   *)
(* of its detail and its range bar (HistoryFollows), so that an answer     *)
(* that may still paint is one of that load.  The React application        *)
(* cancels nothing, and every answer is shown: what is known is only that  *)
(* as long as the latest request is pending it is the last of those under  *)
(* way and is for what is on screen (PageAsked, SeriesAsked), and that an  *)
(* answer which comes after the latest one makes it overtaken.             *)
(***************************************************************************)
EXTENDS PublicPages, SequenceTheorems, WellFoundedInduction, TLAPS

-----------------------------------------------------------------------------
(* What happens to a list of requests that one is added to or taken out of. *)
LEMMA Appended ==
  ASSUME NEW T, NEW s \in Seq(T), NEW e \in T
  PROVE  /\ Append(s, e) \in Seq(T) /\ Append(s, e) # <<>>
         /\ Append(s, e)[Len(Append(s, e))] = e
         /\ Len(Append(s, e)) = Len(s) + 1
  OBVIOUS

LEMMA Remaining ==
  ASSUME NEW n \in Nat, NEW i \in 1 .. n, i # n
  PROVE  n - i \in 1 .. n - i /\ (n - i) + i = n
  OBVIOUS

LEMMA Removed ==
  ASSUME NEW T, NEW s \in Seq(T), NEW i \in DOMAIN s
  PROVE  /\ RemoveAt(s, i) \in Seq(T)
         /\ Len(RemoveAt(s, i)) = Len(s) - 1
         /\ i # Len(s) => /\ RemoveAt(s, i) # <<>>
                          /\ RemoveAt(s, i)[Len(RemoveAt(s, i))] = s[Len(s)]
<1>1. i \in 1 .. Len(s) /\ Len(s) \in Nat
  OBVIOUS
<1> DEFINE h == SubSeq(s, 1, i - 1)
           t == SubSeq(s, i + 1, Len(s))
<1>2. h \in Seq(T) /\ Len(h) = i - 1
  BY <1>1
<1>3. t \in Seq(T) /\ Len(t) = Len(s) - i
  BY <1>1
<1>4. i # Len(s) => t[Len(s) - i] = s[Len(s)]
  <2>1. \A k \in 1 .. Len(s) - i : t[k] = s[k + i]
    <3>1. \A j \in i + 1 .. Len(s) : s[j] \in T
      BY <1>1
    <3>2. \A k \in 1 .. Len(s) - (i + 1) + 1 : t[k] = s[i + 1 + k - 1]
      BY <1>1, <3>1, SubSeqProperties
    <3> TAKE k \in 1 .. Len(s) - i
    <3>3. k \in 1 .. Len(s) - (i + 1) + 1 /\ i + 1 + k - 1 = k + i
      BY <1>1
    <3> QED
      BY <3>2, <3>3
  <2> QED
    BY <1>1, <2>1, Remaining
<1> HIDE DEF h, t
<1>5. h \o t \in Seq(T) /\ Len(h \o t) = Len(s) - 1
  BY <1>1, <1>2, <1>3
<1>6. ASSUME i # Len(s)
      PROVE  h \o t # <<>> /\ (h \o t)[Len(h \o t)] = s[Len(s)]
  <2>1. Len(s) - 1 \in 1 .. Len(s) - 1 /\ Len(t) \in Nat /\ Len(t) >= 1
    BY <1>1, <1>3, <1>6
  <2>2. (h \o t)[Len(s) - 1] = t[Len(s) - 1 - (i - 1)]
    BY <1>1, <1>2, <1>3, <1>5, <2>1
  <2>3. Len(s) - 1 - (i - 1) = Len(t)
    BY <1>1, <1>3
  <2> QED
    BY <1>3, <1>4, <1>5, <1>6, <2>1, <2>2, <2>3
<1> QED
  BY <1>5, <1>6 DEF RemoveAt, h, t

-----------------------------------------------------------------------------
(* The page with the script *)

\* The detail has a history to show.
HistoryShown == current # NoAgent /\ ~gone /\ Ranges # {} /\ Allowed # {}

TilesFollow == current # NoAgent /\ current \in readable => tiles = current

\* The load that is in force.
HistoryFollows ==
  /\ key = IF HistoryShown THEN [agent |-> current, hours |-> bar] ELSE NoKey
  /\ key = NoKey => open = {}
  /\ HistoryShown => bar \in Ranges

PartFollows(p) ==
  chart[p] # NoChart /\ chart[p].key = key /\ chart[p].live \subseteq {current}

PartsFollow == HistoryShown => \A p \in Allowed \ open : PartFollows(p)

ScriptInv == TypeOK /\ TilesFollow /\ HistoryFollows /\ PartsFollow

USE PublicPageAssumption, AbsenceAssumption

\* The status of the servers moves by itself.
statusVars == <<known, online, counted, server, sync>>

StatusTypes ==
  /\ known \in SUBSET Agents
  /\ online \in [Agents -> BOOLEAN] /\ counted \in [Agents -> BOOLEAN]
  /\ server \in [Agents -> BOOLEAN]
  /\ sync \in [stage : {"none", "asked", "read"}, read : [Agents -> BOOLEAN]]

(* Every set of hours has a smallest, so that a default range is one of those offered. *)
LEMMA SmallestIsIn ==
  ASSUME NEW S \in SUBSET Nat, S # {}
  PROVE  Smallest(S) \in S /\ Default(S) \in S
<1> DEFINE Less == OpToRel(<, Nat)
<1>1. IsWellFoundedOn(Less, Nat) /\ S \subseteq Nat
  BY NatLessThanWellFounded
<1>2. \A g, h \in Nat : g < h => <<g, h>> \in Less
  BY DEF OpToRel
<1> HIDE DEF Less
<1>3. PICK h \in S : \A g \in S : ~ (<<g, h>> \in Less)
  BY <1>1, WFMin
<1>4. \A g \in S : h <= g
  <2> TAKE g \in S
  <2>1. g \in Nat /\ h \in Nat
    BY <1>1
  <2>2. ~ (g < h)
    BY <1>2, <1>3, <2>1, Zenon
  <2> QED
    BY <2>1, <2>2
<1>5. Smallest(S) \in S
  BY <1>4 DEF Smallest
<1> QED
  BY <1>5 DEF Default

LEMMA RangesOffered ==
  /\ Ranges \subseteq Offered /\ Ranges \subseteq Nat
  /\ Ranges # {} => Default(Ranges) \in Ranges
  /\ MaxHours = 0 => Ranges = {}
<1>1. Ranges \in SUBSET Nat /\ Ranges \subseteq Offered
  BY DEF Ranges
<1>2. MaxHours = 0 => Ranges = {}
  <2>1. \A h \in Offered : h \in Nat /\ h # 0
    OBVIOUS
  <2>2. \A h \in Offered : ~ (h <= 0)
    BY <2>1
  <2> QED
    BY <2>2 DEF Ranges
<1> QED
  BY <1>1, <1>2, SmallestIsIn

LEMMA ScriptStart ==
  ASSUME StatusTypes, History!GroupInit, current = NoAgent, hours \in Nat, bar = NoHours,
         tiles = NoAgent, reported \in SUBSET Agents, readable = reported,
         chart = [p \in Allowed |-> NoChart], gone \in BOOLEAN
  PROVE  ScriptInv
<1>1. TypeOK
  BY DEF TypeOK, StatusTypes, History!GroupInit, History!GroupTypeOK
<1> QED
  BY <1>1 DEF ScriptInv, TilesFollow, HistoryFollows, PartsFollow, HistoryShown,
              History!GroupInit

LEMMA ScriptInvInit == Init => ScriptInv
<1> SUFFICES ASSUME Init PROVE ScriptInv
  OBVIOUS
<1>1. StatusTypes
  BY DEF Init, StatusTypes, NoSync
<1> QED
  BY <1>1, ScriptStart DEF Init

(* Steps of the history's requests *)

LEMMA AbandonedTypes == ScriptInv => History!Abandoned \subseteq Allowed \X Keys
  BY DEF ScriptInv, HistoryFollows, TypeOK, History!GroupTypeOK, History!Abandoned

LEMMA BeginTypes ==
  ASSUME ScriptInv, NEW k \in Keys, History!Begin(k, Allowed)
  PROVE  History!GroupTypeOK' /\ key' = k /\ open' = Allowed
  BY AbandonedTypes DEF History!Begin, History!GroupTypeOK

LEMMA CancelTypes ==
  ASSUME ScriptInv, History!CancelGroup
  PROVE  History!GroupTypeOK' /\ key' = NoKey /\ open' = {}
  BY AbandonedTypes DEF ScriptInv, TypeOK, History!CancelGroup, History!GroupTypeOK

LEMMA PaintKeeps ==
  ASSUME ScriptInv, NEW p \in Allowed, NEW how \in Outcomes, Paint(p, how)
  PROVE  ScriptInv' /\ key \in Keys
<1> USE DEF Paint, statVars, History!Answer
<1>1. HistoryShown /\ key \in Keys
  BY DEF ScriptInv, HistoryFollows, TypeOK, History!GroupTypeOK
<1>2. [key |-> key, live |-> {}] \in Charts
  BY <1>1 DEF Charts
<1>3. History!GroupTypeOK'
  BY DEF ScriptInv, TypeOK, History!GroupTypeOK
<1>4. TypeOK'
  BY <1>2, <1>3 DEF ScriptInv, TypeOK
<1>5. TilesFollow' /\ HistoryFollows'
  BY <1>1 DEF ScriptInv, TilesFollow, HistoryFollows, HistoryShown
<1>6. PartFollows(p)'
  BY <1>2 DEF ScriptInv, TypeOK, PartFollows
<1>7. \A q \in Allowed \ open : q # p => PartFollows(q)'
  BY <1>1 DEF ScriptInv, TypeOK, PartsFollow, PartFollows
<1>8. PartsFollow'
  BY <1>6, <1>7 DEF PartsFollow
<1> QED
  BY <1>1, <1>4, <1>5, <1>8 DEF ScriptInv

(* What neither loads nor shows leaves the selection and the charts alone. *)
LEMMA AsideKeeps ==
  ASSUME ScriptInv, StatusTypes', hours' \in Nat, History!GroupTypeOK',
         UNCHANGED <<current, bar, tiles, reported, readable, chart, gone, key, open>>
  PROVE  ScriptInv'
<1>1. TypeOK'
  BY DEF ScriptInv, TypeOK, StatusTypes
<1>2. TilesFollow' /\ HistoryFollows' /\ PartsFollow'
  BY DEF ScriptInv, TilesFollow, HistoryFollows, PartsFollow, PartFollows, HistoryShown
<1> QED
  BY <1>1, <1>2 DEF ScriptInv

(* A load, from wherever it is asked, of a server over the hours of the range bar. *)
LEMMA LoadKeeps ==
  ASSUME ScriptInv, ~gone, NEW a \in Agents, current' = a, LoadDetail(a, bar'),
         RenderLiveState(a), hours' \in Nat, bar' \in Nat \cup {NoHours},
         Ranges # {} => bar' \in Ranges,
         UNCHANGED <<statVars, reported, readable, chart, gone>>
  PROVE  ScriptInv' /\ key' \in Keys \cup {NoKey}
<1> USE DEF statVars
<1>1. tiles' = IF a \in reported THEN a ELSE tiles
  BY DEF RenderLiveState
<1>2. TilesFollow'
  BY <1>1 DEF ScriptInv, TypeOK, TilesFollow
<1>3. CASE Ranges = {} \/ Allowed = {}
  <2>1. UNCHANGED <<key, open, stale, failed, blocked>>
    BY <1>3 DEF LoadDetail, groupVars
  <2>2. ~HistoryShown /\ ~HistoryShown'
    BY <1>3 DEF HistoryShown
  <2>3. History!GroupTypeOK'
    BY <2>1 DEF ScriptInv, TypeOK, History!GroupTypeOK
  <2>4. TypeOK'
    BY <1>1, <2>3 DEF ScriptInv, TypeOK
  <2>5. HistoryFollows' /\ PartsFollow' /\ key' = NoKey
    BY <2>1, <2>2 DEF ScriptInv, HistoryFollows, PartsFollow
  <2> QED
    BY <1>2, <2>4, <2>5 DEF ScriptInv
<1>4. CASE Ranges # {} /\ Allowed # {}
  <2> DEFINE k == [agent |-> a, hours |-> bar']
  <2>1. k \in Keys /\ k # NoKey
    BY <1>4, RangesOffered DEF Keys
  <2>2. History!Begin(k, Allowed)
    BY <1>4 DEF LoadDetail
  <2>3. History!GroupTypeOK' /\ key' = k /\ open' = Allowed
    BY <2>1, <2>2, BeginTypes
  <2>4. TypeOK'
    BY <1>1, <2>3 DEF ScriptInv, TypeOK
  <2>5. HistoryShown'
    BY <1>4 DEF HistoryShown
  <2>6. HistoryFollows' /\ PartsFollow'
    BY <1>4, <2>1, <2>3, <2>5 DEF HistoryFollows, PartsFollow
  <2> QED
    BY <1>2, <2>1, <2>3, <2>4, <2>6 DEF ScriptInv
<1> QED
  BY <1>3, <1>4

LEMMA OpenAgentKeeps ==
  ASSUME ScriptInv, ~gone, NEW a \in Agents, OpenAgent(a)
  PROVE  ScriptInv' /\ key' \in Keys \cup {NoKey} /\ UNCHANGED chart
<1>1. hours \in Nat /\ bar \in Nat \cup {NoHours}
  BY DEF ScriptInv, TypeOK
<1>2. CASE MaxHours = 0
  <2>1. Ranges = {} /\ UNCHANGED <<bar, hours>>
    BY <1>2, RangesOffered DEF OpenAgent, InitRangeBar
  <2>2. LoadDetail(a, bar')
    BY <2>1 DEF OpenAgent, LoadDetail
  <2> QED
    BY <1>1, <2>1, <2>2, LoadKeeps DEF OpenAgent
<1>3. CASE MaxHours # 0
  <2>1. /\ bar' = hours'
        /\ hours' = IF hours \in Ranges THEN hours
                    ELSE IF Ranges # {} THEN Default(Ranges) ELSE 6
    BY <1>3 DEF OpenAgent, InitRangeBar
  <2>2. hours' \in Nat /\ (Ranges # {} => hours' \in Ranges)
    <3>1. CASE hours \in Ranges
      BY <1>1, <2>1, <3>1
    <3>2. CASE hours \notin Ranges /\ Ranges # {}
      BY <2>1, <3>2, RangesOffered
    <3>3. CASE Ranges = {}
      BY <2>1, <3>3
    <3> QED
      BY <3>1, <3>2, <3>3
  <2> QED
    BY <2>1, <2>2, LoadKeeps DEF OpenAgent
<1> QED
  BY <1>2, <1>3

LEMMA PickHoursKeeps ==
  ASSUME ScriptInv, ~gone, NEW h \in Offered, PickHours(h)
  PROVE  ScriptInv' /\ key' \in Keys \cup {NoKey} /\ UNCHANGED chart
<1>1. current \in Agents /\ bar' = h /\ hours' = h /\ h \in Ranges /\ h \in Nat
  BY RangesOffered DEF ScriptInv, TypeOK, PickHours
<1> QED
  BY <1>1, LoadKeeps DEF PickHours

LEMMA RetryKeeps ==
  ASSUME ScriptInv, ~gone, Retry
  PROVE  ScriptInv' /\ key' \in Keys \cup {NoKey} /\ UNCHANGED chart
<1>1. key.agent = current /\ key.hours = bar /\ bar \in Ranges /\ current \in Agents
  BY DEF ScriptInv, TypeOK, HistoryFollows, HistoryShown, Retry
<1>2. LoadDetail(current, bar') /\ RenderLiveState(current)
  BY <1>1 DEF Retry
<1> QED
  BY <1>1, <1>2, LoadKeeps DEF Retry, ScriptInv, TypeOK

(* The detail, or the page, is left. *)
LEMMA LeaveKeeps ==
  ASSUME ScriptInv, OpenOverview \/ Leave
  PROVE  ScriptInv' /\ key' = NoKey /\ UNCHANGED chart
<1> USE DEF statVars, viewVars
<1>1. History!GroupTypeOK' /\ key' = NoKey /\ open' = {}
  BY CancelTypes DEF OpenOverview, Leave
<1>2. NoSync \in [stage : {"none", "asked", "read"}, read : [Agents -> BOOLEAN]]
  BY DEF NoSync
<1>3. TypeOK'
  BY <1>1, <1>2 DEF ScriptInv, TypeOK, OpenOverview, Leave
<1>4. ~HistoryShown' /\ UNCHANGED chart
  BY DEF HistoryShown, OpenOverview, Leave
<1>5. TilesFollow' /\ HistoryFollows' /\ PartsFollow'
  BY <1>1, <1>4 DEF ScriptInv, TilesFollow, HistoryFollows, PartsFollow, OpenOverview, Leave
<1> QED
  BY <1>1, <1>3, <1>4, <1>5 DEF ScriptInv

LEMMA PulseKeeps ==
  ASSUME ScriptInv, NEW available \in SUBSET Agents, Pulse(available)
  PROVE  /\ ScriptInv' /\ UNCHANGED key
         /\ \A p \in Allowed :
              /\ chart'[p] = NoChart <=> chart[p] = NoChart
              /\ chart[p] # NoChart => chart'[p].key = chart[p].key
<1> USE DEF Pulse, groupVars
<1>1. chart \in [Allowed -> Charts \cup {NoChart}] /\ current \in Agents \cup {NoAgent}
  BY DEF ScriptInv, TypeOK
<1>2. CASE UNCHANGED <<tiles, chart>> /\ current \notin available
  <2>1. TypeOK'
    BY <1>2 DEF ScriptInv, TypeOK, History!GroupTypeOK
  <2>2. TilesFollow' /\ HistoryFollows' /\ PartsFollow'
    BY <1>2 DEF ScriptInv, TilesFollow, HistoryFollows, PartsFollow, PartFollows, HistoryShown
  <2> QED
    BY <1>2, <2>1, <2>2 DEF ScriptInv
<1>3. CASE /\ current \in available /\ tiles' = current
           /\ chart' = [p \in Allowed |-> IF chart[p] = NoChart THEN NoChart
                                          ELSE [chart[p] EXCEPT !.live = @ \cup {current}]]
  <2>1. ASSUME NEW c \in Charts
        PROVE  /\ [c EXCEPT !.live = @ \cup {current}] \in Charts
               /\ [c EXCEPT !.live = @ \cup {current}] # NoChart
               /\ [c EXCEPT !.live = @ \cup {current}].key = c.key
               /\ [c EXCEPT !.live = @ \cup {current}].live = c.live \cup {current}
    BY <1>3 DEF Charts
  <2>2. /\ chart' \in [Allowed -> Charts \cup {NoChart}]
        /\ \A p \in Allowed :
             /\ chart'[p] = NoChart <=> chart[p] = NoChart
             /\ chart[p] # NoChart => /\ chart'[p].key = chart[p].key
                                      /\ chart'[p].live = chart[p].live \cup {current}
    BY <1>1, <1>3, <2>1
  <2>3. TypeOK'
    BY <1>3, <2>2 DEF ScriptInv, TypeOK, History!GroupTypeOK
  <2>4. TilesFollow' /\ HistoryFollows' /\ PartsFollow'
    BY <1>3, <2>2 DEF ScriptInv, TilesFollow, HistoryFollows, PartsFollow, PartFollows,
                      HistoryShown
  <2> QED
    BY <2>2, <2>3, <2>4 DEF ScriptInv
<1> QED
  BY <1>2, <1>3

\* What a step may do to the load in force and to what the charts show.
ChartsKeep ==
  \A p \in Allowed : /\ chart'[p] = NoChart <=> chart[p] = NoChart
                     /\ chart[p] # NoChart => chart'[p].key = chart[p].key

Painted(p) ==
  key \in Keys /\ UNCHANGED key /\ chart' = [chart EXCEPT ![p] = [key |-> key, live |-> {}]]

LEMMA ScriptStep ==
  ASSUME ScriptInv, [Next]_vars
  PROVE  /\ ScriptInv'
         /\ \/ key' \in Keys \cup {NoKey} /\ ChartsKeep
            \/ \E p \in Allowed : Painted(p)
<1>0. /\ key \in Keys \cup {NoKey} /\ StatusTypes /\ hours \in Nat /\ History!GroupTypeOK
      /\ NoSync \in [stage : {"none", "asked", "read"}, read : [Agents -> BOOLEAN]]
  BY DEF ScriptInv, TypeOK, History!GroupTypeOK, StatusTypes, NoSync
<1> USE DEF statVars, viewVars, groupVars
<1>1. ASSUME UNCHANGED <<current, bar, tiles, reported, readable, chart, gone, key, open>>,
             StatusTypes', hours' \in Nat, History!GroupTypeOK'
      PROVE  ScriptInv' /\ key' \in Keys \cup {NoKey} /\ ChartsKeep
  BY <1>0, <1>1, AsideKeeps DEF ChartsKeep
<1>2. CASE UNCHANGED vars
  <2>1. StatusTypes' /\ hours' \in Nat /\ History!GroupTypeOK'
    BY <1>0, <1>2 DEF vars, StatusTypes, History!GroupTypeOK
  <2> QED
    BY <1>1, <1>2, <2>1 DEF vars
<1>3. CASE ~gone /\ Visitor
  <2>1. CASE \E h \in Stored : OtherTabStores(h)
    <3>1. UNCHANGED <<current, bar, tiles, reported, readable, chart, gone, key, open>>
      BY <2>1 DEF OtherTabStores
    <3>2. StatusTypes' /\ hours' \in Nat /\ History!GroupTypeOK'
      BY <1>0, <2>1 DEF OtherTabStores, StatusTypes, History!GroupTypeOK
    <3> QED
      BY <1>1, <3>1, <3>2
  <2>2. CASE ~ \E h \in Stored : OtherTabStores(h)
    BY <1>3, <2>2, OpenAgentKeeps, PickHoursKeeps, RetryKeeps, LeaveKeeps
       DEF Visitor, ChartsKeep
  <2> QED
    BY <2>1, <2>2
<1>4. CASE RetryAfter \/ \E p \in Allowed, k \in Keys : StaleAnswer(p, k)
  <2>1. UNCHANGED <<statVars, viewVars, gone, key, open, failed>>
    BY <1>4 DEF RetryAfter, StaleAnswer, History!Unblock, History!Expire
  <2>2. History!GroupTypeOK'
    BY <1>0, <1>4 DEF RetryAfter, StaleAnswer, History!Unblock, History!Expire,
                      History!GroupTypeOK
  <2>3. StatusTypes'
    BY <1>0, <2>1 DEF StatusTypes
  <2> QED
    BY <1>0, <1>1, <2>1, <2>2, <2>3
<1>5. CASE \E p \in Allowed, how \in Outcomes : Paint(p, how)
  BY <1>5, PaintKeeps DEF Paint, Painted, History!Answer
<1>6. CASE \E available \in SUBSET Agents : Pulse(available)
  BY <1>0, <1>6, PulseKeeps DEF ChartsKeep
<1>7. CASE SyncTick \/ ServerReads \/ SyncAnswer \/ SyncFails \/ \E a \in Agents : StatusChanges(a)
  <2>1. UNCHANGED <<viewVars, groupVars, gone>>
    BY <1>7 DEF SyncTick, ServerReads, SyncAnswer, SyncFails, StatusChanges
  <2>2. StatusTypes'
    <3>1. CASE SyncTick \/ ServerReads \/ SyncFails
      <4>1. sync' \in [stage : {"none", "asked", "read"}, read : [Agents -> BOOLEAN]]
        BY <1>0, <3>1 DEF SyncTick, ServerReads, SyncFails, StatusTypes
      <4> QED
        BY <1>0, <3>1, <4>1 DEF SyncTick, ServerReads, SyncFails, StatusTypes
    <3>2. CASE SyncAnswer
      BY <1>0, <3>2 DEF SyncAnswer, StatusTypes
    <3>3. CASE \E a \in Agents : StatusChanges(a)
      BY <1>0, <3>3 DEF StatusChanges, StatusTypes
    <3> QED
      BY <1>7, <3>1, <3>2, <3>3
  <2>3. History!GroupTypeOK'
    BY <1>0, <2>1 DEF History!GroupTypeOK
  <2> QED
    BY <1>0, <1>1, <2>1, <2>2, <2>3
<1> QED
  BY <1>2, <1>3, <1>4, <1>5, <1>6, <1>7 DEF Next

LEMMA ScriptInvHolds == Spec => []ScriptInv
<1>1. ScriptInv /\ [Next]_vars => ScriptInv'
  BY ScriptStep
<1> QED
  BY <1>1, ScriptInvInit, PTL DEF Spec

LEMMA ScriptSettles == ScriptInv => SettledShowsSelection
  BY DEF ScriptInv, TilesFollow, HistoryFollows, PartsFollow, PartFollows, HistoryShown,
         SettledShowsSelection

\* Types of the page with the script.
THEOREM PublicPageTypesHold == Spec => []TypeOK
  BY ScriptInvHolds, PTL DEF ScriptInv

\* In web/src/js/pages/public_dashboard: the history of the page with the script implements
\* LatestLoad.  Every step starts a load, gives one up, shows data of the one in force, or
\* leaves alone what is asked for and what is shown.
THEOREM PublicPageImplementsLatestLoad == Spec => ShowsLatestLoad
<1> DEFINE drawn == [p \in Allowed |-> IF chart[p] = NoChart THEN NoKey ELSE chart[p].key]
<1>1. Init => Loads!LoadInit
  BY DEF Init, History!GroupInit, Loads!LoadInit
<1>2. ASSUME ScriptInv, [Next]_vars
      PROVE  [Loads!LoadNext]_(Loads!loadVars)
  <2>1. CASE key' \in Keys \cup {NoKey} /\ ChartsKeep
    <3>1. drawn' = drawn
      BY <2>1 DEF ChartsKeep
    <3> QED
      BY <2>1, <3>1 DEF Loads!LoadNext, Loads!Ask, Loads!Cancel, Loads!loadVars
  <2>2. ASSUME NEW p \in Allowed, Painted(p)
        PROVE  Loads!Show(p)
    <3>1. [key |-> key, live |-> {}] \in Charts /\ key # NoKey
      BY <2>2 DEF Painted, Charts
    <3>2. chart \in [Allowed -> Charts \cup {NoChart}]
      BY <1>2 DEF ScriptInv, TypeOK
    <3>3. drawn' = [drawn EXCEPT ![p] = key]
      BY <2>2, <3>1, <3>2 DEF Painted
    <3> QED
      BY <2>2, <3>1, <3>3 DEF Painted, Loads!Show
  <2> QED
    BY <1>2, <2>1, <2>2, ScriptStep DEF Loads!LoadNext
<1> QED
  BY <1>1, <1>2, ScriptInvHolds, PTL DEF Spec, ShowsLatestLoad, Loads!LoadSpec

-----------------------------------------------------------------------------
(* The React application *)

\* As long as the latest request for a page is pending, it is the last of those under way
\* and is for the route; once it was answered and nothing came after, that page is shown.
PageAsked ==
  /\ pageLoading => pageAsks # <<>>
  /\ pageLatest = "pending" /\ slug # NoSlug =>
       pageAsks # <<>> /\ pageAsks[Len(pageAsks)] = slug
  /\ pageLatest = "shown" /\ slug # NoSlug => shown = slug

\* The same of the chart's series, for the agent and the period on screen.
SeriesAsked ==
  Active # Nobody =>
    /\ chartLoading => chartAsks # <<>>
    /\ chartLatest = "pending" =>
         chartAsks # <<>> /\ chartAsks[Len(chartAsks)] = <<Active, shownHours>>
    /\ chartLatest = "shown" =>
         /\ memberChart.of \in {<<Active, shownHours>>, NoSeries}
         /\ memberChart.live \subseteq {Active}

FeedFollows == feed \in {shown, NoPage}

AppInv == PublicAppTypeOK /\ FeedFollows /\ PageAsked /\ SeriesAsked

USE PublicAppAssumption, MemberAssumption

Series == Members \X Periods

LEMMA ActiveTypes == Active \in Members \cup {Nobody}
  BY DEF Active, DetailShown

LEMMA AppStart ==
  ASSUME PublicAppInit PROVE AppInv
<1> USE DEF PublicAppInit
<1>1. Active = Nobody
  BY DEF Active, DetailShown, Rendering, On, Members
<1>2. PublicAppTypeOK
  BY DEF PublicAppTypeOK, Empty
<1>3. PageAsked
  BY DEF PageAsked
<1> QED
  BY <1>1, <1>2, <1>3 DEF AppInv, FeedFollows, SeriesAsked

PageTypes ==
  /\ shown \in Slugs \cup {NoPage} /\ feed \in Slugs \cup {NoPage}
  /\ pageError \in BOOLEAN /\ pageLoading \in BOOLEAN
  /\ pageAsks \in Seq(Slugs) /\ Len(pageAsks) <= MaxPending
  /\ pageLatest \in {"pending", "shown", "overtaken", "failed"}

ChartTypes ==
  /\ memberChart \in [of : Series \cup {NoSeries}, live : SUBSET Members]
  /\ chartLoading \in BOOLEAN
  /\ chartAsks \in Seq(Series) /\ Len(chartAsks) <= MaxPending
  /\ chartLatest \in {"pending", "shown", "overtaken"}

RouteTypes ==
  /\ slug \in Slugs \cup {NoSlug} /\ agentAt \in Members \cup {Nobody}
  /\ liveOf \in Slugs \cup {NoPage}
  /\ layout \in Layouts /\ matching \in BOOLEAN /\ shownHours \in Periods

LEMMA TypesInParts == PublicAppTypeOK <=> PageTypes /\ ChartTypes /\ RouteTypes
  BY DEF PublicAppTypeOK, PageTypes, ChartTypes, RouteTypes, Series

LEMMA TypesInPartsNext == PageTypes' /\ ChartTypes' /\ RouteTypes' => PublicAppTypeOK'
  BY DEF PublicAppTypeOK, PageTypes, ChartTypes, RouteTypes, Series

(* Whatever page and period come to be shown, the chart asks for the series of its own. *)
LEMMA SeriesFollow ==
  ASSUME AppInv, ChartFollows, shownHours' \in Periods
  PROVE  SeriesAsked' /\ ChartTypes'
<1>1. ChartTypes
  BY TypesInParts DEF AppInv
<1>2. Active \in Members \cup {Nobody} /\ Active' \in Members \cup {Nobody}
  BY DEF Active, DetailShown
<1>3. \A m \in Members : <<m, shownHours'>> \in Series
  BY DEF Series
<1>4. CASE Active' = Nobody
  <2>1. /\ memberChart' = Empty /\ chartLoading' = TRUE
        /\ chartAsks' = <<>> /\ chartLatest' = "pending"
    BY <1>4 DEF ChartFollows
  <2> QED
    BY <1>4, <2>1 DEF SeriesAsked, ChartTypes, Empty
<1>5. CASE Active' # Nobody /\ Active = Nobody
  <2>1. /\ memberChart' = Empty /\ chartLoading' = TRUE
        /\ chartAsks' = <<<<Active', shownHours'>>>> /\ chartLatest' = "pending"
    BY <1>5 DEF ChartFollows
  <2>2. <<Active', shownHours'>> \in Series
    BY <1>2, <1>3, <1>5
  <2>3. /\ chartAsks' \in Seq(Series) /\ Len(chartAsks') = 1 /\ chartAsks' # <<>>
        /\ chartAsks'[Len(chartAsks')] = <<Active', shownHours'>>
    BY <2>1, <2>2
  <2> QED
    BY <2>1, <2>3 DEF SeriesAsked, ChartTypes, Empty
<1>6. CASE /\ Active' # Nobody /\ Active # Nobody
           /\ <<Active', shownHours'>> # <<Active, shownHours>>
  <2>1. /\ Len(chartAsks) < MaxPending
        /\ chartAsks' = Append(chartAsks, <<Active', shownHours'>>)
        /\ chartLoading' = TRUE /\ chartLatest' = "pending"
        /\ \/ memberChart' = memberChart
           \/ memberChart' = [memberChart EXCEPT !.live = @ \cup {Active'}]
    BY <1>6 DEF ChartFollows
  <2>2. <<Active', shownHours'>> \in Series /\ Active' \in Members
    BY <1>2, <1>3, <1>6
  <2>3. /\ chartAsks' \in Seq(Series) /\ Len(chartAsks') <= MaxPending /\ chartAsks' # <<>>
        /\ chartAsks'[Len(chartAsks')] = <<Active', shownHours'>>
    BY <1>1, <2>1, <2>2, Appended DEF ChartTypes
  <2>4. memberChart' \in [of : Series \cup {NoSeries}, live : SUBSET Members]
    BY <1>1, <2>1, <2>2 DEF ChartTypes
  <2> QED
    BY <2>1, <2>3, <2>4 DEF SeriesAsked, ChartTypes
<1>7. CASE /\ Active' # Nobody /\ Active # Nobody
           /\ <<Active', shownHours'>> = <<Active, shownHours>>
  <2>1. UNCHANGED chartVs
    BY <1>7 DEF ChartFollows
  <2> QED
    BY <1>1, <1>7, <2>1 DEF AppInv, SeriesAsked, ChartTypes, chartVs
<1> QED
  BY <1>4, <1>5, <1>6, <1>7

LEMMA RouteKeeps ==
  ASSUME AppInv, NEW s \in Slugs \cup {NoSlug}, NEW a \in Members \cup {Nobody}, Route(s, a)
  PROVE  AppInv'
<1> USE DEF Route
<1>1. PageTypes /\ RouteTypes
  BY TypesInParts DEF AppInv
<1>2. RouteTypes'
  BY <1>1 DEF RouteTypes
<1>3. SeriesAsked' /\ ChartTypes'
  BY <1>2, SeriesFollow DEF RouteTypes
<1>4. PageTypes' /\ PageAsked'
  <2>1. CASE s = slug
    BY <1>1, <2>1 DEF AppInv, PageTypes, PageAsked
  <2>2. CASE s # slug /\ s = NoSlug
    BY <1>1, <2>2 DEF AppInv, PageTypes, PageAsked
  <2>3. CASE s # slug /\ s # NoSlug
    <3>1. /\ pageAsks' \in Seq(Slugs) /\ pageAsks' # <<>> /\ pageAsks'[Len(pageAsks')] = s
          /\ Len(pageAsks') = Len(pageAsks) + 1
      BY <1>1, <2>3, Appended DEF PageTypes
    <3> QED
      BY <1>1, <2>3, <3>1 DEF PageTypes, PageAsked
  <2> QED
    BY <2>1, <2>2, <2>3
<1>5. FeedFollows'
  BY DEF AppInv, FeedFollows
<1> QED
  BY <1>2, <1>3, <1>4, <1>5, TypesInPartsNext DEF AppInv

LEMMA PageEndKeeps ==
  ASSUME AppInv, NEW i \in DOMAIN pageAsks, PageAnswered(i) \/ PageFails(i)
  PROVE  AppInv'
<1> USE DEF PageAnswered, PageFails
<1>1. PageTypes /\ RouteTypes
  BY TypesInParts DEF AppInv
<1>2. RouteTypes'
  BY <1>1 DEF RouteTypes
<1>3. SeriesAsked' /\ ChartTypes'
  BY <1>2, SeriesFollow DEF RouteTypes
<1>4. /\ pageAsks' \in Seq(Slugs) /\ Len(pageAsks') = Len(pageAsks) - 1
      /\ i # Len(pageAsks) => /\ pageAsks' # <<>>
                             /\ pageAsks'[Len(pageAsks')] = pageAsks[Len(pageAsks)]
  BY <1>1, Removed DEF PageTypes
<1>5. pageAsks[i] \in Slugs /\ pageAsks # <<>>
  BY <1>1 DEF PageTypes
<1>6. PageTypes'
  <2>1. Len(pageAsks) \in Nat /\ Len(pageAsks) - 1 <= MaxPending
    BY <1>1 DEF PageTypes
  <2>2. CASE PageAnswered(i)
    BY <1>1, <1>4, <1>5, <2>1, <2>2 DEF PageTypes
  <2>3. CASE PageFails(i)
    BY <1>1, <1>4, <2>1, <2>3 DEF PageTypes
  <2> QED
    BY <2>2, <2>3
<1>7. PageAsked'
  BY <1>1, <1>4, <1>5 DEF AppInv, PageAsked, PageTypes
<1>8. FeedFollows'
  BY DEF AppInv, FeedFollows
<1> QED
  BY <1>2, <1>3, <1>6, <1>7, <1>8, TypesInPartsNext DEF AppInv

LEMMA SetHoursKeeps ==
  ASSUME AppInv, NEW h \in Periods, SetHours(h)
  PROVE  AppInv'
<1> USE DEF SetHours, pageVs
<1>1. PageTypes /\ RouteTypes
  BY TypesInParts DEF AppInv
<1>2. SeriesAsked' /\ ChartTypes'
  BY SeriesFollow
<1>3. PageTypes' /\ RouteTypes'
  BY <1>1 DEF PageTypes, RouteTypes
<1>4. PageAsked' /\ FeedFollows'
  BY DEF AppInv, PageAsked, FeedFollows
<1> QED
  BY <1>2, <1>3, <1>4, TypesInPartsNext DEF AppInv

(* A step that leaves the route, the page and the period alone. *)
LEMMA ChartOnlyKeeps ==
  ASSUME AppInv, UNCHANGED <<slug, agentAt, pageVs, layout, matching, shownHours>>,
         ChartTypes', Active' = Active => SeriesAsked'
  PROVE  AppInv'
<1> USE DEF pageVs
<1>1. PageTypes /\ RouteTypes
  BY TypesInParts DEF AppInv
<1>2. PageTypes' /\ RouteTypes'
  BY <1>1 DEF PageTypes, RouteTypes
<1>3. PageAsked' /\ FeedFollows'
  BY DEF AppInv, PageAsked, FeedFollows
<1>4. Active' = Active
  BY DEF Active, DetailShown, Rendering
<1> QED
  BY <1>2, <1>3, <1>4, TypesInPartsNext DEF AppInv

LEMMA ChartAnsweredKeeps ==
  ASSUME AppInv, NEW i \in DOMAIN chartAsks, NEW found \in BOOLEAN, ChartAnswered(i, found)
  PROVE  AppInv'
<1> USE DEF ChartAnswered
<1>1. ChartTypes
  BY TypesInParts DEF AppInv
<1>2. /\ chartAsks' \in Seq(Series) /\ Len(chartAsks') = Len(chartAsks) - 1
      /\ i # Len(chartAsks) => /\ chartAsks' # <<>>
                              /\ chartAsks'[Len(chartAsks')] = chartAsks[Len(chartAsks)]
  BY <1>1, Removed DEF ChartTypes
<1>3. chartAsks[i] \in Series /\ chartAsks # <<>>
  BY <1>1 DEF ChartTypes
<1>4. ChartTypes'
  <2>1. Len(chartAsks) \in Nat /\ Len(chartAsks) - 1 <= MaxPending
    BY <1>1 DEF ChartTypes
  <2>2. memberChart' \in [of : Series \cup {NoSeries}, live : SUBSET Members]
    BY <1>3
  <2> QED
    BY <1>1, <1>2, <2>1, <2>2 DEF ChartTypes
<1>5. ASSUME Active' = Active PROVE SeriesAsked'
  BY <1>1, <1>2, <1>3, <1>5 DEF AppInv, SeriesAsked, ChartTypes
<1> QED
  BY <1>4, <1>5, ChartOnlyKeeps

LEMMA ChartLiveKeeps ==
  ASSUME AppInv, ChartLive
  PROVE  AppInv'
<1> USE DEF ChartLive
<1>1. ChartTypes
  BY TypesInParts DEF AppInv
<1>2. Active \in Members
  BY ActiveTypes
<1>3. ChartTypes'
  BY <1>1, <1>2 DEF ChartTypes
<1>4. ASSUME Active' = Active PROVE SeriesAsked'
  BY <1>1, <1>4 DEF AppInv, SeriesAsked, ChartTypes
<1> QED
  BY <1>3, <1>4, ChartOnlyKeeps

(* What only the feed and the toolbar change. *)
LEMMA ToolsKeep ==
  ASSUME AppInv, \/ PublicFrame \/ FeedCloses \/ SetSearch \/ (\E l \in Layouts : SetLayout(l))
                 \/ UNCHANGED publicVars
  PROVE  AppInv'
<1> USE DEF PublicFrame, FeedCloses, SetSearch, SetLayout, publicVars, pageVs, chartVs
<1>1. PageTypes /\ RouteTypes /\ ChartTypes
  BY TypesInParts DEF AppInv
<1>2. Active' = Active
  BY DEF Active, DetailShown, Rendering
<1>3. PageTypes'
  BY <1>1 DEF PageTypes
<1>4. RouteTypes' /\ ChartTypes'
  BY <1>1 DEF PageTypes, RouteTypes, ChartTypes
<1>5. PageAsked' /\ FeedFollows'
  BY DEF AppInv, PageAsked, FeedFollows
<1>6. SeriesAsked'
  BY <1>2 DEF AppInv, SeriesAsked
<1> QED
  BY <1>3, <1>4, <1>5, <1>6, TypesInPartsNext DEF AppInv

LEMMA AppStep ==
  ASSUME AppInv, [PublicAppNext]_publicVars
  PROVE  AppInv'
<1>1. slug \in Slugs \cup {NoSlug}
  BY DEF AppInv, PublicAppTypeOK
<1>2. CASE ToOverview
  BY <1>1, <1>2, RouteKeeps DEF ToOverview
<1>3. CASE \E s \in Slugs \cup {NoSlug}, a \in Members \cup {Nobody} : Browse(s, a)
  BY <1>3, RouteKeeps DEF Browse
<1>4. CASE \E a \in Members : OpenMember(a)
  BY <1>1, <1>4, RouteKeeps DEF OpenMember
<1> QED
  BY <1>2, <1>3, <1>4, PageEndKeeps, SetHoursKeeps, ChartAnsweredKeeps, ChartLiveKeeps,
     ToolsKeep DEF PublicAppNext

LEMMA AppSettles == AppInv => PublicAppSettles
<1> SUFFICES ASSUME AppInv PROVE PublicAppSettles
  OBVIOUS
<1>1. pageAsks = <<>> => ~pageLoading /\ (pageLatest = "shown" /\ slug # NoSlug => shown = slug)
  BY DEF AppInv, PageAsked
<1>2. Active # Nobody /\ chartAsks = <<>> =>
        /\ ~chartLoading
        /\ chartLatest = "shown" =>
             /\ memberChart.of \in {<<Active, shownHours>>, NoSeries}
             /\ memberChart.live \subseteq {Active}
  BY DEF AppInv, SeriesAsked
<1> QED
  BY <1>1, <1>2 DEF AppInv, FeedFollows, PublicAppSettles

-----------------------------------------------------------------------------
(* Both forms *)

\* Whatever a visitor opens, picks and leaves while answers and the feed are on their
\* way, a page that waits for nothing shows it: the page of web/src/js/pages/
\* public_dashboard its server over the hours of its range bar, the one of
\* frontend-public the status page and the series asked for last, unless that request
\* failed or its answer was overtaken.
THEOREM PublicPagesAreSettled == PublicPagesSpec => []PublicPagesSettle
<1> DEFINE IInv == ScriptInv /\ AppInv
<1>1. PublicPagesInit => IInv
  <2> SUFFICES ASSUME PublicPagesInit PROVE IInv
    OBVIOUS
  <2>1. AppInv
    BY AppStart DEF PublicPagesInit
  <2>2. CASE form = "script"
    BY <2>1, <2>2, ScriptInvInit DEF PublicPagesInit
  <2>3. CASE form # "script"
    <3>1. hours \in Nat /\ reported \in SUBSET Agents /\ readable = reported
      BY <2>3, SmallestIsIn DEF PublicPagesInit
    <3>2. StatusTypes
      <4>1. /\ known = Rendered /\ server = [a \in Agents |-> TRUE]
            /\ online = server /\ counted = server /\ sync = NoSync
        BY <2>3 DEF PublicPagesInit
      <4>2. NoSync \in [stage : {"none", "asked", "read"}, read : [Agents -> BOOLEAN]]
        BY DEF NoSync
      <4> QED
        BY <4>1, <4>2 DEF StatusTypes
    <3> QED
      BY <2>1, <2>3, <3>1, <3>2, ScriptStart DEF PublicPagesInit
  <2> QED
    BY <2>2, <2>3
<1>2. IInv /\ [PublicPagesNext]_publicPagesVars => IInv'
  BY ScriptStep, AppStep DEF PublicPagesNext, publicPagesVars
<1>3. IInv => PublicPagesSettle
  BY ScriptSettles, AppSettles DEF PublicPagesSettle
<1> QED
  BY <1>1, <1>2, <1>3, PTL DEF PublicPagesSpec
=============================================================================
