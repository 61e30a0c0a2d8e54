------------------------ MODULE ServerRequests_proofs -------------------------
(***************************************************************************)
(* What holds between the goroutines that wait for one another, in three   *)
(* parts: the synchronization of an agent's monitors (ConfigSync), the     *)
(* shared builds of public answers (ResponseBuilds), and the requests over *)
(* an agent's connection (HubRequests).                                    *)
(***************************************************************************)
EXTENDS ConfigSync, ResponseBuilds, HubRequests, FiniteSetTheorems, TLAPS

(***************************************************************************)
(* An acknowledged configuration is the one the agent runs, for any        *)
(* monitors, settings, connections and goroutines.                         *)
(*                                                                         *)
(* The stripe of syncLocks is what carries the argument.  Whoever holds it *)
(* has read a generation that is neither older than the acknowledged one   *)
(* nor newer than the desired one, so it is the only one to acknowledge;   *)
(* its request is the last in the inbox, so when it is answered nothing    *)
(* older can reach the agent any more; and as long as it has the lock, the *)
(* forced synchronization of a connection that replaced its own has yet to *)
(* start.  Main says what this comes to: as long as the generation counts  *)
(* as acknowledged, the agent runs what is stored, or a synchronization is *)
(* under way.                                                              *)
(***************************************************************************)

Asked == {"waiting", "answered", "refused"}

PushStates ==
  {NoPush}
    \cup [at : {"committed"}, op : [id : Probes, setting : Settings \cup {Off}] \cup {Group}]
    \cup [at : {"apply"}, on : Hubs, op : [id : Probes, setting : Settings \cup {Off}]]
    \cup [at : {"sync"}, on : Hubs, force : BOOLEAN]
    \cup [at : {"read"}, on : Hubs, caps : SUBSET Settings, due : BOOLEAN, gen : Nat]
    \cup [at : Asked, on : Hubs, full : {FALSE}]
    \cup [at : Asked, on : Hubs, full : {TRUE}, gen : Nat]

Requests == [from : Pushers \cup {Nobody},
             sets : UNION {[D -> Settings \cup {Off}] : D \in SUBSET Probes}]

TypesOK ==
  /\ storedProbes \in ProbeSets
  /\ desired \in Nat /\ acked \in Nat /\ acked <= desired
  /\ link \in Hubs \cup {Nobody} /\ supports \subseteq Settings
  /\ push \in [Pushers -> PushStates]
  /\ inbox \in Seq(Requests)

\* A goroutine in this state has the lock ...
Locks(s) == s.at = "read" \/ s.at \in Asked
\* ... has read a generation ...
HasRead(s) == s.at = "read" \/ (s.at \in Asked /\ s.full)
\* ... and will synchronize the agent, or at least leave a trace of its failure.
WillSync(s) ==
  \/ s.at = "sync" /\ s.force
  \/ s.at = "read" /\ s.due
  \/ s.at \in Asked

ForcedSync == \E p \in Pushers : push[p].at = "sync" /\ push[p].force

\* Nothing says that the agent might not run what is stored.
Clean ==
  /\ link # Nobody /\ acked = desired /\ ~syncError /\ ~unrecorded
  /\ supports # {} /\ \A m \in Probes : Supported(storedProbes[m])

LockHeld  == \A p \in Pushers : Locks(push[p]) => syncLock = p
GenRead   == \A p \in Pushers : HasRead(push[p]) =>
               acked <= push[p].gen /\ push[p].gen <= desired
CapsKnown == \A p \in Pushers : push[p].at = "read" => push[p].caps = supports \/ ForcedSync

\* A request that somebody waits for is the last, and the whole set if it names the
\* generation that is still desired.
InFlight ==
  \A i \in DOMAIN inbox : \A p \in Pushers : inbox[i].from = p =>
    /\ i = Len(inbox) /\ push[p].at = "waiting"
    /\ push[p].full /\ push[p].gen = desired => inbox[i].sets = storedProbes

\* What has been answered under that generation the agent runs still.
Answered ==
  \A p \in Pushers : push[p].at = "answered" /\ push[p].full /\ push[p].gen = desired =>
    \/ link = Nobody \/ ForcedSync
    \/ runs = storedProbes /\ inbox = <<>>

\* Without a row for the agent, in which no failure can be recorded, nothing is stored.
NoRow ==
  desired = 0 =>
    /\ storedProbes = NoProbes /\ runs = NoProbes
    /\ \A i \in DOMAIN inbox : inbox[i].sets = NoProbes
    /\ \A p \in Pushers : /\ push[p].at \notin {"committed", "apply"}
                          /\ push[p].at \in Asked => push[p].full

Main ==
  Clean => \/ \E p \in Pushers : WillSync(push[p])
           \/ runs = storedProbes /\ inbox = <<>>
           \/ desired = 0

SyncInv == /\ TypesOK /\ LockHeld /\ GenRead /\ CapsKnown
           /\ InFlight /\ Answered /\ NoRow /\ Main

LEMMA SyncInvInit == SyncInit => SyncInv
<1> SUFFICES ASSUME SyncInit PROVE SyncInv
  OBVIOUS
<1> USE DEF SyncInit, NoPush
<1>1. <<>> \in Seq(Requests) /\ DOMAIN <<>> = {}
  OBVIOUS
<1>2. TypesOK
  BY <1>1 DEF TypesOK, ProbeSets, NoProbes, PushStates
<1>3. \A p \in Pushers : push[p].at = "idle"
  OBVIOUS
<1>4. LockHeld /\ GenRead /\ CapsKnown /\ Answered
  BY <1>3 DEF LockHeld, GenRead, CapsKnown, Answered, Locks, HasRead, Asked
<1>5. InFlight /\ NoRow /\ Main
  BY <1>1, <1>3 DEF InFlight, NoRow, Main, Asked
<1> QED
  BY <1>2, <1>4, <1>5 DEF SyncInv

(***************************************************************************)
(* A goroutine moves on, while the agent, its requests and what is stored  *)
(* for it stay as they are.                                                *)
(***************************************************************************)
LEMMA MoveKeeps ==
  ASSUME SyncInv, NEW p \in Pushers, TypesOK', LockHeld',
         UNCHANGED <<storedProbes, desired, acked, link, supports, inbox, runs>>,
         Clean' => Clean,
         \A q \in Pushers \ {p} : push'[q] = push[q],
         push[p].at # "waiting", push'[p].at # "answered",
         push[p].at = "sync" => \A q \in Pushers \ {p} : ~Locks(push[q]),
         HasRead(push'[p]) => acked <= push'[p].gen /\ push'[p].gen <= desired,
         push'[p].at = "read" => push'[p].caps = supports,
         WillSync(push[p]) => WillSync(push'[p]) \/ ~Clean' \/ desired = 0,
         desired = 0 => /\ push'[p].at \notin {"committed", "apply"}
                        /\ push'[p].at \in Asked => push'[p].full
  PROVE  SyncInv'
<1>1. GenRead'
  BY DEF SyncInv, GenRead
<1>2. ASSUME NEW q \in Pushers \ {p}, Locks(push[q]), ForcedSync
      PROVE  ForcedSync'
  BY <1>2 DEF ForcedSync
<1>3. CapsKnown'
  BY <1>2 DEF SyncInv, CapsKnown, Locks
<1>4. InFlight'
  BY DEF SyncInv, InFlight
<1>5. Answered'
  BY <1>2 DEF SyncInv, Answered, Locks, Asked
<1>6. NoRow'
  BY DEF SyncInv, NoRow
<1>7. Main'
  BY DEF SyncInv, Main
<1> QED
  BY <1>1, <1>3, <1>4, <1>5, <1>6, <1>7 DEF SyncInv

(***************************************************************************)
(* The holder of the lock sends a request, or is refused by the socket.    *)
(***************************************************************************)
LEMMA SendKeeps ==
  ASSUME SyncInv, NEW p \in Pushers, NEW request, TypesOK',
         UNCHANGED <<storedProbes, desired, acked, link, supports, runs, syncError, unrecorded>>,
         syncLock \in {Nobody, p}, syncLock' = p,
         \A q \in Pushers \ {p} : push'[q] = push[q],
         push[p].at \in {"apply", "read"},
         \/ inbox' = inbox /\ push'[p].at = "refused"
         \/ /\ inbox' = Append(inbox, [from |-> p, sets |-> request])
            /\ push'[p].at = "waiting",
         push'[p].full => /\ push[p].at = "read" /\ push'[p].gen = push[p].gen
                          /\ request = storedProbes,
         ~push'[p].full => push[p].at = "apply"
  PROVE  SyncInv'
<1>1. \A q \in Pushers \ {p} : ~Locks(push[q])
  BY NobodyAssumption DEF SyncInv, LockHeld
<1>2. LockHeld' /\ push'[p].at \in Asked
  BY <1>1 DEF LockHeld, Asked
<1>3. GenRead'
  BY <1>1 DEF SyncInv, GenRead, HasRead, Asked
<1>4. CapsKnown'
  BY <1>1, <1>2 DEF CapsKnown, Locks, Asked
<1>5. \A i \in DOMAIN inbox : inbox[i].from \notin Pushers
  BY <1>1 DEF SyncInv, InFlight, Locks, Asked
<1>6. Answered'
  BY <1>1 DEF Answered, Locks, Asked
<1>7. Main'
  BY <1>2 DEF Main, WillSync
<1>8. CASE inbox' = inbox
  <2>1. InFlight'
    BY <1>5, <1>8 DEF InFlight
  <2>2. NoRow'
    BY <1>2, <1>8 DEF SyncInv, NoRow, Asked
  <2> QED
    BY <1>2, <1>3, <1>4, <1>6, <1>7, <2>1, <2>2 DEF SyncInv
<1>9. CASE inbox' = Append(inbox, [from |-> p, sets |-> request]) /\ push'[p].at = "waiting"
  <2>1. /\ Len(inbox') = Len(inbox) + 1 /\ DOMAIN inbox' = 1 .. Len(inbox) + 1
        /\ DOMAIN inbox = 1 .. Len(inbox) /\ Len(inbox) \in Nat
        /\ inbox'[Len(inbox) + 1] = [from |-> p, sets |-> request]
        /\ \A i \in 1 .. Len(inbox) : inbox'[i] = inbox[i]
    <3>1. inbox \in Seq(Requests)
      BY DEF SyncInv, TypesOK
    <3> QED
      BY <1>9, <3>1
  <2>2. \A i \in DOMAIN inbox' : i \in DOMAIN inbox \/ i = Len(inbox')
    BY <2>1
  <2>3. inbox'[Len(inbox')].from = p /\ inbox'[Len(inbox')].sets = request
    BY <2>1
  <2>4. \A i \in DOMAIN inbox : inbox'[i] = inbox[i]
    BY <2>1
  <2>5. InFlight'
    BY <1>5, <1>9, <2>2, <2>3, <2>4 DEF InFlight
  <2>6. NoRow'
    BY <1>2, <2>2, <2>3, <2>4 DEF SyncInv, NoRow, Asked
  <2> QED
    BY <1>2, <1>3, <1>4, <1>6, <1>7, <2>5, <2>6 DEF SyncInv
<1> QED
  BY <1>8, <1>9

(***************************************************************************)
(* The type of what a goroutine goes on to is all the type invariant needs *)
(* of a step that sends nothing.                                           *)
(***************************************************************************)
LEMMA MoveTypes ==
  ASSUME TypesOK, NEW p \in Pushers, NEW s \in PushStates, Moves(p, s),
         UNCHANGED <<storedProbes, desired, acked, link, supports, inbox>>
  PROVE  /\ TypesOK' /\ push'[p] = s
         /\ \A q \in Pushers \ {p} : push'[q] = push[q]
  BY DEF TypesOK, Moves

\* Where a goroutine is says what it remembers.
LEMMA Shapes ==
  ASSUME NEW s \in PushStates
  PROVE  /\ s.at = "committed" =>
              s.op \in [id : Probes, setting : Settings \cup {Off}] \cup {Group}
         /\ s.at = "apply" =>
              s.on \in Hubs /\ s.op \in [id : Probes, setting : Settings \cup {Off}]
         /\ s.at = "sync" => s.on \in Hubs /\ s.force \in BOOLEAN
         /\ s.at = "read" => s \in [at : {"read"}, on : Hubs, caps : SUBSET Settings,
                                   due : BOOLEAN, gen : Nat]
         /\ s.at \in Asked => /\ s.on \in Hubs
                             /\ \/ s \in [at : Asked, on : Hubs, full : {FALSE}]
                                \/ s \in [at : Asked, on : Hubs, full : {TRUE}, gen : Nat]
<1>1. CASE s = NoPush
  BY <1>1 DEF NoPush, Asked
<1>2. CASE s \in [at : {"committed"}, op : [id : Probes, setting : Settings \cup {Off}] \cup {Group}]
  BY <1>2 DEF Asked
<1>3. CASE s \in [at : {"apply"}, on : Hubs, op : [id : Probes, setting : Settings \cup {Off}]]
  BY <1>3 DEF Asked
<1>4. CASE s \in [at : {"sync"}, on : Hubs, force : BOOLEAN]
  BY <1>4 DEF Asked
<1>5. CASE s \in [at : {"read"}, on : Hubs, caps : SUBSET Settings, due : BOOLEAN, gen : Nat]
  BY <1>5 DEF Asked
<1>6. CASE \/ s \in [at : Asked, on : Hubs, full : {FALSE}]
           \/ s \in [at : Asked, on : Hubs, full : {TRUE}, gen : Nat]
  BY <1>6 DEF Asked
<1> QED
  BY <1>1, <1>2, <1>3, <1>4, <1>5, <1>6 DEF PushStates

LEMMA ChangedKeeps ==
  ASSUME SyncInv, NEW p \in Pushers, Changed(p)
  PROVE  SyncInv'
<1> DEFINE s == push[p]
<1>1. s.op \in [id : Probes, setting : Settings \cup {Off}] \cup {Group}
  BY Shapes DEF Changed, SyncInv, TypesOK
<1>2. PICK new \in PushStates : /\ Moves(p, new)
                                /\ new.at \in {"idle", "apply", "sync"}
  <2>1. CASE Moves(p, NoPush)
    <3>1. NoPush \in PushStates /\ NoPush.at = "idle"
      BY DEF PushStates, NoPush
    <3> QED
      BY <2>1, <3>1
  <2>2. CASE link # Nobody /\ s.op = Group /\ Moves(p, SyncStart(link, TRUE))
    <3>1. SyncStart(link, TRUE) \in [at : {"sync"}, on : Hubs, force : BOOLEAN]
      BY <2>2 DEF SyncStart, SyncInv, TypesOK
    <3>2. SyncStart(link, TRUE) \in PushStates /\ SyncStart(link, TRUE).at = "sync"
      BY <3>1 DEF PushStates
    <3> QED
      BY <2>2, <3>2
  <2>3. CASE /\ link # Nobody /\ s.op # Group
             /\ Moves(p, [at |-> "apply", on |-> link, op |-> s.op])
    <3>1. [at |-> "apply", on |-> link, op |-> s.op]
            \in [at : {"apply"}, on : Hubs, op : [id : Probes, setting : Settings \cup {Off}]]
      BY <1>1, <2>3 DEF SyncInv, TypesOK
    <3>2. [at |-> "apply", on |-> link, op |-> s.op] \in PushStates
      BY <3>1 DEF PushStates
    <3> QED
      BY <2>3, <3>2
  <2> QED
    BY <2>1, <2>2, <2>3 DEF Changed
<1>3. /\ TypesOK' /\ push'[p] = new
      /\ \A q \in Pushers \ {p} : push'[q] = push[q]
  BY <1>2, MoveTypes DEF Changed, SyncInv
<1>4. LockHeld'
  BY <1>2, <1>3 DEF Changed, SyncInv, LockHeld, Locks, Asked
<1>5. Clean' => Clean
  BY DEF Changed, Clean, Supported
<1>6. s.at = "committed" /\ desired # 0
  BY DEF Changed, SyncInv, NoRow
<1> QED
  BY <1>2, <1>3, <1>4, <1>5, <1>6, MoveKeeps DEF Changed, HasRead, WillSync, Asked

LEMMA ReportKeeps ==
  ASSUME SyncInv, NEW p \in Pushers, Report(p)
  PROVE  SyncInv'
<1>1. SyncStart(link, FALSE) \in [at : {"sync"}, on : Hubs, force : BOOLEAN]
  BY DEF Report, SyncStart, SyncInv, TypesOK
<1>2. SyncStart(link, FALSE) \in PushStates /\ SyncStart(link, FALSE).at = "sync"
  BY <1>1 DEF PushStates
<1>3. /\ TypesOK' /\ push'[p] = SyncStart(link, FALSE)
      /\ \A q \in Pushers \ {p} : push'[q] = push[q]
  BY <1>2, MoveTypes DEF Report, SyncInv
<1>4. LockHeld'
  BY <1>2, <1>3 DEF Report, SyncInv, LockHeld, Locks, Asked
<1>5. Clean' => Clean
  BY DEF Report, Clean, Supported
<1>6. push[p].at = "idle"
  BY DEF Report, Free, NoPush
<1> QED
  BY <1>2, <1>3, <1>4, <1>5, <1>6, MoveKeeps DEF Report, HasRead, WillSync, Asked

LEMMA IncrementedKeeps ==
  ASSUME SyncInv, NEW p \in Pushers, Incremented(p)
  PROVE  SyncInv'
<1> DEFINE new == SyncStart(push[p].on, TRUE)
<1>1. push[p].on \in Hubs /\ Locks(push[p])
  BY Shapes DEF Incremented, SyncInv, TypesOK, Asked, Locks
<1>2. new \in [at : {"sync"}, on : Hubs, force : BOOLEAN]
  BY <1>1 DEF SyncStart
<1>3. new \in PushStates /\ new.at = "sync" /\ new.force
  BY <1>2 DEF PushStates, SyncStart
<1>4. /\ TypesOK' /\ push'[p] = new
      /\ \A q \in Pushers \ {p} : push'[q] = push[q]
  BY <1>3, MoveTypes DEF Incremented, SyncInv
<1>5. LockHeld'
  BY <1>1, <1>3, <1>4 DEF SyncInv, LockHeld, Locks, Asked
<1>6. Clean' => Clean
  BY DEF Incremented, Clean, Supported
<1> QED
  BY <1>3, <1>4, <1>5, <1>6, MoveKeeps DEF Incremented, HasRead, WillSync, Asked

LEMMA ReadGenerationKeeps ==
  ASSUME SyncInv, NEW p \in Pushers, ReadGeneration(p)
  PROVE  SyncInv'
<1>1. /\ push[p].at = "sync" /\ push[p].on \in Hubs /\ push[p].force \in BOOLEAN
      /\ desired \in Nat /\ acked \in Nat /\ acked <= desired /\ supports \subseteq Settings
  BY Shapes DEF ReadGeneration, SyncInv, TypesOK
<1>2. \A q \in Pushers : ~Locks(push[q])
  BY NobodyAssumption DEF ReadGeneration, SyncInv, LockHeld
<1>3. CASE supports = {}
  <2>1. NoPush \in PushStates /\ NoPush.at = "idle"
    BY DEF PushStates, NoPush
  <2>2. /\ TypesOK' /\ push'[p] = NoPush
        /\ \A q \in Pushers \ {p} : push'[q] = push[q]
    BY <1>3, <2>1, MoveTypes DEF ReadGeneration, SyncInv
  <2>3. LockHeld'
    BY <1>2, <2>1, <2>2 DEF LockHeld, Locks, Asked
  <2>4. ~Clean'
    BY <1>3 DEF ReadGeneration, Clean
  <2> QED
    BY <1>2, <2>1, <2>2, <2>3, <2>4, MoveKeeps DEF ReadGeneration, HasRead, Asked
<1>4. CASE supports # {}
  <2> DEFINE new == [at |-> "read", on |-> push[p].on, caps |-> supports,
                     due |-> push[p].force \/ desired # acked, gen |-> desired]
  <2>1. new \in [at : {"read"}, on : Hubs, caps : SUBSET Settings, due : BOOLEAN, gen : Nat]
    BY <1>1
  <2>2. /\ new \in PushStates /\ new.at = "read" /\ new.gen = desired /\ new.caps = supports
        /\ push[p].force => new.due
    BY <2>1 DEF PushStates
  <2>3. Moves(p, new) /\ syncLock' = p
    BY <1>4 DEF ReadGeneration
  <2> HIDE DEF new
  <2>4. /\ TypesOK' /\ push'[p] = new
        /\ \A q \in Pushers \ {p} : push'[q] = push[q]
    BY <2>2, <2>3, MoveTypes DEF ReadGeneration, SyncInv
  <2>5. LockHeld'
    BY <1>2, <2>3, <2>4 DEF LockHeld
  <2>6. Clean' => Clean
    BY DEF ReadGeneration, Clean, Supported
  <2>7. WillSync(push[p]) => WillSync(push'[p])
    BY <1>1, <2>2, <2>4 DEF WillSync, Asked
  <2>8. push[p].at = "sync" /\ push'[p].at = "read"
    BY <1>1, <2>2, <2>4
  <2>9. acked <= push'[p].gen /\ push'[p].gen <= desired
    BY <1>1, <2>2, <2>4
  <2> QED
    BY <1>2, <2>2, <2>4, <2>5, <2>6, <2>7, <2>8, <2>9, MoveKeeps DEF ReadGeneration, Asked
<1> QED
  BY <1>3, <1>4

LEMMA LookupFailsKeeps ==
  ASSUME SyncInv, NEW p \in Pushers, LookupFails(p)
  PROVE  SyncInv'
<1>1. NoPush \in PushStates /\ NoPush.at = "idle"
  BY DEF PushStates, NoPush
<1>2. /\ TypesOK' /\ push'[p] = NoPush
      /\ \A q \in Pushers \ {p} : push'[q] = push[q]
  BY <1>1, MoveTypes DEF LookupFails, SyncInv
<1>3. \A q \in Pushers : ~Locks(push[q])
  BY NobodyAssumption DEF LookupFails, SyncInv, LockHeld
<1>4. LockHeld'
  BY <1>1, <1>2, <1>3 DEF LockHeld, Locks, Asked
<1>5. ~Clean'
  BY DEF LookupFails, Clean
<1> QED
  BY <1>1, <1>2, <1>3, <1>4, <1>5, MoveKeeps DEF LookupFails, HasRead, Asked

LEMMA AckFailsKeeps ==
  ASSUME SyncInv, NEW p \in Pushers, AckFails(p)
  PROVE  SyncInv'
<1>1. NoPush \in PushStates /\ NoPush.at = "idle"
  BY DEF PushStates, NoPush
<1>2. /\ TypesOK' /\ push'[p] = NoPush
      /\ \A q \in Pushers \ {p} : push'[q] = push[q]
  BY <1>1, MoveTypes DEF AckFails, Ends, SyncInv
<1>3. \A q \in Pushers \ {p} : ~Locks(push[q])
  BY DEF AckFails, SyncInv, LockHeld, Locks, Asked
<1>4. LockHeld'
  BY <1>1, <1>2, <1>3 DEF LockHeld, Locks, Asked
<1>5. ~Clean'
  BY DEF AckFails, Clean
<1> QED
  BY <1>1, <1>2, <1>4, <1>5, MoveKeeps DEF AckFails, HasRead, Asked

(***************************************************************************)
(* What a goroutine remembers of its request.                              *)
(***************************************************************************)
LEMMA SendTypes ==
  ASSUME TypesOK, NEW p \in Pushers, push[p].on \in Hubs,
         NEW request, request \in UNION {[D -> Settings \cup {Off}] : D \in SUBSET Probes},
         NEW waiting, Sends(p, waiting, request),
         \A at \in Asked : [waiting EXCEPT !.at = at] \in PushStates,
         UNCHANGED <<storedProbes, desired, acked, link, supports>>
  PROVE  /\ TypesOK'
         /\ \/ inbox' = inbox /\ push'[p] = [waiting EXCEPT !.at = "refused"]
            \/ /\ inbox' = Append(inbox, [from |-> p, sets |-> request])
               /\ push'[p] = [waiting EXCEPT !.at = "waiting"]
         /\ \A q \in Pushers \ {p} : push'[q] = push[q]
<1>1. CASE inbox' = inbox /\ Moves(p, [waiting EXCEPT !.at = "refused"])
  BY <1>1 DEF TypesOK, Moves, Asked
<1>2. CASE /\ inbox' = Append(inbox, [from |-> p, sets |-> request])
           /\ Moves(p, [waiting EXCEPT !.at = "waiting"])
  <2>1. [from |-> p, sets |-> request] \in Requests
    BY DEF Requests
  <2>2. inbox' \in Seq(Requests)
    BY <1>2, <2>1 DEF TypesOK
  <2> QED
    BY <1>2, <2>2 DEF TypesOK, Moves, Asked
<1> QED
  BY <1>1, <1>2 DEF Sends

LEMMA ApplyIncrementalKeeps ==
  ASSUME SyncInv, NEW p \in Pushers, ApplyIncremental(p)
  PROVE  SyncInv'
<1> DEFINE waiting == [at |-> "apply", on |-> push[p].on, full |-> FALSE]
           request == [m \in {push[p].op.id} |-> push[p].op.setting]
<1>1. push[p].on \in Hubs /\ push[p].op \in [id : Probes, setting : Settings \cup {Off}]
  BY Shapes DEF ApplyIncremental, SyncInv, TypesOK
<1>2. request \in UNION {[D -> Settings \cup {Off}] : D \in SUBSET Probes}
  <2>1. request \in [{push[p].op.id} -> Settings \cup {Off}] /\ {push[p].op.id} \in SUBSET Probes
    BY <1>1
  <2> QED
    BY <2>1
<1>3. \A at \in Asked : /\ [waiting EXCEPT !.at = at] \in [at : Asked, on : Hubs, full : {FALSE}]
                        /\ [waiting EXCEPT !.at = at].at = at
  BY <1>1
<1>4. \A at \in Asked : /\ [waiting EXCEPT !.at = at] \in PushStates
                        /\ ~[waiting EXCEPT !.at = at].full
  BY <1>3 DEF PushStates
<1>5. Sends(p, waiting, request)
  BY DEF ApplyIncremental
<1> HIDE DEF waiting, request
<1>6. /\ TypesOK'
      /\ \/ inbox' = inbox /\ push'[p] = [waiting EXCEPT !.at = "refused"]
         \/ /\ inbox' = Append(inbox, [from |-> p, sets |-> request])
            /\ push'[p] = [waiting EXCEPT !.at = "waiting"]
      /\ \A q \in Pushers \ {p} : push'[q] = push[q]
  BY <1>1, <1>2, <1>4, <1>5, SendTypes DEF ApplyIncremental, SyncInv
<1>7. /\ \/ inbox' = inbox /\ push'[p].at = "refused"
         \/ inbox' = Append(inbox, [from |-> p, sets |-> request]) /\ push'[p].at = "waiting"
      /\ ~push'[p].full
  BY <1>3, <1>4, <1>6 DEF Asked
<1> QED
  BY <1>5, <1>6, <1>7, SendKeeps DEF ApplyIncremental, Sends

LEMMA ReadConfigsKeeps ==
  ASSUME SyncInv, NEW p \in Pushers, ReadConfigs(p)
  PROVE  SyncInv'
<1>1. /\ push[p] \in [at : {"read"}, on : Hubs, caps : SUBSET Settings, due : BOOLEAN, gen : Nat]
      /\ push[p].at = "read"
  BY Shapes DEF ReadConfigs, SyncInv, TypesOK
<1>2. syncLock = p /\ \A q \in Pushers \ {p} : ~Locks(push[q])
  BY <1>1 DEF SyncInv, LockHeld, Locks
<1>3. CASE push[p].due /\ \A m \in Probes : storedProbes[m] \in push[p].caps \cup {Off}
  <2> DEFINE waiting == [at |-> "read", on |-> push[p].on, full |-> TRUE, gen |-> push[p].gen]
  <2>1. storedProbes \in UNION {[D -> Settings \cup {Off}] : D \in SUBSET Probes}
    BY DEF SyncInv, TypesOK, ProbeSets
  <2>2. \A at \in Asked :
          /\ [waiting EXCEPT !.at = at] \in [at : Asked, on : Hubs, full : {TRUE}, gen : Nat]
          /\ [waiting EXCEPT !.at = at].at = at /\ [waiting EXCEPT !.at = at].gen = push[p].gen
    BY <1>1
  <2>3. \A at \in Asked : /\ [waiting EXCEPT !.at = at] \in PushStates
                          /\ [waiting EXCEPT !.at = at].full
    BY <2>2 DEF PushStates
  <2>4. Sends(p, waiting, storedProbes)
    BY <1>3 DEF ReadConfigs
  <2> HIDE DEF waiting
  <2>5. /\ TypesOK'
        /\ \/ inbox' = inbox /\ push'[p] = [waiting EXCEPT !.at = "refused"]
           \/ /\ inbox' = Append(inbox, [from |-> p, sets |-> storedProbes])
              /\ push'[p] = [waiting EXCEPT !.at = "waiting"]
        /\ \A q \in Pushers \ {p} : push'[q] = push[q]
    BY <1>1, <2>1, <2>3, <2>4, SendTypes DEF ReadConfigs, SyncInv
  <2>6. /\ \/ inbox' = inbox /\ push'[p].at = "refused"
           \/ /\ inbox' = Append(inbox, [from |-> p, sets |-> storedProbes])
              /\ push'[p].at = "waiting"
        /\ push'[p].full /\ push'[p].gen = push[p].gen
    BY <2>2, <2>3, <2>5 DEF Asked
  <2> QED
    BY <1>1, <1>2, <2>4, <2>5, <2>6, SendKeeps DEF ReadConfigs, Sends
<1>4. CASE ~(push[p].due /\ \A m \in Probes : storedProbes[m] \in push[p].caps \cup {Off})
  <2>1. NoPush \in PushStates /\ NoPush.at = "idle"
    BY DEF PushStates, NoPush
  <2>2. /\ TypesOK' /\ push'[p] = NoPush
        /\ \A q \in Pushers \ {p} : push'[q] = push[q]
    BY <1>4, <2>1, MoveTypes DEF ReadConfigs, Ends, SyncInv
  <2>3. LockHeld'
    BY <1>2, <2>1, <2>2 DEF LockHeld, Locks, Asked
  <2>4. UNCHANGED inbox
    BY <1>4 DEF ReadConfigs
  <2>5. Clean' => Clean
    BY DEF ReadConfigs, Clean, Supported
  <2>6. CASE ~push[p].due \/ ~Clean'
    <3>1. WillSync(push[p]) => ~Clean'
      BY <1>1, <2>6 DEF WillSync, Asked
    <3> QED
      BY <1>1, <2>1, <2>2, <2>3, <2>4, <2>5, <3>1, MoveKeeps DEF ReadConfigs, HasRead, Asked
  <2>7. CASE push[p].due /\ Clean'
    <3>1. push[p].caps # supports
      BY <1>4, <2>5, <2>7 DEF Clean, Supported
    <3>2. PICK q \in Pushers : push[q].at = "sync" /\ push[q].force
      BY <1>1, <3>1 DEF SyncInv, CapsKnown, ForcedSync
    <3>3. q # p /\ push'[q] = push[q]
      BY <1>1, <2>2, <3>2
    <3>4. Main' /\ ForcedSync'
      BY <3>2, <3>3 DEF Main, WillSync, ForcedSync
    <3>5. GenRead' /\ CapsKnown' /\ Answered'
      BY <1>2, <2>1, <2>2, <3>4 DEF ReadConfigs, SyncInv, GenRead, CapsKnown, Answered, HasRead,
         Locks, Asked
    <3>6. InFlight'
      BY <1>1, <2>1, <2>2, <2>4 DEF ReadConfigs, SyncInv, InFlight
    <3>7. NoRow'
      BY <2>1, <2>2, <2>4 DEF ReadConfigs, SyncInv, NoRow, Asked
    <3> QED
      BY <2>2, <2>3, <3>4, <3>5, <3>6, <3>7 DEF SyncInv
  <2> QED
    BY <2>6, <2>7
<1> QED
  BY <1>3, <1>4

LEMMA SyncedKeeps ==
  ASSUME SyncInv, NEW p \in Pushers, Synced(p)
  PROVE  SyncInv'
<1> DEFINE s == push[p]
<1>1. s \in [at : Asked, on : Hubs, full : {TRUE}, gen : Nat] /\ s.at \in {"answered", "refused"}
  BY Shapes DEF Synced, SyncInv, TypesOK, Asked
<1>2. syncLock = p /\ \A q \in Pushers \ {p} : ~Locks(push[q])
  BY <1>1 DEF SyncInv, LockHeld, Locks
<1>3. /\ desired \in Nat /\ acked \in Nat /\ s.gen \in Nat
      /\ acked <= s.gen /\ s.gen <= desired
  BY <1>1 DEF SyncInv, TypesOK, GenRead, HasRead
<1>4. NoPush \in PushStates /\ NoPush.at = "idle"
  BY DEF PushStates, NoPush
<1>5. /\ push' = [push EXCEPT ![p] = NoPush] /\ push' \in [Pushers -> PushStates]
      /\ push'[p] = NoPush
      /\ \A q \in Pushers \ {p} : push'[q] = push[q]
      /\ syncLock' = Nobody
      /\ UNCHANGED <<storedProbes, desired, link, supports, inbox, runs>>
  BY <1>4 DEF Synced, Ends, Moves, SyncInv, TypesOK
<1>6. \A q \in Pushers : ~Locks(push'[q])
  BY <1>2, <1>4, <1>5 DEF Locks, Asked
<1>7. LockHeld' /\ GenRead' /\ CapsKnown' /\ Answered'
  BY <1>6 DEF LockHeld, GenRead, CapsKnown, Answered, Locks, HasRead, Asked
<1>8. InFlight'
  BY <1>1, <1>4, <1>5 DEF SyncInv, InFlight
<1>9. NoRow'
  BY <1>4, <1>5 DEF SyncInv, NoRow, Asked
<1>10. CASE s.at = "answered"
  <2>1. acked' = s.gen
    BY <1>3, <1>10 DEF Synced, NetworkAck
  <2>2. TypesOK'
    BY <1>3, <1>5, <2>1 DEF SyncInv, TypesOK
  <2>3. Main'
    <3> SUFFICES ASSUME Clean' PROVE \/ \E q \in Pushers : WillSync(push'[q])
                                     \/ runs' = storedProbes' /\ inbox' = <<>>
      BY DEF Main
    <3>1. s.gen = desired /\ link # Nobody
      BY <1>5, <2>1 DEF Clean
    <3>2. CASE ForcedSync
      <4>1. PICK q \in Pushers : push[q].at = "sync" /\ push[q].force
        BY <3>2 DEF ForcedSync
      <4>2. push'[q] = push[q]
        BY <1>1, <1>5, <4>1
      <4> QED
        BY <4>1, <4>2 DEF WillSync
    <3>3. CASE ~ForcedSync
      BY <1>1, <1>5, <1>10, <3>1, <3>3 DEF SyncInv, Answered
    <3> QED
      BY <3>2, <3>3
  <2> QED
    BY <1>7, <1>8, <1>9, <2>2, <2>3 DEF SyncInv
<1>11. CASE s.at = "refused"
  <2>1. /\ UNCHANGED <<acked, unrecorded>>
        /\ syncError' = (syncError \/ (desired > 0 /\ s.gen = desired))
    BY <1>11 DEF Synced, NetworkAck
  <2>2. TypesOK'
    BY <1>5, <2>1 DEF SyncInv, TypesOK
  <2>3. Main'
    <3> SUFFICES ASSUME Clean' PROVE desired = 0
      BY <1>5 DEF Main
    <3>1. acked = desired /\ ~(desired > 0 /\ s.gen = desired)
      BY <1>5, <2>1 DEF Clean
    <3> QED
      BY <1>3, <3>1
  <2> QED
    BY <1>7, <1>8, <1>9, <2>2, <2>3 DEF SyncInv
<1> QED
  BY <1>1, <1>10, <1>11

\* A goroutine that waits, or has waited, for its answer goes on to remember the same.
LEMMA AskedTypes ==
  ASSUME NEW s \in PushStates, s.at \in Asked, NEW at \in Asked
  PROVE  /\ [s EXCEPT !.at = at] \in PushStates
         /\ [s EXCEPT !.at = at].at = at
         /\ [s EXCEPT !.at = at].full <=> s.full
         /\ s.full => [s EXCEPT !.at = at].gen = s.gen
<1> DEFINE new == [s EXCEPT !.at = at]
<1>1. CASE s \in [at : Asked, on : Hubs, full : {FALSE}]
  <2>1. new \in [at : Asked, on : Hubs, full : {FALSE}] /\ new.at = at
    BY <1>1
  <2>2. ~new.full /\ ~s.full
    BY <1>1, <2>1
  <2> QED
    BY <2>1, <2>2 DEF PushStates
<1>2. CASE s \in [at : Asked, on : Hubs, full : {TRUE}, gen : Nat]
  <2>1. /\ new \in [at : Asked, on : Hubs, full : {TRUE}, gen : Nat]
        /\ new.at = at /\ new.gen = s.gen
    BY <1>2
  <2>2. new.full /\ s.full
    BY <1>2, <2>1
  <2> QED
    BY <2>1, <2>2 DEF PushStates
<1> QED
  BY <1>1, <1>2, Shapes

LEMMA RequestTypes ==
  ASSUME NEW F, NEW S, NEW r \in [from : F, sets : S], NEW v \in F
  PROVE  /\ [r EXCEPT !.from = v] \in [from : F, sets : S]
         /\ [r EXCEPT !.from = v].from = v /\ [r EXCEPT !.from = v].sets = r.sets
  OBVIOUS

LEMMA GiveUpKeeps ==
  ASSUME SyncInv, NEW p \in Pushers, GiveUp(p)
  PROVE  SyncInv'
<1> DEFINE new == [push[p] EXCEPT !.at = "refused"]
<1>1. /\ push[p] \in PushStates /\ push[p].at = "waiting" /\ push[p].at \in Asked
      /\ "refused" \in Asked
  BY DEF GiveUp, SyncInv, TypesOK, Asked
<1>2. /\ new \in PushStates /\ new.at = "refused"
      /\ new.full <=> push[p].full
      /\ push[p].full => new.gen = push[p].gen
  BY <1>1, AskedTypes
<1> HIDE DEF new
<1>3. /\ push' \in [Pushers -> PushStates] /\ push'[p] = new
      /\ \A q \in Pushers \ {p} : push'[q] = push[q]
      /\ UNCHANGED <<storedProbes, desired, acked, syncError, link, supports, runs,
                     syncLock, unrecorded>>
  BY <1>2 DEF GiveUp, Moves, SyncInv, TypesOK, new
<1>4. /\ inbox' \in Seq(Requests) /\ DOMAIN inbox' = DOMAIN inbox /\ Len(inbox') = Len(inbox)
      /\ \A i \in DOMAIN inbox :
           /\ inbox'[i].sets = inbox[i].sets
           /\ inbox'[i].from = IF inbox[i].from = p THEN Nobody ELSE inbox[i].from
  <2>1. inbox \in Seq(Requests)
    BY DEF SyncInv, TypesOK
  <2>2. inbox' = [i \in DOMAIN inbox |->
           IF inbox[i].from = p THEN [inbox[i] EXCEPT !.from = Nobody] ELSE inbox[i]]
    BY DEF GiveUp
  <2>3. \A i \in DOMAIN inbox : /\ inbox[i] \in Requests
                                /\ [inbox[i] EXCEPT !.from = Nobody] \in Requests
                                /\ [inbox[i] EXCEPT !.from = Nobody].from = Nobody
                                /\ [inbox[i] EXCEPT !.from = Nobody].sets = inbox[i].sets
    <3> DEFINE F == Pushers \cup {Nobody}
               S == UNION {[D -> Settings \cup {Off}] : D \in SUBSET Probes}
    <3>1. Nobody \in F /\ Requests = [from : F, sets : S]
      BY DEF Requests
    <3> HIDE DEF F, S
    <3>2. \A i \in DOMAIN inbox : inbox[i] \in Requests
      BY <2>1
    <3> QED
      BY <3>1, <3>2, RequestTypes
  <2>4. inbox' \in [1 .. Len(inbox) -> Requests] /\ Len(inbox) \in Nat
    BY <2>1, <2>2, <2>3
  <2>5. inbox' \in Seq(Requests) /\ Len(inbox') = Len(inbox)
    BY <2>4
  <2> QED
    BY <2>2, <2>3, <2>5
<1>5. TypesOK'
  BY <1>3, <1>4 DEF SyncInv, TypesOK
<1>6. Locks(push[p]) /\ push'[p].at \in Asked /\ (HasRead(push'[p]) => HasRead(push[p]))
  BY <1>1, <1>2, <1>3 DEF Locks, HasRead
<1>7. LockHeld' /\ GenRead'
  BY <1>1, <1>2, <1>3, <1>6 DEF SyncInv, LockHeld, GenRead, HasRead, Locks
<1>8. CapsKnown' /\ Answered'
  <2>1. ForcedSync => ForcedSync'
    BY <1>1, <1>3 DEF ForcedSync
  <2>2. inbox = <<>> => inbox' = <<>>
    BY <1>4 DEF SyncInv, TypesOK
  <2> QED
    BY <1>2, <1>3, <2>1, <2>2 DEF SyncInv, CapsKnown, Answered
<1>9. InFlight'
  BY <1>3, <1>4, NobodyAssumption DEF SyncInv, InFlight
<1>10. NoRow'
  BY <1>1, <1>2, <1>3, <1>4 DEF SyncInv, NoRow, Asked
<1>11. Main'
  BY <1>6 DEF Main, WillSync
<1> QED
  BY <1>5, <1>7, <1>8, <1>9, <1>10, <1>11 DEF SyncInv

(***************************************************************************)
(* The agent's steps.                                                      *)
(***************************************************************************)
LEMMA AgentHandlesKeeps ==
  ASSUME SyncInv, AgentHandles
  PROVE  SyncInv'
<1> DEFINE r == Head(inbox)
<1>1. PICK done \in BOOLEAN :
        /\ runs' = IF ~done THEN runs
                   ELSE [m \in Probes |-> IF m \in DOMAIN r.sets THEN r.sets[m] ELSE runs[m]]
        /\ push' = [p \in Pushers |->
                     IF p = r.from
                     THEN [push[p] EXCEPT !.at = IF done THEN "answered" ELSE "refused"]
                     ELSE push[p]]
  BY DEF AgentHandles
<1>2. /\ r \in Requests /\ r = inbox[1] /\ 1 \in DOMAIN inbox
      /\ inbox' \in Seq(Requests) /\ Len(inbox') = Len(inbox) - 1 /\ Len(inbox) \in Nat
      /\ \A i \in DOMAIN inbox' : i + 1 \in DOMAIN inbox /\ inbox'[i] = inbox[i + 1]
      /\ \A i \in DOMAIN inbox' : i \in Nat
  <2>1. inbox \in Seq(Requests) /\ inbox # <<>> /\ inbox' = Tail(inbox)
    BY DEF AgentHandles, SyncInv, TypesOK
  <2> QED
    BY <2>1
<1>3. UNCHANGED <<storedProbes, desired, acked, syncError, link, supports, syncLock, unrecorded>>
  BY DEF AgentHandles
<1> DEFINE at == IF done THEN "answered" ELSE "refused"
<1> HIDE DEF r
<1>4. \A p \in Pushers : p # r.from => push'[p] = push[p]
  BY <1>1
<1>5. ASSUME NEW p \in Pushers, p = r.from
      PROVE  /\ push[p].at = "waiting" /\ Len(inbox) = 1
             /\ push[p].full /\ push[p].gen = desired => r.sets = storedProbes
             /\ push'[p] \in PushStates /\ push'[p].at = at
             /\ push'[p].full <=> push[p].full
             /\ push[p].full => push'[p].gen = push[p].gen
  <2>1. /\ push[p].at = "waiting" /\ Len(inbox) = 1
        /\ push[p].full /\ push[p].gen = desired => r.sets = storedProbes
    BY <1>2, <1>5 DEF SyncInv, InFlight
  <2>2. push[p] \in PushStates /\ push[p].at \in Asked /\ at \in Asked
    BY <2>1 DEF SyncInv, TypesOK, Asked
  <2>3. push'[p] = [push[p] EXCEPT !.at = at]
    BY <1>1, <1>5
  <2> QED
    BY <2>1, <2>2, <2>3, AskedTypes
<1>6. TypesOK'
  <2>1. push' = [p \in Pushers |-> push'[p]]
    BY <1>1
  <2>2. \A p \in Pushers : push'[p] \in PushStates
    BY <1>4, <1>5 DEF SyncInv, TypesOK
  <2>3. push' \in [Pushers -> PushStates]
    BY <2>1, <2>2
  <2> QED
    BY <1>2, <1>3, <2>3 DEF SyncInv, TypesOK
<1>7. \A p \in Pushers : /\ Locks(push'[p]) => Locks(push[p])
                         /\ HasRead(push'[p]) => HasRead(push[p]) /\ push'[p].gen = push[p].gen
                         /\ WillSync(push[p]) => WillSync(push'[p])
  <2> SUFFICES ASSUME NEW p \in Pushers
               PROVE  /\ Locks(push'[p]) => Locks(push[p])
                      /\ HasRead(push'[p]) => HasRead(push[p]) /\ push'[p].gen = push[p].gen
                      /\ WillSync(push[p]) => WillSync(push'[p])
    OBVIOUS
  <2>1. CASE p = r.from
    BY <1>5, <2>1 DEF Locks, HasRead, WillSync, Asked
  <2>2. CASE p # r.from
    BY <1>4, <2>2
  <2> QED
    BY <2>1, <2>2
<1>8. LockHeld' /\ GenRead'
  BY <1>3, <1>7 DEF SyncInv, LockHeld, GenRead
<1>9. ForcedSync => ForcedSync'
  <2> SUFFICES ASSUME NEW p \in Pushers, push[p].at = "sync", push[p].force
               PROVE  push'[p] = push[p]
    BY DEF ForcedSync
  <2> QED
    BY <1>4, <1>5
<1>10. CapsKnown'
  <2> SUFFICES ASSUME NEW p \in Pushers, push'[p].at = "read"
               PROVE  push'[p].caps = supports \/ ForcedSync'
    BY <1>3 DEF CapsKnown
  <2>1. push'[p] = push[p]
    BY <1>4, <1>5
  <2> QED
    BY <1>9, <2>1 DEF SyncInv, CapsKnown
<1>11. InFlight'
  <2> SUFFICES ASSUME NEW i \in DOMAIN inbox', NEW p \in Pushers, inbox'[i].from = p
               PROVE  /\ i = Len(inbox') /\ push'[p].at = "waiting"
                      /\ push'[p].full /\ push'[p].gen = desired => inbox'[i].sets = storedProbes
    BY <1>3 DEF InFlight
  <2>1. /\ i + 1 = Len(inbox) /\ push[p].at = "waiting"
        /\ push[p].full /\ push[p].gen = desired => inbox'[i].sets = storedProbes
    BY <1>2 DEF SyncInv, InFlight
  <2>2. i = Len(inbox') /\ Len(inbox) # 1
    BY <1>2, <2>1
  <2>3. push'[p] = push[p]
    BY <1>4, <1>5, <2>2
  <2> QED
    BY <2>1, <2>2, <2>3
<1>12. Answered'
  <2> SUFFICES ASSUME NEW p \in Pushers, push'[p].at = "answered", push'[p].full,
                      push'[p].gen = desired
               PROVE  link = Nobody \/ ForcedSync' \/ (runs' = storedProbes /\ inbox' = <<>>)
    BY <1>3 DEF Answered
  <2>1. CASE p = r.from
    <3>1. done /\ r.sets = storedProbes /\ Len(inbox') = 0
      BY <1>2, <1>5, <2>1
    <3>2. runs' = storedProbes
      BY <1>1, <3>1 DEF SyncInv, TypesOK, ProbeSets
    <3>3. inbox' = <<>>
      BY <1>2, <3>1
    <3> QED
      BY <3>2, <3>3
  <2>2. CASE p # r.from
    <3>1. inbox # <<>> /\ push'[p] = push[p]
      BY <1>4, <2>2 DEF AgentHandles
    <3> QED
      BY <1>9, <3>1 DEF SyncInv, Answered
  <2> QED
    BY <2>1, <2>2
<1>13. NoRow'
  <2> SUFFICES ASSUME desired = 0
               PROVE  /\ runs' = NoProbes
                      /\ \A i \in DOMAIN inbox' : inbox'[i].sets = NoProbes
                      /\ \A p \in Pushers : /\ push'[p].at \notin {"committed", "apply"}
                                            /\ push'[p].at \in Asked => push'[p].full
    BY <1>3 DEF SyncInv, NoRow
  <2>1. r.sets = NoProbes /\ runs = NoProbes
    BY <1>2 DEF SyncInv, NoRow
  <2>2. runs' = NoProbes
    BY <1>1, <2>1 DEF NoProbes
  <2>3. \A i \in DOMAIN inbox' : inbox'[i].sets = NoProbes
    BY <1>2 DEF SyncInv, NoRow
  <2>4. ASSUME NEW p \in Pushers
        PROVE  push'[p].at \notin {"committed", "apply"} /\ (push'[p].at \in Asked => push'[p].full)
    <3>1. CASE p = r.from
      BY <1>5, <3>1 DEF SyncInv, NoRow, Asked
    <3>2. CASE p # r.from
      BY <1>4, <3>2 DEF SyncInv, NoRow
    <3> QED
      BY <3>1, <3>2
  <2> QED
    BY <2>2, <2>3, <2>4
<1>14. Main'
  <2> SUFFICES ASSUME Clean', desired # 0
               PROVE  \E p \in Pushers : WillSync(push'[p])
    BY <1>3 DEF Main
  <2>1. Clean /\ inbox # <<>>
    BY <1>3 DEF Clean, Supported, AgentHandles
  <2> QED
    BY <1>7, <2>1 DEF SyncInv, Main
<1> QED
  BY <1>6, <1>8, <1>10, <1>11, <1>12, <1>13, <1>14 DEF SyncInv

(***************************************************************************)
(* The connection and the changes.                                         *)
(***************************************************************************)
LEMMA ConnectKeeps ==
  ASSUME SyncInv, NEW p \in Pushers, NEW hub \in Hubs, Connect(p, hub)
  PROVE  SyncInv'
<1> DEFINE new == SyncStart(hub, TRUE)
<1>1. new \in [at : {"sync"}, on : Hubs, force : BOOLEAN]
  BY DEF SyncStart
<1>2. new \in PushStates /\ new.at = "sync" /\ new.force
  BY <1>1 DEF PushStates, SyncStart
<1> HIDE DEF new
<1>3. /\ push' \in [Pushers -> PushStates] /\ push'[p] = new
      /\ \A q \in Pushers \ {p} : push'[q] = push[q]
      /\ UNCHANGED <<storedProbes, desired, acked, syncError, syncLock, unrecorded>>
      /\ link' = hub /\ inbox' = <<>> /\ supports' \subseteq Settings
      /\ runs' \in {runs, NoProbes}
  BY <1>2 DEF Connect, Moves, SyncInv, TypesOK, new
<1>4. push[p].at = "idle"
  BY DEF Connect, Free, NoPush
<1>5. <<>> \in Seq(Requests) /\ DOMAIN <<>> = {}
  OBVIOUS
<1>6. TypesOK'
  BY <1>3, <1>5 DEF SyncInv, TypesOK
<1>7. ForcedSync' /\ Main'
  BY <1>2, <1>3 DEF ForcedSync, Main, WillSync
<1>8. LockHeld' /\ GenRead'
  BY <1>2, <1>3 DEF SyncInv, LockHeld, GenRead, Locks, HasRead, Asked
<1>9. CapsKnown' /\ Answered'
  BY <1>7 DEF CapsKnown, Answered
<1>10. InFlight'
  BY <1>3, <1>5 DEF InFlight
<1>11. NoRow'
  BY <1>2, <1>3, <1>5 DEF SyncInv, NoRow, Asked
<1> QED
  BY <1>6, <1>7, <1>8, <1>9, <1>10, <1>11 DEF SyncInv

LEMMA DisconnectKeeps ==
  ASSUME SyncInv, Disconnect
  PROVE  SyncInv'
<1>1. /\ UNCHANGED <<storedProbes, desired, acked, syncError, supports, runs, push, syncLock,
                     unrecorded>>
      /\ link' = Nobody /\ inbox' = <<>>
  BY DEF Disconnect
<1>2. <<>> \in Seq(Requests) /\ DOMAIN <<>> = {}
  OBVIOUS
<1>3. TypesOK'
  BY <1>1, <1>2 DEF SyncInv, TypesOK
<1>4. LockHeld' /\ GenRead' /\ CapsKnown'
  BY <1>1 DEF SyncInv, LockHeld, GenRead, CapsKnown, ForcedSync
<1>5. InFlight' /\ Answered' /\ Main'
  BY <1>1, <1>2 DEF InFlight, Answered, Main, Clean
<1>6. NoRow'
  BY <1>1, <1>2 DEF SyncInv, NoRow
<1> QED
  BY <1>3, <1>4, <1>5, <1>6 DEF SyncInv

LEMMA CommitKeeps ==
  ASSUME SyncInv, NEW p \in Pushers, NEW m \in Probes, NEW c \in Settings \cup {Off},
         NEW replaced \in Probes \cup {Nobody}, NEW op \in {[id |-> m, setting |-> c], Group},
         Commit(p, m, c, replaced, op)
  PROVE  SyncInv'
<1> DEFINE new == [at |-> "committed", op |-> op]
<1>1. new \in [at : {"committed"}, op : [id : Probes, setting : Settings \cup {Off}] \cup {Group}]
  OBVIOUS
<1>2. new \in PushStates /\ new.at = "committed"
  BY <1>1 DEF PushStates
<1> HIDE DEF new
<1>3. /\ push' \in [Pushers -> PushStates] /\ push'[p] = new
      /\ \A q \in Pushers \ {p} : push'[q] = push[q]
      /\ UNCHANGED <<acked, link, supports, inbox, runs, syncLock, unrecorded>>
      /\ storedProbes' \in ProbeSets /\ desired' = desired + 1
  BY <1>2 DEF Commit, Moves, SyncInv, TypesOK, new, ProbeSets
<1>4. push[p].at = "idle"
  BY DEF Commit, Free, NoPush
<1>5. desired \in Nat /\ acked \in Nat /\ acked <= desired
  BY DEF SyncInv, TypesOK
<1>6. TypesOK'
  BY <1>3, <1>5 DEF SyncInv, TypesOK
<1>7. Main' /\ NoRow'
  BY <1>3, <1>5 DEF Main, Clean, NoRow
<1>8. LockHeld'
  BY <1>2, <1>3 DEF SyncInv, LockHeld, Locks, Asked
<1>9. ASSUME NEW q \in Pushers, HasRead(push'[q])
      PROVE  q # p /\ push'[q] = push[q] /\ push[q].gen \in Nat
             /\ acked <= push[q].gen /\ push[q].gen <= desired
  <2>1. q # p /\ push'[q] = push[q]
    BY <1>2, <1>3, <1>9 DEF HasRead, Asked
  <2>2. push[q] \in PushStates /\ HasRead(push[q])
    BY <1>9, <2>1 DEF SyncInv, TypesOK
  <2>3. push[q].gen \in Nat
    <3>1. CASE push[q].at = "read"
      BY <2>2, <3>1, Shapes
    <3>2. CASE push[q].at \in Asked /\ push[q].full
      <4>1. push[q] \notin [at : Asked, on : Hubs, full : {FALSE}]
        BY <3>2
      <4> QED
        BY <2>2, <3>2, <4>1, Shapes
    <3> QED
      BY <2>2, <3>1, <3>2 DEF HasRead
  <2> QED
    BY <2>1, <2>2, <2>3 DEF SyncInv, GenRead
<1>10. GenRead'
  BY <1>3, <1>5, <1>9 DEF GenRead
<1>11. ForcedSync => ForcedSync'
  BY <1>3, <1>4 DEF ForcedSync
<1>12. CapsKnown'
  BY <1>2, <1>3, <1>11 DEF SyncInv, CapsKnown
<1>13. \A q \in Pushers : push'[q].at \in Asked /\ push'[q].full => push'[q].gen # desired'
  BY <1>3, <1>5, <1>9 DEF HasRead
<1>14. Answered'
  BY <1>13 DEF Answered, Asked
<1>15. InFlight'
  BY <1>3, <1>4, <1>13 DEF SyncInv, InFlight, Asked
<1> QED
  BY <1>6, <1>7, <1>8, <1>10, <1>12, <1>14, <1>15 DEF SyncInv

LEMMA SyncInvNext == SyncInv /\ [SyncNext]_syncVars => SyncInv'
<1> SUFFICES ASSUME SyncInv, [SyncNext]_syncVars PROVE SyncInv'
  OBVIOUS
<1>1. ASSUME NEW p \in Pushers, Commits(p) PROVE SyncInv'
  BY <1>1, CommitKeeps DEF Commits
<1>2. ASSUME NEW p \in Pushers, Pushes(p) PROVE SyncInv'
  BY <1>2, ChangedKeeps, ApplyIncrementalKeeps, GiveUpKeeps, IncrementedKeeps,
     ReadGenerationKeeps, LookupFailsKeeps, ReadConfigsKeeps, SyncedKeeps, AckFailsKeeps DEF Pushes
<1>3. ASSUME NEW p \in Pushers, Report(p) PROVE SyncInv'
  BY <1>3, ReportKeeps
<1>4. ASSUME NEW p \in Pushers, NEW hub \in Hubs, Connect(p, hub) PROVE SyncInv'
  BY <1>4, ConnectKeeps
<1>5. CASE AgentHandles
  BY <1>5, AgentHandlesKeeps
<1>6. CASE Disconnect
  BY <1>6, DisconnectKeeps
<1>7. CASE UNCHANGED syncVars
  <2> USE <1>7 DEF syncVars
  <2>1. TypesOK' /\ LockHeld' /\ GenRead'
    BY DEF SyncInv, TypesOK, LockHeld, GenRead
  <2>2. CapsKnown' /\ InFlight' /\ Answered' /\ NoRow' /\ Main'
    BY DEF SyncInv, CapsKnown, InFlight, Answered, NoRow, Main, Clean, Supported, ForcedSync
  <2> QED
    BY <2>1, <2>2 DEF SyncInv
<1> QED
  BY <1>1, <1>2, <1>3, <1>4, <1>5, <1>6, <1>7 DEF SyncNext

(***************************************************************************)
(* Only the goroutine that holds the agent's stripe of syncLocks is        *)
(* between its reading of the generation and the acknowledgement, and that *)
(* generation is between the acknowledged and the desired one (Sync,       *)
(* NetworkConfigs, NetworkAck).                                            *)
(***************************************************************************)
THEOREM SyncsExclude == SyncSpec => [](LockHeld /\ GenRead)
<1>1. SyncInv => LockHeld /\ GenRead
  BY DEF SyncInv
<1> QED
  BY <1>1, SyncInvInit, SyncInvNext, PTL DEF SyncSpec

(***************************************************************************)
(* When all has been pushed and the desired generation is acknowledged     *)
(* without an error, a connected agent that can apply what is stored runs  *)
(* just that.                                                              *)
(***************************************************************************)
THEOREM AppliedWhenSynced == SyncSpec => []SyncedMeansApplied
<1>1. SyncInv => SyncedMeansApplied
  <2> SUFFICES ASSUME SyncInv, AtRest, Clean PROVE runs = storedProbes
    BY DEF SyncedMeansApplied, Clean
  <2>1. \A p \in Pushers : ~WillSync(push[p])
    BY DEF AtRest, WillSync, Asked
  <2> QED
    BY <2>1 DEF SyncInv, Main, NoRow
<1> QED
  BY <1>1, SyncInvInit, SyncInvNext, PTL DEF SyncSpec

-----------------------------------------------------------------------------
(***************************************************************************)
(* Slots and answers are never mixed up, for any number of visitors and    *)
(* versions and any limits.                                                *)
(*                                                                         *)
(* A slot is counted where its holder stands: each step moves one visitor  *)
(* from one place to another and changes the number of its wait slots, and *)
(* takes or returns exactly the slots by which the two places differ.      *)
(* The content a request holds is as new as the key it builds under, and   *)
(* the second read of the version finds the two the same only when no      *)
(* change came between.                                                    *)
(***************************************************************************)

Places == {"look", "begin", "queue", "wait", "build", "awaitPublic", "awaitQuery",
           "query", "check", "built", "finish", "served", "leave"}
LeadPlaces == {"build", "awaitPublic", "awaitQuery", "query", "check", "built", "finish"}

Visits == [at : Places, start : Versions, key : Versions, waits : Nat,
           over : BOOLEAN, content : Versions \cup {NoAnswer}]

BuildsTyped ==
  /\ version \in Versions
  /\ purging \in BOOLEAN
  /\ answer \in [Versions -> Versions \cup {NoAnswer}]
  /\ builder \in [Versions -> Visitors \cup {NoVisitor}]
  /\ slots \in [Semaphores -> Int]
  /\ visitor \in [Visitors -> {Away} \cup Visits]
  /\ panelQueries \in Nat

Waits(r) == IF visitor[r] = Away THEN 0 ELSE visitor[r].waits

\* A builder that waits for its query holds a slot for it.
QueriesHold ==
  \A r \in Visitors : visitor[r].at \in {"awaitPublic", "awaitQuery"} => visitor[r].waits >= 1

SlotsCounted ==
  /\ slots["build"] = Cardinality(At(LeadPlaces))
  /\ slots["public"] = Cardinality(At({"awaitQuery", "query"}))
  /\ slots["query"] = Cardinality(At({"query"})) + panelQueries
  /\ IsFiniteSet(WaitSlots) /\ slots["wait"] = Cardinality(WaitSlots)

WithinLimits == \A s \in Semaphores : slots[s] <= Limits[s]

BuildersListed ==
  /\ \A r \in Visitors : visitor[r].at \in LeadPlaces => builder[visitor[r].key] = r
  /\ \A r \in Visitors : visitor[r].at \in {"queue", "wait"} =>
       visitor[r].over \/ builder[visitor[r].key] # NoVisitor

\* No request is ahead of the version, and what it holds is of its key's age or newer.
NewEnough ==
  /\ \A v \in Versions : answer[v] \in {NoAnswer, v}
  /\ \A r \in Visitors : visitor[r] # Away =>
       /\ visitor[r].start <= visitor[r].key /\ visitor[r].key <= version
       /\ visitor[r].at = "check" =>
            visitor[r].key <= visitor[r].content /\ visitor[r].content <= version
       /\ visitor[r].at = "served" => visitor[r].content = visitor[r].key
       /\ visitor[r].at = "built" => visitor[r].content = visitor[r].key

BuildsInv ==
  /\ BuildsTyped /\ QueriesHold /\ SlotsCounted /\ WithinLimits
  /\ BuildersListed /\ NewEnough

-----------------------------------------------------------------------------
(* Counting *)

\* The wait slots of one holder.
LEMMA OwnSlots ==
  ASSUME NEW r, NEW k \in Nat
  PROVE  IsFiniteSet({r} \X (1..k)) /\ Cardinality({r} \X (1..k)) = k
<1> DEFINE one  == {r}
           some == 1..k
<1>1. IsFiniteSet(one) /\ Cardinality(one) = 1
  BY FS_Singleton
<1>2. IsFiniteSet(some) /\ Cardinality(some) = k
  BY FS_Interval
<1> HIDE DEF one, some
<1>3. IsFiniteSet(one \X some) /\ Cardinality(one \X some) = Cardinality(one) * Cardinality(some)
  BY <1>1, <1>2, FS_Product
<1>4. Cardinality(one \X some) = k
  BY <1>1, <1>2, <1>3
<1> QED
  BY <1>3, <1>4 DEF one, some

In(a, places) == IF a \in places THEN 1 ELSE 0

\* A step that moves one visitor changes the counts by where it left and where it came.
LEMMA PlacesFollow ==
  ASSUME BuildsTyped, BuildsTyped', NEW r \in Visitors, NEW places \in SUBSET Places,
         \A q \in Visitors \ {r} : visitor'[q].at = visitor[q].at
  PROVE  /\ Cardinality(At(places)) \in Nat /\ Cardinality(At(places))' \in Nat
         /\ Cardinality(At(places))' =
              Cardinality(At(places)) - In(visitor[r].at, places) + In(visitor[r].at, places)'
<1>a. \A x : x.at \in places => x # Away
  <2>1. Away.at = "away"
    BY DEF Away
  <2>2. "away" \notin places
    BY DEF Places
  <2> QED
    BY <2>1, <2>2
<1>1. At(places) = {q \in Visitors : visitor[q].at \in places}
  BY <1>a DEF At, Present
<1>2. At(places)' = {q \in Visitors : visitor'[q].at \in places}
  BY <1>a DEF At, Present
<1> DEFINE Before == {q \in Visitors : visitor[q].at \in places}
           After  == {q \in Visitors : visitor'[q].at \in places}
<1>3. IsFiniteSet(Before) /\ IsFiniteSet(After)
  BY VisitorsAssumption, FS_Subset
<1>4. Cardinality(Before) \in Nat /\ Cardinality(After) \in Nat
  BY <1>3, FS_CardinalityType
<1>5. r \in Before <=> visitor[r].at \in places
  OBVIOUS
<1>6. r \in After <=> visitor'[r].at \in places
  OBVIOUS
<1>7. Before \ {r} = After \ {r}
  OBVIOUS
<1> HIDE DEF Before, After
<1>8. Cardinality(Before \ {r}) = IF r \in Before THEN Cardinality(Before) - 1
                                   ELSE Cardinality(Before)
  BY <1>3, FS_RemoveElement
<1>9. Cardinality(After \ {r}) = IF r \in After THEN Cardinality(After) - 1
                                 ELSE Cardinality(After)
  BY <1>3, FS_RemoveElement
<1>10. Cardinality(After) = Cardinality(Before)
         - (IF visitor[r].at \in places THEN 1 ELSE 0)
         + (IF visitor'[r].at \in places THEN 1 ELSE 0)
  <2>1. Cardinality(Before) - (IF r \in Before THEN 1 ELSE 0)
          = Cardinality(After) - (IF r \in After THEN 1 ELSE 0)
    BY <1>4, <1>7, <1>8, <1>9
  <2>2. Cardinality(After) = Cardinality(Before)
          - (IF r \in Before THEN 1 ELSE 0) + (IF r \in After THEN 1 ELSE 0)
    BY <1>4, <2>1
  <2> QED
    BY <1>5, <1>6, <2>2
<1> QED
  BY <1>1, <1>2, <1>4, <1>10 DEF In, Before, After

LEMMA WaitsFollow ==
  ASSUME BuildsTyped, BuildsTyped', IsFiniteSet(WaitSlots), NEW r \in Visitors,
         \A q \in Visitors \ {r} : Waits(q)' = Waits(q)
  PROVE  /\ IsFiniteSet(WaitSlots)'
         /\ Cardinality(WaitSlots) \in Nat /\ Cardinality(WaitSlots)' \in Nat
         /\ Cardinality(WaitSlots)' = Cardinality(WaitSlots) - Waits(r) + Waits(r)'
<1> DEFINE Rest == UNION {{q} \X (1..Waits(q)) : q \in Visitors \ {r}}
<1>1. Waits(r) \in Nat /\ Waits(r)' \in Nat
  BY DEF BuildsTyped, Waits, Visits
<1>2. WaitSlots = Rest \cup ({r} \X (1..Waits(r)))
  <2>1. \A q \in Visitors : visitor[q] = Away => {q} \X (1..Waits(q)) = {}
    BY DEF Waits
  <2>2. \A q \in Present : Waits(q) = visitor[q].waits
    BY DEF Waits, Present
  <2> QED
    BY <2>1, <2>2 DEF WaitSlots, Present
<1>3. WaitSlots' = Rest \cup ({r} \X (1..Waits(r)'))
  <2>1. \A q \in Visitors : visitor'[q] = Away => {q} \X (1..Waits(q)') = {}
    BY DEF Waits
  <2>2. \A q \in Present' : Waits(q)' = visitor'[q].waits
    BY DEF Waits, Present
  <2> QED
    BY <2>1, <2>2 DEF WaitSlots, Present
<1>4. Rest \cap ({r} \X Nat) = {}
  OBVIOUS
<1> HIDE DEF Rest
<1>5. PICK n \in Nat : n = Waits(r)
  BY <1>1
<1>6. PICK m \in Nat : m = Waits(r)'
  BY <1>1
<1>7. PICK rest : rest = Rest
  OBVIOUS
<1>a. PICK before : before = {r} \X (1..n)
  OBVIOUS
<1>b. PICK after : after = {r} \X (1..m)
  OBVIOUS
<1>8. WaitSlots = rest \cup before /\ WaitSlots' = rest \cup after
  BY <1>2, <1>3, <1>5, <1>6, <1>7, <1>a, <1>b
<1>9. /\ IsFiniteSet(before) /\ Cardinality(before) = n
      /\ IsFiniteSet(after) /\ Cardinality(after) = m
  BY OwnSlots, <1>a, <1>b
<1>10. rest \cap before = {} /\ rest \cap after = {}
  <2>1. before \subseteq {r} \X Nat /\ after \subseteq {r} \X Nat
    BY <1>a, <1>b
  <2> QED
    BY <2>1, <1>4, <1>7
<1>11. IsFiniteSet(rest) /\ Cardinality(rest) \in Nat
  <2>1. rest \in SUBSET WaitSlots
    BY <1>8
  <2> QED
    BY <2>1, FS_Subset, FS_CardinalityType
<1>12. Cardinality(rest \cap before) = 0 /\ Cardinality(rest \cap after) = 0
  BY <1>10, FS_EmptySet
<1>13. Cardinality(rest \cup before) =
         Cardinality(rest) + Cardinality(before) - Cardinality(rest \cap before)
  BY <1>9, <1>11, FS_Union
<1>14. /\ IsFiniteSet(rest \cup after)
       /\ Cardinality(rest \cup after) =
            Cardinality(rest) + Cardinality(after) - Cardinality(rest \cap after)
  BY <1>9, <1>11, FS_Union
<1>15. Cardinality(WaitSlots) = Cardinality(rest) + n
  BY <1>8, <1>9, <1>11, <1>12, <1>13
<1>16. IsFiniteSet(WaitSlots)' /\ Cardinality(WaitSlots)' = Cardinality(rest) + m
  BY <1>8, <1>9, <1>11, <1>12, <1>14
<1> QED
  BY <1>5, <1>6, <1>11, <1>15, <1>16

LEMMA CountsFollow ==
  ASSUME BuildsTyped, BuildsTyped', SlotsCounted, NEW r \in Visitors,
         \A q \in Visitors \ {r} : visitor'[q].at = visitor[q].at /\ Waits(q)' = Waits(q)
  PROVE  /\ slots["build"] \in Nat /\ slots["wait"] \in Nat
         /\ slots["public"] \in Nat /\ slots["query"] - panelQueries \in Nat
         /\ Cardinality(At(LeadPlaces))' \in Nat /\ Cardinality(WaitSlots)' \in Nat
         /\ Cardinality(At({"awaitQuery", "query"}))' \in Nat
         /\ Cardinality(At({"query"}))' \in Nat
         /\ Cardinality(At(LeadPlaces))' =
              slots["build"] - In(visitor[r].at, LeadPlaces) + In(visitor[r].at, LeadPlaces)'
         /\ Cardinality(At({"awaitQuery", "query"}))' =
              slots["public"] - In(visitor[r].at, {"awaitQuery", "query"})
                                    + In(visitor[r].at, {"awaitQuery", "query"})'
         /\ Cardinality(At({"query"}))' =
              (slots["query"] - panelQueries) - In(visitor[r].at, {"query"})
                                              + In(visitor[r].at, {"query"})'
         /\ IsFiniteSet(WaitSlots)'
         /\ Cardinality(WaitSlots)' = slots["wait"] - Waits(r) + Waits(r)'
<1>1. /\ LeadPlaces \in SUBSET Places
      /\ {"awaitQuery", "query"} \in SUBSET Places
      /\ {"query"} \in SUBSET Places
  BY DEF LeadPlaces, Places
<1>2. /\ Cardinality(At(LeadPlaces)) \in Nat /\ Cardinality(At(LeadPlaces))' \in Nat
      /\ Cardinality(At(LeadPlaces))' = Cardinality(At(LeadPlaces))
            - In(visitor[r].at, LeadPlaces) + In(visitor[r].at, LeadPlaces)'
  <2>1. PICK places \in SUBSET Places : places = LeadPlaces
    BY <1>1
  <2>2. /\ Cardinality(At(places)) \in Nat /\ Cardinality(At(places))' \in Nat
        /\ Cardinality(At(places))' = Cardinality(At(places))
              - In(visitor[r].at, places) + In(visitor[r].at, places)'
    BY PlacesFollow
  <2> QED
    BY <2>1, <2>2 DEF LeadPlaces
<1>3. /\ Cardinality(At({"awaitQuery", "query"})) \in Nat
      /\ Cardinality(At({"awaitQuery", "query"}))' \in Nat
      /\ Cardinality(At({"awaitQuery", "query"}))' = Cardinality(At({"awaitQuery", "query"}))
            - In(visitor[r].at, {"awaitQuery", "query"})
            + In(visitor[r].at, {"awaitQuery", "query"})'
  BY <1>1, PlacesFollow
<1>4. /\ Cardinality(At({"query"})) \in Nat /\ Cardinality(At({"query"}))' \in Nat
      /\ Cardinality(At({"query"}))' = Cardinality(At({"query"}))
            - In(visitor[r].at, {"query"}) + In(visitor[r].at, {"query"})'
  BY <1>1, PlacesFollow
<1>5. /\ IsFiniteSet(WaitSlots)'
      /\ Cardinality(WaitSlots) \in Nat /\ Cardinality(WaitSlots)' \in Nat
      /\ Cardinality(WaitSlots)' = Cardinality(WaitSlots) - Waits(r) + Waits(r)'
  BY WaitsFollow DEF SlotsCounted
<1>6. slots["query"] - panelQueries = Cardinality(At({"query"}))
  <2>1. slots["query"] = Cardinality(At({"query"})) + panelQueries
    BY DEF SlotsCounted
  <2>2. panelQueries \in Nat
    BY DEF BuildsTyped
  <2> QED
    BY <1>4, <2>1, <2>2
<1> QED
  BY <1>2, <1>3, <1>4, <1>5, <1>6 DEF SlotsCounted

-----------------------------------------------------------------------------
(* Types *)

LEMMA BuildsTypedInit == BuildsInit => BuildsTyped
<1> SUFFICES ASSUME BuildsInit PROVE BuildsTyped
  OBVIOUS
<1> USE LimitsAssumption DEF BuildsInit
<1>1. 0 \in Versions
  BY DEF Versions
<1>2. purging \in BOOLEAN
  OBVIOUS
<1>3. slots \in [Semaphores -> Int]
  OBVIOUS
<1>4. visitor \in [Visitors -> {Away} \cup Visits]
  OBVIOUS
<1>5. answer \in [Versions -> Versions \cup {NoAnswer}]
  OBVIOUS
<1>6. builder \in [Versions -> Visitors \cup {NoVisitor}]
  OBVIOUS
<1> QED
  BY <1>1, <1>2, <1>3, <1>4, <1>5, <1>6 DEF BuildsTyped

\* A place is given up by a request that is there.
LEMMA TheyAreVisits ==
  ASSUME BuildsTyped, NEW r \in Visitors, visitor[r].at \in Places
  PROVE  visitor[r] \in Visits
<1>1. Away.at = "away"
  BY DEF Away
<1>2. "away" \notin Places
  BY DEF Places
<1> QED
  BY <1>1, <1>2 DEF BuildsTyped

\* What follows when one request becomes y: every step but the end of a build is such.
LEMMA Became ==
  ASSUME BuildsTyped, NEW r \in Visitors, NEW y \in {Away} \cup Visits,
         visitor' = [visitor EXCEPT ![r] = y]
  PROVE  /\ visitor'[r] = y /\ \A q \in Visitors \ {r} : visitor'[q] = visitor[q]
         /\ visitor' \in [Visitors -> {Away} \cup Visits]
         /\ Waits(r)' = IF y = Away THEN 0 ELSE y.waits
         /\ \A q \in Visitors \ {r} : visitor'[q].at = visitor[q].at /\ Waits(q)' = Waits(q)
<1>1. /\ visitor'[r] = y /\ \A q \in Visitors \ {r} : visitor'[q] = visitor[q]
      /\ visitor' \in [Visitors -> {Away} \cup Visits]
  BY DEF BuildsTyped
<1> QED
  BY <1>1 DEF Waits

OthersStay(r) ==
  \A q \in Visitors \ {r} : visitor'[q].at = visitor[q].at /\ Waits(q)' = Waits(q)

\* The slots are taken and returned by the places the request left and came to,
SlotsFollow(r) ==
  /\ slots'["build"] =
       slots["build"] - In(visitor[r].at, LeadPlaces) + In(visitor[r].at, LeadPlaces)'
  /\ slots'["public"] =
       slots["public"] - In(visitor[r].at, {"awaitQuery", "query"})
                             + In(visitor[r].at, {"awaitQuery", "query"})'
  /\ slots'["query"] - panelQueries' =
       (slots["query"] - panelQueries) - In(visitor[r].at, {"query"})
                                       + In(visitor[r].at, {"query"})'
  /\ slots'["wait"] = slots["wait"] - Waits(r) + Waits(r)'

\* and each only when there is room for it.
SlotsGuarded ==
  \A s \in Semaphores :
    slots'[s] <= slots[s] \/ (slots[s] < Limits[s] /\ slots'[s] = slots[s] + 1)

LEMMA LimitsKept ==
  ASSUME BuildsTyped, BuildsTyped', WithinLimits, SlotsGuarded
  PROVE  WithinLimits'
<1> SUFFICES ASSUME NEW s \in Semaphores PROVE slots'[s] <= Limits[s]
  BY DEF WithinLimits
<1>1. slots[s] \in Int /\ slots'[s] \in Int /\ Limits[s] \in Nat
  BY LimitsAssumption DEF BuildsTyped
<1>2. slots[s] <= Limits[s]
  BY DEF WithinLimits
<1>3. slots'[s] <= slots[s] \/ (slots[s] < Limits[s] /\ slots'[s] = slots[s] + 1)
  BY DEF SlotsGuarded
<1> QED
  BY <1>1, <1>2, <1>3

LEMMA SlotsKept ==
  ASSUME BuildsTyped, BuildsTyped', SlotsCounted, NEW r \in Visitors,
         OthersStay(r), SlotsFollow(r)
  PROVE  SlotsCounted'
<1>1. /\ slots'["build"] = Cardinality(At(LeadPlaces))'
      /\ slots'["public"] = Cardinality(At({"awaitQuery", "query"}))'
      /\ slots'["query"] - panelQueries' = Cardinality(At({"query"}))'
      /\ IsFiniteSet(WaitSlots)' /\ slots'["wait"] = Cardinality(WaitSlots)'
  BY CountsFollow DEF OthersStay, SlotsFollow
<1>2. slots'["query"] \in Int /\ panelQueries' \in Nat
  BY DEF BuildsTyped, Semaphores
<1>3. PICK c \in Nat : c = Cardinality(At({"query"}))'
  BY CountsFollow DEF OthersStay
<1>4. slots'["query"] - panelQueries' = c
  BY <1>1, <1>3
<1>5. slots'["query"] = c + panelQueries'
  BY <1>2, <1>4
<1> QED
  BY <1>1, <1>3, <1>5 DEF SlotsCounted

LEMMA Cancel == \A a, b \in Int : a = a - b + b
  OBVIOUS

LEMMA SlotNumbers ==
  \A f \in [Semaphores -> Int], n \in Nat :
    /\ f["build"] \in Int /\ f["public"] \in Int
    /\ f["query"] \in Int /\ f["query"] - n \in Int /\ f["wait"] \in Int
  BY DEF Semaphores

\* The places are the same for the slots.
Alike(a, b) ==
  /\ a \in LeadPlaces <=> b \in LeadPlaces
  /\ a \in {"awaitQuery", "query"} <=> b \in {"awaitQuery", "query"}
  /\ a = "query" <=> b = "query"

\* A request that neither takes nor returns anything.
LEMMA NoSlotMoves ==
  ASSUME BuildsTyped, BuildsTyped', SlotsCounted, WithinLimits, NEW r \in Visitors,
         NEW y \in {Away} \cup Visits, visitor' = [visitor EXCEPT ![r] = y],
         Waits(r)' = Waits(r), slots' = slots, panelQueries' = panelQueries,
         Alike(visitor[r].at, y.at)
  PROVE  SlotsCounted' /\ WithinLimits'
<1>1. visitor'[r] = y /\ OthersStay(r)
  BY Became DEF OthersStay
<1>2. /\ In(visitor[r].at, LeadPlaces)' = In(visitor[r].at, LeadPlaces)
      /\ In(visitor[r].at, {"awaitQuery", "query"})' = In(visitor[r].at, {"awaitQuery", "query"})
      /\ In(visitor[r].at, {"query"})' = In(visitor[r].at, {"query"})
  BY <1>1 DEF In, LeadPlaces, Alike
<1>3. /\ In(visitor[r].at, LeadPlaces) \in Nat
      /\ In(visitor[r].at, {"awaitQuery", "query"}) \in Nat
      /\ In(visitor[r].at, {"query"}) \in Nat
      /\ Waits(r) \in Nat
  BY DEF In, Waits, BuildsTyped, Visits
<1>4. slots \in [Semaphores -> Int] /\ panelQueries \in Nat
  BY DEF BuildsTyped
<1>5. /\ slots["build"] \in Int /\ slots["public"] \in Int
      /\ slots["query"] - panelQueries \in Int /\ slots["wait"] \in Int
  BY <1>4, SlotNumbers
<1>6. SlotsFollow(r)
  BY <1>2, <1>3, <1>5, Cancel DEF SlotsFollow
<1>7. SlotsGuarded
  BY <1>4 DEF SlotsGuarded
<1> QED
  BY <1>1, <1>6, <1>7, SlotsKept, LimitsKept

LEMMA BuildersKept ==
  ASSUME BuildsTyped, BuildersListed, NEW r \in Visitors, NEW y \in {Away} \cup Visits,
         visitor' = [visitor EXCEPT ![r] = y], builder' = builder,
         y.at \in LeadPlaces => builder[y.key] = r,
         y.at \in {"queue", "wait"} => y.over \/ builder[y.key] # NoVisitor
  PROVE  BuildersListed'
<1>1. visitor'[r] = y /\ \A q \in Visitors \ {r} : visitor'[q] = visitor[q]
  BY Became
<1> QED
  BY <1>1 DEF BuildersListed, LeadPlaces

NewRequest(z) ==
  /\ z.start <= z.key /\ z.key <= version
  /\ z.at = "check" => z.key <= z.content /\ z.content <= version
  /\ z.at = "served" => z.content = z.key
  /\ z.at = "built" => z.content = z.key

LEMMA NewKept ==
  ASSUME BuildsTyped, NewEnough, NEW r \in Visitors, NEW y \in {Away} \cup Visits,
         visitor' = [visitor EXCEPT ![r] = y], version' = version,
         \A v \in Versions : answer'[v] \in {NoAnswer, v},
         y # Away => NewRequest(y)
  PROVE  NewEnough'
<1>1. visitor'[r] = y /\ \A q \in Visitors \ {r} : visitor'[q] = visitor[q]
  BY Became
<1>2. \A q \in Visitors : visitor'[q] # Away => NewRequest(visitor[q])'
  <2> SUFFICES ASSUME NEW q \in Visitors, visitor'[q] # Away PROVE NewRequest(visitor[q])'
    OBVIOUS
  <2>1. CASE q = r
    BY <1>1, <2>1 DEF NewRequest
  <2>2. CASE q # r
    BY <1>1, <2>2 DEF NewRequest, NewEnough
  <2> QED
    BY <2>1, <2>2
<1> QED
  BY <1>2 DEF NewRequest, NewEnough

LEMMA QueriesKept ==
  ASSUME BuildsTyped, QueriesHold, NEW r \in Visitors, NEW y \in {Away} \cup Visits,
         visitor' = [visitor EXCEPT ![r] = y],
         y.at \in {"awaitPublic", "awaitQuery"} => y.waits >= 1
  PROVE  QueriesHold'
<1>1. visitor'[r] = y /\ \A q \in Visitors \ {r} : visitor'[q] = visitor[q]
  BY Became
<1> QED
  BY <1>1 DEF QueriesHold

\* What a request must be where it stands.
SoundRequest(r, z) ==
  /\ z.at \in LeadPlaces => builder[z.key] = r
  /\ z.at \in {"queue", "wait"} => z.over \/ builder[z.key] # NoVisitor
  /\ z.at \in {"awaitPublic", "awaitQuery"} => z.waits >= 1
  /\ NewRequest(z)

LEMMA RequestsAreSound ==
  ASSUME BuildsInv, NEW r \in Visitors, visitor[r] \in Visits
  PROVE  SoundRequest(r, visitor[r])
<1>1. visitor[r] # Away
  BY DEF Visits, Places, Away
<1> QED
  BY <1>1 DEF BuildsInv, SoundRequest, BuildersListed, QueriesHold, NewEnough, NewRequest

LEMMA SoundKept ==
  ASSUME BuildsInv, NEW r \in Visitors, NEW y \in Visits,
         visitor' = [visitor EXCEPT ![r] = y], version' = version, builder' = builder,
         \A v \in Versions : answer'[v] \in {NoAnswer, v},
         SoundRequest(r, y)
  PROVE  BuildersListed' /\ NewEnough' /\ QueriesHold'
  BY BuildersKept, NewKept, QueriesKept DEF BuildsInv, SoundRequest

-----------------------------------------------------------------------------
(* The steps of a request *)

LEMMA RequestIsThere ==
  ASSUME NEW z \in Visits
  PROVE  z # Away /\ z.at \in Places /\ z.waits \in Nat
  BY DEF Visits, Places, Away

LEMMA LookUpKeeps ==
  ASSUME BuildsInv, NEW r \in Visitors, LookUp(r)
  PROVE  BuildsInv'
<1>1. visitor[r] \in Visits /\ visitor[r].at = "look"
  BY TheyAreVisits DEF LookUp, IsAt, Places, BuildsInv
<1>2. PICK y \in Visits :
        /\ visitor' = [visitor EXCEPT ![r] = y]
        /\ y.at \in {"begin", "served"} /\ y.key = visitor[r].key
        /\ y.start = visitor[r].start /\ y.waits = visitor[r].waits
        /\ y.at = "served" => y.content = answer[y.key] /\ y.content # NoAnswer
  <2> DEFINE found == answer[visitor[r].key]
             y == [visitor[r] EXCEPT !.at = IF found = NoAnswer THEN "begin" ELSE "served",
                                     !.content = found]
  <2>1. found \in Versions \cup {NoAnswer}
    BY <1>1 DEF BuildsInv, BuildsTyped, Visits
  <2>2. visitor' = [visitor EXCEPT ![r] = y]
    BY DEF LookUp, BuildsInv, BuildsTyped
  <2>3. y \in Visits
    BY <1>1, <2>1 DEF Visits, Places
  <2>4. /\ y.at \in {"begin", "served"} /\ y.key = visitor[r].key
        /\ y.start = visitor[r].start /\ y.waits = visitor[r].waits
        /\ y.at = "served" => y.content = answer[y.key] /\ y.content # NoAnswer
    BY <1>1 DEF Visits
  <2> HIDE DEF y
  <2> QED
    BY <2>2, <2>3, <2>4
<1>3. BuildsTyped'
  BY <1>2, Became DEF LookUp, BuildsInv, BuildsTyped
<1>4. SlotsCounted' /\ WithinLimits'
  <2>1. Waits(r)' = Waits(r)
    BY <1>1, <1>2, Became, RequestIsThere DEF Waits, BuildsInv
  <2>2. Alike(visitor[r].at, y.at)
    BY <1>1, <1>2 DEF Alike, LeadPlaces
  <2> QED
    BY <1>2, <1>3, <2>1, <2>2, NoSlotMoves DEF LookUp, BuildsInv
<1>5. BuildersListed' /\ NewEnough' /\ QueriesHold'
  <2>1. SoundRequest(r, visitor[r])
    BY <1>1, RequestsAreSound
  <2>2. visitor[r].key \in Versions /\ answer[visitor[r].key] \in {NoAnswer, visitor[r].key}
    BY <1>1 DEF Visits, BuildsInv, NewEnough
  <2>3. SoundRequest(r, y)
    BY <1>1, <1>2, <2>1, <2>2 DEF SoundRequest, NewRequest, LeadPlaces
  <2>4. \A v \in Versions : answer'[v] \in {NoAnswer, v}
    BY DEF LookUp, BuildsInv, NewEnough
  <2> QED
    BY <1>2, <2>3, <2>4, SoundKept DEF LookUp
<1> QED
  BY <1>3, <1>4, <1>5 DEF BuildsInv

\* A step that only goes to another place.
LEMMA GoesThere ==
  ASSUME BuildsTyped, NEW r \in Visitors, NEW place \in Places, visitor[r] \in Visits,
         Goes(r, place)
  PROVE  \E y \in Visits :
           /\ visitor' = [visitor EXCEPT ![r] = y]
           /\ y.at = place /\ y.key = visitor[r].key /\ y.start = visitor[r].start
           /\ y.waits = visitor[r].waits /\ y.over = visitor[r].over
           /\ y.content = visitor[r].content
<1> DEFINE y == [visitor[r] EXCEPT !.at = place]
<1>1. visitor' = [visitor EXCEPT ![r] = y]
  BY DEF Goes, BuildsTyped
<1>2. y \in Visits
  BY DEF Visits
<1>3. /\ y.at = place /\ y.key = visitor[r].key /\ y.start = visitor[r].start
      /\ y.waits = visitor[r].waits /\ y.over = visitor[r].over
      /\ y.content = visitor[r].content
  BY DEF Visits
<1> HIDE DEF y
<1> QED
  BY <1>1, <1>2, <1>3

\* Of the rest of a request's step it remains to be shown that the slots follow.
LEMMA SlotsMoved ==
  ASSUME BuildsInv, BuildsTyped', NEW r \in Visitors, NEW y \in Visits,
         visitor' = [visitor EXCEPT ![r] = y], SlotsFollow(r), SlotsGuarded
  PROVE  SlotsCounted' /\ WithinLimits'
<1>1. OthersStay(r)
  BY Became DEF OthersStay, BuildsInv
<1> QED
  BY <1>1, SlotsKept, LimitsKept DEF BuildsInv

LEMMA FollowBuildKeeps ==
  ASSUME BuildsInv, NEW r \in Visitors, FollowBuild(r)
  PROVE  BuildsInv'
<1>1. visitor[r] \in Visits /\ visitor[r].at = "begin"
  BY TheyAreVisits DEF FollowBuild, IsAt, Places, BuildsInv
<1>2. PICK y \in Visits :
        /\ visitor' = [visitor EXCEPT ![r] = y]
        /\ y.at = "queue" /\ y.key = visitor[r].key /\ y.start = visitor[r].start
        /\ y.waits = visitor[r].waits /\ y.over = visitor[r].over
        /\ y.content = visitor[r].content
  BY <1>1, GoesThere DEF FollowBuild, BuildsInv, Places
<1>3. BuildsTyped'
  BY <1>2, Became DEF FollowBuild, BuildsInv, BuildsTyped
<1>4. SlotsCounted' /\ WithinLimits'
  <2>1. Waits(r)' = Waits(r)
    BY <1>1, <1>2, Became, RequestIsThere DEF Waits, BuildsInv
  <2>2. Alike(visitor[r].at, y.at)
    BY <1>1, <1>2 DEF Alike, LeadPlaces
  <2> QED
    BY <1>2, <1>3, <2>1, <2>2, NoSlotMoves DEF FollowBuild, BuildsInv
<1>5. BuildersListed' /\ NewEnough' /\ QueriesHold'
  <2>1. SoundRequest(r, visitor[r])
    BY <1>1, RequestsAreSound
  <2>3. SoundRequest(r, y)
    BY <1>1, <1>2, <2>1 DEF FollowBuild, SoundRequest, NewRequest, LeadPlaces
  <2>4. \A v \in Versions : answer'[v] \in {NoAnswer, v}
    BY DEF FollowBuild, BuildsInv, NewEnough
  <2> QED
    BY <1>2, <2>3, <2>4, SoundKept DEF FollowBuild
<1> QED
  BY <1>3, <1>4, <1>5 DEF BuildsInv

LEMMA RefuseBuildKeeps ==
  ASSUME BuildsInv, NEW r \in Visitors, RefuseBuild(r)
  PROVE  BuildsInv'
<1>1. visitor[r] \in Visits /\ visitor[r].at = "begin"
  BY TheyAreVisits DEF RefuseBuild, IsAt, Places, BuildsInv
<1>2. PICK y \in Visits :
        /\ visitor' = [visitor EXCEPT ![r] = y]
        /\ y.at = "leave" /\ y.key = visitor[r].key /\ y.start = visitor[r].start
        /\ y.waits = visitor[r].waits /\ y.over = visitor[r].over
        /\ y.content = visitor[r].content
  BY <1>1, GoesThere DEF RefuseBuild, BuildsInv, Places
<1>3. BuildsTyped'
  BY <1>2, Became DEF RefuseBuild, BuildsInv, BuildsTyped
<1>4. SlotsCounted' /\ WithinLimits'
  <2>1. Waits(r)' = Waits(r)
    BY <1>1, <1>2, Became, RequestIsThere DEF Waits, BuildsInv
  <2>2. Alike(visitor[r].at, y.at)
    BY <1>1, <1>2 DEF Alike, LeadPlaces
  <2> QED
    BY <1>2, <1>3, <2>1, <2>2, NoSlotMoves DEF RefuseBuild, BuildsInv
<1>5. BuildersListed' /\ NewEnough' /\ QueriesHold'
  <2>1. SoundRequest(r, visitor[r])
    BY <1>1, RequestsAreSound
  <2>3. SoundRequest(r, y)
    BY <1>1, <1>2, <2>1 DEF RefuseBuild, SoundRequest, NewRequest, LeadPlaces
  <2>4. \A v \in Versions : answer'[v] \in {NoAnswer, v}
    BY DEF RefuseBuild, BuildsInv, NewEnough
  <2> QED
    BY <1>2, <2>3, <2>4, SoundKept DEF RefuseBuild
<1> QED
  BY <1>3, <1>4, <1>5 DEF BuildsInv

LEMMA WaitTimesOutKeeps ==
  ASSUME BuildsInv, NEW r \in Visitors, WaitTimesOut(r)
  PROVE  BuildsInv'
<1>1. visitor[r] \in Visits /\ visitor[r].at = "wait"
  BY TheyAreVisits DEF WaitTimesOut, IsAt, Places, BuildsInv
<1>2. PICK y \in Visits :
        /\ visitor' = [visitor EXCEPT ![r] = y]
        /\ y.at = "leave" /\ y.key = visitor[r].key /\ y.start = visitor[r].start
        /\ y.waits = visitor[r].waits /\ y.over = visitor[r].over
        /\ y.content = visitor[r].content
  BY <1>1, GoesThere DEF WaitTimesOut, BuildsInv, Places
<1>3. BuildsTyped'
  BY <1>2, Became DEF WaitTimesOut, BuildsInv, BuildsTyped
<1>4. SlotsCounted' /\ WithinLimits'
  <2>1. Waits(r)' = Waits(r)
    BY <1>1, <1>2, Became, RequestIsThere DEF Waits, BuildsInv
  <2>2. Alike(visitor[r].at, y.at)
    BY <1>1, <1>2 DEF Alike, LeadPlaces
  <2> QED
    BY <1>2, <1>3, <2>1, <2>2, NoSlotMoves DEF WaitTimesOut, BuildsInv
<1>5. BuildersListed' /\ NewEnough' /\ QueriesHold'
  <2>1. SoundRequest(r, visitor[r])
    BY <1>1, RequestsAreSound
  <2>3. SoundRequest(r, y)
    BY <1>1, <1>2, <2>1 DEF WaitTimesOut, SoundRequest, NewRequest, LeadPlaces
  <2>4. \A v \in Versions : answer'[v] \in {NoAnswer, v}
    BY DEF WaitTimesOut, BuildsInv, NewEnough
  <2> QED
    BY <1>2, <2>3, <2>4, SoundKept DEF WaitTimesOut
<1> QED
  BY <1>3, <1>4, <1>5 DEF BuildsInv

LEMMA AcquirePublicKeeps ==
  ASSUME BuildsInv, NEW r \in Visitors, AcquirePublic(r)
  PROVE  BuildsInv'
<1>1. visitor[r] \in Visits /\ visitor[r].at = "awaitPublic"
  BY TheyAreVisits DEF AcquirePublic, IsAt, Places, BuildsInv
<1>2. PICK y \in Visits :
        /\ visitor' = [visitor EXCEPT ![r] = y]
        /\ y.at = "awaitQuery" /\ y.key = visitor[r].key /\ y.start = visitor[r].start
        /\ y.waits = visitor[r].waits /\ y.over = visitor[r].over
        /\ y.content = visitor[r].content
  BY <1>1, GoesThere DEF AcquirePublic, BuildsInv, Places
<1>3. BuildsTyped'
  BY <1>2, Became DEF AcquirePublic, BuildsInv, BuildsTyped, Takes, Semaphores
<1>4. SlotsCounted' /\ WithinLimits'
  <2>1. visitor'[r] = y /\ Waits(r) = visitor[r].waits /\ Waits(r)' = y.waits
    BY <1>1, <1>2, Became, RequestIsThere DEF Waits, BuildsInv
  <2>2. slots \in [Semaphores -> Int] /\ panelQueries \in Nat /\ visitor[r].waits \in Nat
    BY <1>1, RequestIsThere DEF BuildsInv, BuildsTyped
  <2>3. SlotsFollow(r)
    BY <1>1, <1>2, <2>1, <2>2
    DEF AcquirePublic, SlotsFollow, In, LeadPlaces, Semaphores, Takes, HasRoom
  <2>4. SlotsGuarded
    BY <1>1, <2>2 DEF AcquirePublic, SlotsGuarded, Semaphores, Takes, HasRoom
  <2> QED
    BY <1>2, <1>3, <2>3, <2>4, SlotsMoved
<1>5. BuildersListed' /\ NewEnough' /\ QueriesHold'
  <2>1. SoundRequest(r, visitor[r])
    BY <1>1, RequestsAreSound
  <2>3. SoundRequest(r, y)
    BY <1>1, <1>2, <2>1 DEF AcquirePublic, SoundRequest, NewRequest, LeadPlaces
  <2>4. \A v \in Versions : answer'[v] \in {NoAnswer, v}
    BY DEF AcquirePublic, BuildsInv, NewEnough
  <2> QED
    BY <1>2, <2>3, <2>4, SoundKept DEF AcquirePublic
<1> QED
  BY <1>3, <1>4, <1>5 DEF BuildsInv

LEMMA QueriedKeeps ==
  ASSUME BuildsInv, NEW r \in Visitors, Queried(r)
  PROVE  BuildsInv'
<1>1. visitor[r] \in Visits /\ visitor[r].at = "query"
  BY TheyAreVisits DEF Queried, IsAt, Places, BuildsInv
<1>2. PICK y \in Visits :
        /\ visitor' = [visitor EXCEPT ![r] = y]
        /\ y.at = "check" /\ y.key = visitor[r].key /\ y.start = visitor[r].start
        /\ y.waits = visitor[r].waits /\ y.content = visitor[r].key
  <2> DEFINE y == [visitor[r] EXCEPT !.at = "check", !.content = visitor[r].key]
  <2>1. visitor[r].key \in Versions
    BY <1>1 DEF Visits
  <2>2. visitor' = [visitor EXCEPT ![r] = y]
    BY DEF Queried, BuildsInv, BuildsTyped
  <2>3. y \in Visits
    BY <1>1, <2>1 DEF Visits, Places
  <2>4. /\ y.at = "check" /\ y.key = visitor[r].key /\ y.start = visitor[r].start
        /\ y.waits = visitor[r].waits /\ y.content = visitor[r].key
    BY <1>1 DEF Visits
  <2> HIDE DEF y
  <2> QED
    BY <2>2, <2>3, <2>4
<1>3. BuildsTyped'
  BY <1>2, Became DEF Queried, BuildsInv, BuildsTyped, Semaphores
<1>4. SlotsCounted' /\ WithinLimits'
  <2>1. visitor'[r] = y /\ Waits(r) = visitor[r].waits /\ Waits(r)' = y.waits
    BY <1>1, <1>2, Became, RequestIsThere DEF Waits, BuildsInv
  <2>2. slots \in [Semaphores -> Int] /\ panelQueries \in Nat /\ visitor[r].waits \in Nat
    BY <1>1, RequestIsThere DEF BuildsInv, BuildsTyped
  <2>3. SlotsFollow(r)
    BY <1>1, <1>2, <2>1, <2>2 DEF Queried, SlotsFollow, In, LeadPlaces, Semaphores
  <2>4. SlotsGuarded
    BY <1>1, <2>2 DEF Queried, SlotsGuarded, Semaphores
  <2> QED
    BY <1>2, <1>3, <2>3, <2>4, SlotsMoved
<1>5. BuildersListed' /\ NewEnough' /\ QueriesHold'
  <2>1. SoundRequest(r, visitor[r])
    BY <1>1, RequestsAreSound
  <2>2. visitor[r].key \in Int
    BY <1>1, LimitsAssumption DEF Visits, Versions
  <2>3. SoundRequest(r, y)
    BY <1>1, <1>2, <2>1, <2>2 DEF Queried, SoundRequest, NewRequest, LeadPlaces
  <2>4. \A v \in Versions : answer'[v] \in {NoAnswer, v}
    BY DEF Queried, BuildsInv, NewEnough
  <2> QED
    BY <1>2, <2>3, <2>4, SoundKept DEF Queried
<1> QED
  BY <1>3, <1>4, <1>5 DEF BuildsInv

LEMMA ReadContentKeeps ==
  ASSUME BuildsInv, NEW r \in Visitors, ReadContent(r)
  PROVE  BuildsInv'
<1>1. visitor[r] \in Visits /\ visitor[r].at = "build"
  BY TheyAreVisits DEF ReadContent, IsAt, Places, BuildsInv
<1>2. PICK y \in Visits :
        /\ visitor' = [visitor EXCEPT ![r] = y]
        /\ y.at = "check" /\ y.key = visitor[r].key /\ y.start = visitor[r].start
        /\ y.waits = visitor[r].waits /\ y.content = version
  <2> DEFINE y == [visitor[r] EXCEPT !.at = "check", !.content = version]
  <2>1. version \in Versions
    BY DEF BuildsInv, BuildsTyped
  <2>2. visitor' = [visitor EXCEPT ![r] = y]
    BY DEF ReadContent, BuildsInv, BuildsTyped
  <2>3. y \in Visits
    BY <1>1, <2>1 DEF Visits, Places
  <2>4. /\ y.at = "check" /\ y.key = visitor[r].key /\ y.start = visitor[r].start
        /\ y.waits = visitor[r].waits /\ y.content = version
    BY <1>1 DEF Visits
  <2> HIDE DEF y
  <2> QED
    BY <2>2, <2>3, <2>4
<1>3. BuildsTyped'
  BY <1>2, Became DEF ReadContent, BuildsInv, BuildsTyped
<1>4. SlotsCounted' /\ WithinLimits'
  <2>1. Waits(r)' = Waits(r)
    BY <1>1, <1>2, Became, RequestIsThere DEF Waits, BuildsInv
  <2>2. Alike(visitor[r].at, y.at)
    BY <1>1, <1>2 DEF Alike, LeadPlaces
  <2> QED
    BY <1>2, <1>3, <2>1, <2>2, NoSlotMoves DEF ReadContent, BuildsInv
<1>5. BuildersListed' /\ NewEnough' /\ QueriesHold'
  <2>1. SoundRequest(r, visitor[r])
    BY <1>1, RequestsAreSound
  <2>2. visitor[r].key \in Int /\ version \in Int
    BY <1>1, LimitsAssumption DEF Visits, Versions, BuildsInv, BuildsTyped
  <2>3. SoundRequest(r, y)
    BY <1>1, <1>2, <2>1, <2>2 DEF ReadContent, SoundRequest, NewRequest, LeadPlaces
  <2>4. \A v \in Versions : answer'[v] \in {NoAnswer, v}
    BY DEF ReadContent, BuildsInv, NewEnough
  <2> QED
    BY <1>2, <2>3, <2>4, SoundKept DEF ReadContent
<1> QED
  BY <1>3, <1>4, <1>5 DEF BuildsInv

LEMMA AcquireQueryKeeps ==
  ASSUME BuildsInv, NEW r \in Visitors, AcquireQuery(r)
  PROVE  BuildsInv'
<1>1. visitor[r] \in Visits /\ visitor[r].at = "awaitQuery"
  BY TheyAreVisits DEF AcquireQuery, IsAt, Places, BuildsInv
<1>2. PICK y \in Visits :
        /\ visitor' = [visitor EXCEPT ![r] = y]
        /\ y.at = "query" /\ y.key = visitor[r].key /\ y.start = visitor[r].start
        /\ y.waits = visitor[r].waits - 1
  <2> DEFINE y == [visitor[r] EXCEPT !.at = "query", !.waits = visitor[r].waits - 1]
  <2>1. visitor[r].waits \in Nat /\ visitor[r].waits - 1 \in Nat
    <3>1. visitor[r].waits \in Nat /\ visitor[r].waits >= 1
      BY <1>1, RequestIsThere DEF BuildsInv, QueriesHold
    <3> QED
      BY <3>1
  <2>2. visitor' = [visitor EXCEPT ![r] = y]
    BY DEF AcquireQuery, BuildsInv, BuildsTyped
  <2>3. y \in Visits
    BY <1>1, <2>1 DEF Visits, Places
  <2>4. /\ y.at = "query" /\ y.key = visitor[r].key /\ y.start = visitor[r].start
        /\ y.waits = visitor[r].waits - 1
    BY <1>1 DEF Visits
  <2> HIDE DEF y
  <2> QED
    BY <2>2, <2>3, <2>4
<1>3. BuildsTyped'
  BY <1>2, Became DEF AcquireQuery, BuildsInv, BuildsTyped, Semaphores
<1>4. SlotsCounted' /\ WithinLimits'
  <2>1. visitor'[r] = y /\ Waits(r) = visitor[r].waits /\ Waits(r)' = y.waits
    BY <1>1, <1>2, Became, RequestIsThere DEF Waits, BuildsInv
  <2>2. slots \in [Semaphores -> Int] /\ panelQueries \in Nat /\ visitor[r].waits \in Nat
    BY <1>1, RequestIsThere DEF BuildsInv, BuildsTyped
  <2>3. SlotsFollow(r)
    BY <1>1, <1>2, <2>1, <2>2 DEF AcquireQuery, SlotsFollow, In, LeadPlaces, Semaphores, HasRoom
  <2>4. SlotsGuarded
    BY <1>1, <2>2 DEF AcquireQuery, SlotsGuarded, Semaphores, HasRoom
  <2> QED
    BY <1>2, <1>3, <2>3, <2>4, SlotsMoved
<1>5. BuildersListed' /\ NewEnough' /\ QueriesHold'
  <2>1. SoundRequest(r, visitor[r])
    BY <1>1, RequestsAreSound
  <2>3. SoundRequest(r, y)
    BY <1>1, <1>2, <2>1 DEF AcquireQuery, SoundRequest, NewRequest, LeadPlaces
  <2>4. \A v \in Versions : answer'[v] \in {NoAnswer, v}
    BY DEF AcquireQuery, BuildsInv, NewEnough
  <2> QED
    BY <1>2, <2>3, <2>4, SoundKept DEF AcquireQuery
<1> QED
  BY <1>3, <1>4, <1>5 DEF BuildsInv

LEMMA AcquireTimesOutKeeps ==
  ASSUME BuildsInv, NEW r \in Visitors, AcquireTimesOut(r)
  PROVE  BuildsInv'
<1>1. visitor[r] \in Visits /\ visitor[r].at \in {"awaitPublic", "awaitQuery"}
  BY TheyAreVisits DEF AcquireTimesOut, IsAt, Places, BuildsInv
<1>2. PICK y \in Visits :
        /\ visitor' = [visitor EXCEPT ![r] = y]
        /\ y.at = "finish" /\ y.key = visitor[r].key /\ y.start = visitor[r].start
        /\ y.waits = visitor[r].waits - 1
  <2> DEFINE y == [visitor[r] EXCEPT !.at = "finish", !.waits = visitor[r].waits - 1]
  <2>1. visitor[r].waits \in Nat /\ visitor[r].waits - 1 \in Nat
    <3>1. visitor[r].waits \in Nat /\ visitor[r].waits >= 1
      BY <1>1, RequestIsThere DEF BuildsInv, QueriesHold
    <3> QED
      BY <3>1
  <2>2. visitor' = [visitor EXCEPT ![r] = y]
    BY DEF AcquireTimesOut, BuildsInv, BuildsTyped
  <2>3. y \in Visits
    BY <1>1, <2>1 DEF Visits, Places
  <2>4. /\ y.at = "finish" /\ y.key = visitor[r].key /\ y.start = visitor[r].start
        /\ y.waits = visitor[r].waits - 1
    BY <1>1 DEF Visits
  <2> HIDE DEF y
  <2> QED
    BY <2>2, <2>3, <2>4
<1>3. BuildsTyped'
  BY <1>2, Became DEF AcquireTimesOut, BuildsInv, BuildsTyped, Semaphores
<1>4. SlotsCounted' /\ WithinLimits'
  <2>1. visitor'[r] = y /\ Waits(r) = visitor[r].waits /\ Waits(r)' = y.waits
    BY <1>1, <1>2, Became, RequestIsThere DEF Waits, BuildsInv
  <2>2. slots \in [Semaphores -> Int] /\ panelQueries \in Nat /\ visitor[r].waits \in Nat
    BY <1>1, RequestIsThere DEF BuildsInv, BuildsTyped
  <2>3. SlotsFollow(r)
    BY <1>1, <1>2, <2>1, <2>2 DEF AcquireTimesOut, SlotsFollow, In, LeadPlaces, Semaphores, IsAt
  <2>4. SlotsGuarded
    BY <1>1, <2>2 DEF AcquireTimesOut, SlotsGuarded, Semaphores, IsAt
  <2> QED
    BY <1>2, <1>3, <2>3, <2>4, SlotsMoved
<1>5. BuildersListed' /\ NewEnough' /\ QueriesHold'
  <2>1. SoundRequest(r, visitor[r])
    BY <1>1, RequestsAreSound
  <2>3. SoundRequest(r, y)
    BY <1>1, <1>2, <2>1 DEF AcquireTimesOut, SoundRequest, NewRequest, LeadPlaces
  <2>4. \A v \in Versions : answer'[v] \in {NoAnswer, v}
    BY DEF AcquireTimesOut, BuildsInv, NewEnough
  <2> QED
    BY <1>2, <2>3, <2>4, SoundKept DEF AcquireTimesOut
<1> QED
  BY <1>3, <1>4, <1>5 DEF BuildsInv

LEMMA BuildFailsKeeps ==
  ASSUME BuildsInv, NEW r \in Visitors, BuildFails(r)
  PROVE  BuildsInv'
<1>1. visitor[r] \in Visits /\ visitor[r].at \in {"build", "query"}
  BY TheyAreVisits DEF BuildFails, IsAt, Places, BuildsInv
<1>2. PICK y \in Visits :
        /\ visitor' = [visitor EXCEPT ![r] = y]
        /\ y.at = "finish" /\ y.key = visitor[r].key /\ y.start = visitor[r].start
        /\ y.waits = visitor[r].waits /\ y.over = visitor[r].over
        /\ y.content = visitor[r].content
  BY <1>1, GoesThere DEF BuildFails, BuildsInv, Places
<1>3. BuildsTyped'
  BY <1>2, Became DEF BuildFails, BuildsInv, BuildsTyped, IsAt, Semaphores
<1>4. SlotsCounted' /\ WithinLimits'
  <2>1. visitor'[r] = y /\ Waits(r) = visitor[r].waits /\ Waits(r)' = y.waits
    BY <1>1, <1>2, Became, RequestIsThere DEF Waits, BuildsInv
  <2>2. slots \in [Semaphores -> Int] /\ panelQueries \in Nat /\ visitor[r].waits \in Nat
    BY <1>1, RequestIsThere DEF BuildsInv, BuildsTyped
  <2>3. SlotsFollow(r)
    BY <1>1, <1>2, <2>1, <2>2 DEF BuildFails, SlotsFollow, In, LeadPlaces, Semaphores, IsAt
  <2>4. SlotsGuarded
    BY <1>1, <2>2 DEF BuildFails, SlotsGuarded, Semaphores, IsAt
  <2> QED
    BY <1>2, <1>3, <2>3, <2>4, SlotsMoved
<1>5. BuildersListed' /\ NewEnough' /\ QueriesHold'
  <2>1. SoundRequest(r, visitor[r])
    BY <1>1, RequestsAreSound
  <2>3. SoundRequest(r, y)
    BY <1>1, <1>2, <2>1 DEF BuildFails, SoundRequest, NewRequest, LeadPlaces
  <2>4. \A v \in Versions : answer'[v] \in {NoAnswer, v}
    BY DEF BuildFails, BuildsInv, NewEnough
  <2> QED
    BY <1>2, <2>3, <2>4, SoundKept DEF BuildFails
<1> QED
  BY <1>3, <1>4, <1>5 DEF BuildsInv

LEMMA QueueForBuildKeeps ==
  ASSUME BuildsInv, NEW r \in Visitors, QueueForBuild(r)
  PROVE  BuildsInv'
<1>1. visitor[r] \in Visits /\ visitor[r].at = "queue"
  BY TheyAreVisits DEF QueueForBuild, IsAt, Places, BuildsInv
<1>2. PICK y \in Visits :
        /\ visitor' = [visitor EXCEPT ![r] = y]
        /\ y.key = visitor[r].key /\ y.start = visitor[r].start /\ y.over = visitor[r].over
        /\ IF HasRoom("wait") THEN y.at = "wait" /\ y.waits = visitor[r].waits + 1
           ELSE y.at = "leave" /\ y.waits = visitor[r].waits
  <2> DEFINE y == IF HasRoom("wait")
                   THEN [visitor[r] EXCEPT !.at = "wait", !.waits = visitor[r].waits + 1]
                   ELSE [visitor[r] EXCEPT !.at = "leave"]
  <2>1. visitor[r].waits \in Nat
    BY <1>1, RequestIsThere
  <2>2. visitor' = [visitor EXCEPT ![r] = y]
    BY DEF QueueForBuild, Goes, BuildsInv, BuildsTyped
  <2>a. visitor[r].waits + 1 \in Nat
    BY <2>1
  <2>3. y \in Visits
    BY <1>1, <2>a DEF Visits, Places
  <2>4. /\ y.key = visitor[r].key /\ y.start = visitor[r].start /\ y.over = visitor[r].over
        /\ IF HasRoom("wait") THEN y.at = "wait" /\ y.waits = visitor[r].waits + 1
           ELSE y.at = "leave" /\ y.waits = visitor[r].waits
    BY <1>1 DEF Visits
  <2> HIDE DEF y
  <2> QED
    BY <2>2, <2>3, <2>4
<1>3. BuildsTyped'
  BY <1>2, Became DEF QueueForBuild, BuildsInv, BuildsTyped, Takes, Semaphores
<1>4. SlotsCounted' /\ WithinLimits'
  <2>1. visitor'[r] = y /\ Waits(r) = visitor[r].waits /\ Waits(r)' = y.waits
    BY <1>1, <1>2, Became, RequestIsThere DEF Waits, BuildsInv
  <2>2. slots \in [Semaphores -> Int] /\ panelQueries \in Nat /\ visitor[r].waits \in Nat
    BY <1>1, RequestIsThere DEF BuildsInv, BuildsTyped
  <2>3. SlotsFollow(r)
    BY <1>1, <1>2, <2>1, <2>2
    DEF QueueForBuild, SlotsFollow, In, LeadPlaces, Semaphores, Takes, HasRoom
  <2>4. SlotsGuarded
    BY <1>1, <2>2 DEF QueueForBuild, SlotsGuarded, Semaphores, Takes, HasRoom
  <2> QED
    BY <1>2, <1>3, <2>3, <2>4, SlotsMoved
<1>5. BuildersListed' /\ NewEnough' /\ QueriesHold'
  <2>1. SoundRequest(r, visitor[r])
    BY <1>1, RequestsAreSound
  <2>3. SoundRequest(r, y)
    BY <1>1, <1>2, <2>1 DEF QueueForBuild, SoundRequest, NewRequest, LeadPlaces
  <2>4. \A v \in Versions : answer'[v] \in {NoAnswer, v}
    BY DEF QueueForBuild, BuildsInv, NewEnough
  <2> QED
    BY <1>2, <2>3, <2>4, SoundKept DEF QueueForBuild
<1> QED
  BY <1>3, <1>4, <1>5 DEF BuildsInv

LEMMA AskForQueryKeeps ==
  ASSUME BuildsInv, NEW r \in Visitors, AskForQuery(r)
  PROVE  BuildsInv'
<1>1. visitor[r] \in Visits /\ visitor[r].at = "build"
  BY TheyAreVisits DEF AskForQuery, IsAt, Places, BuildsInv
<1>2. PICK y \in Visits :
        /\ visitor' = [visitor EXCEPT ![r] = y]
        /\ y.key = visitor[r].key /\ y.start = visitor[r].start /\ y.over = visitor[r].over
        /\ IF HasRoom("wait") THEN y.at = "awaitPublic" /\ y.waits = visitor[r].waits + 1
           ELSE y.at = "finish" /\ y.waits = visitor[r].waits
  <2> DEFINE y == IF HasRoom("wait")
                   THEN [visitor[r] EXCEPT !.at = "awaitPublic", !.waits = visitor[r].waits + 1]
                   ELSE [visitor[r] EXCEPT !.at = "finish"]
  <2>1. visitor[r].waits \in Nat
    BY <1>1, RequestIsThere
  <2>2. visitor' = [visitor EXCEPT ![r] = y]
    BY DEF AskForQuery, Goes, BuildsInv, BuildsTyped
  <2>a. visitor[r].waits + 1 \in Nat
    BY <2>1
  <2>3. y \in Visits
    BY <1>1, <2>a DEF Visits, Places
  <2>4. /\ y.key = visitor[r].key /\ y.start = visitor[r].start /\ y.over = visitor[r].over
        /\ IF HasRoom("wait") THEN y.at = "awaitPublic" /\ y.waits = visitor[r].waits + 1
           ELSE y.at = "finish" /\ y.waits = visitor[r].waits
    BY <1>1 DEF Visits
  <2> HIDE DEF y
  <2> QED
    BY <2>2, <2>3, <2>4
<1>3. BuildsTyped'
  BY <1>2, Became DEF AskForQuery, BuildsInv, BuildsTyped, Takes, Semaphores
<1>4. SlotsCounted' /\ WithinLimits'
  <2>1. visitor'[r] = y /\ Waits(r) = visitor[r].waits /\ Waits(r)' = y.waits
    BY <1>1, <1>2, Became, RequestIsThere DEF Waits, BuildsInv
  <2>2. slots \in [Semaphores -> Int] /\ panelQueries \in Nat /\ visitor[r].waits \in Nat
    BY <1>1, RequestIsThere DEF BuildsInv, BuildsTyped
  <2>3. SlotsFollow(r)
    BY <1>1, <1>2, <2>1, <2>2
    DEF AskForQuery, SlotsFollow, In, LeadPlaces, Semaphores, Takes, HasRoom
  <2>4. SlotsGuarded
    BY <1>1, <2>2 DEF AskForQuery, SlotsGuarded, Semaphores, Takes, HasRoom
  <2> QED
    BY <1>2, <1>3, <2>3, <2>4, SlotsMoved
<1>5. BuildersListed' /\ NewEnough' /\ QueriesHold'
  <2>1. SoundRequest(r, visitor[r])
    BY <1>1, RequestsAreSound
  <2>2. visitor[r].waits \in Nat
    BY <1>1, RequestIsThere
  <2>3. SoundRequest(r, y)
    BY <1>1, <1>2, <2>1, <2>2 DEF AskForQuery, SoundRequest, NewRequest, LeadPlaces
  <2>4. \A v \in Versions : answer'[v] \in {NoAnswer, v}
    BY DEF AskForQuery, BuildsInv, NewEnough
  <2> QED
    BY <1>2, <2>3, <2>4, SoundKept DEF AskForQuery
<1> QED
  BY <1>3, <1>4, <1>5 DEF BuildsInv

LEMMA ResumeKeeps ==
  ASSUME BuildsInv, NEW r \in Visitors, Resume(r)
  PROVE  BuildsInv'
<1>1. visitor[r] \in Visits /\ visitor[r].at = "wait"
  BY TheyAreVisits DEF Resume, IsAt, Places, BuildsInv
<1>2. PICK y \in Visits :
        /\ visitor' = [visitor EXCEPT ![r] = y]
        /\ y.start = visitor[r].start /\ y.waits = visitor[r].waits
        /\ IF answer[visitor[r].key] = NoAnswer THEN y.at = "leave" /\ y.key = visitor[r].key
           ELSE y.at = "look" /\ y.key = version
  <2> DEFINE y == IF answer[visitor[r].key] = NoAnswer THEN [visitor[r] EXCEPT !.at = "leave"]
                   ELSE [visitor[r] EXCEPT !.at = "look", !.key = version, !.over = FALSE]
  <2>1. version \in Versions
    BY DEF BuildsInv, BuildsTyped
  <2>2. visitor' = [visitor EXCEPT ![r] = y]
    BY DEF Resume, Goes, BuildsInv, BuildsTyped
  <2>3. y \in Visits
    BY <1>1, <2>1 DEF Visits, Places
  <2>4. /\ y.start = visitor[r].start /\ y.waits = visitor[r].waits
        /\ IF answer[visitor[r].key] = NoAnswer THEN y.at = "leave" /\ y.key = visitor[r].key
           ELSE y.at = "look" /\ y.key = version
    BY <1>1 DEF Visits
  <2> HIDE DEF y
  <2> QED
    BY <2>2, <2>3, <2>4
<1>3. BuildsTyped'
  BY <1>2, Became DEF Resume, BuildsInv, BuildsTyped
<1>4. SlotsCounted' /\ WithinLimits'
  <2>1. Waits(r)' = Waits(r)
    BY <1>1, <1>2, Became, RequestIsThere DEF Waits, BuildsInv
  <2>2. Alike(visitor[r].at, y.at)
    BY <1>1, <1>2 DEF Alike, LeadPlaces
  <2> QED
    BY <1>2, <1>3, <2>1, <2>2, NoSlotMoves DEF Resume, BuildsInv
<1>5. BuildersListed' /\ NewEnough' /\ QueriesHold'
  <2>1. SoundRequest(r, visitor[r])
    BY <1>1, RequestsAreSound
  <2>2. visitor[r].key \in Int /\ version \in Int /\ visitor[r].start \in Int
    BY <1>1, LimitsAssumption DEF Visits, Versions, BuildsInv, BuildsTyped
  <2>3. SoundRequest(r, y)
    BY <1>1, <1>2, <2>1, <2>2 DEF Resume, SoundRequest, NewRequest, LeadPlaces
  <2>4. \A v \in Versions : answer'[v] \in {NoAnswer, v}
    BY DEF Resume, BuildsInv, NewEnough
  <2> QED
    BY <1>2, <2>3, <2>4, SoundKept DEF Resume
<1> QED
  BY <1>3, <1>4, <1>5 DEF BuildsInv

LEMMA StoreAnswerKeeps ==
  ASSUME BuildsInv, NEW r \in Visitors, StoreAnswer(r)
  PROVE  BuildsInv'
<1>1. visitor[r] \in Visits /\ visitor[r].at = "check"
  BY TheyAreVisits DEF StoreAnswer, IsAt, Places, BuildsInv
<1>2. PICK y \in Visits :
        /\ visitor' = [visitor EXCEPT ![r] = y]
        /\ y.key = visitor[r].key /\ y.start = visitor[r].start /\ y.over = visitor[r].over
        /\ y.waits = visitor[r].waits
        /\ y.content = visitor[r].content
        /\ IF version = visitor[r].key THEN y.at = "built" ELSE y.at = "finish"
  <2> DEFINE y == IF version = visitor[r].key THEN [visitor[r] EXCEPT !.at = "built"]
                   ELSE [visitor[r] EXCEPT !.at = "finish"]
  <2>2. visitor' = [visitor EXCEPT ![r] = y]
    BY DEF StoreAnswer, Goes, BuildsInv, BuildsTyped
  <2>3. y \in Visits
    BY <1>1 DEF Visits, Places
  <2>4. /\ y.key = visitor[r].key /\ y.start = visitor[r].start /\ y.over = visitor[r].over
        /\ y.waits = visitor[r].waits
        /\ y.content = visitor[r].content
        /\ IF version = visitor[r].key THEN y.at = "built" ELSE y.at = "finish"
    BY <1>1 DEF Visits
  <2> HIDE DEF y
  <2> QED
    BY <2>2, <2>3, <2>4
<1>3. BuildsTyped'
  BY <1>2, Became DEF StoreAnswer, BuildsInv, BuildsTyped, Visits
<1>4. SlotsCounted' /\ WithinLimits'
  <2>1. Waits(r)' = Waits(r)
    BY <1>1, <1>2, Became, RequestIsThere DEF Waits, BuildsInv
  <2>2. Alike(visitor[r].at, y.at)
    BY <1>1, <1>2 DEF Alike, LeadPlaces
  <2> QED
    BY <1>2, <1>3, <2>1, <2>2, NoSlotMoves DEF StoreAnswer, BuildsInv
<1>5. BuildersListed' /\ NewEnough' /\ QueriesHold'
  <2>1. SoundRequest(r, visitor[r])
    BY <1>1, RequestsAreSound
  <2>2. /\ visitor[r].key \in Versions /\ version \in Int /\ visitor[r].key \in Int
        /\ visitor[r].content \in Int
    BY <1>1, LimitsAssumption DEF Visits, Versions, NoAnswer, BuildsInv, BuildsTyped
  <2>5. version = visitor[r].key => visitor[r].content = visitor[r].key
    BY <1>1, <2>1, <2>2 DEF SoundRequest, NewRequest
  <2>3. SoundRequest(r, y)
    BY <1>1, <1>2, <2>1, <2>2, <2>5 DEF StoreAnswer, SoundRequest, NewRequest, LeadPlaces
  <2>4. \A v \in Versions : answer'[v] \in {NoAnswer, v}
    BY <2>2, <2>5 DEF StoreAnswer, BuildsInv, BuildsTyped, NewEnough
  <2> QED
    BY <1>2, <2>3, <2>4, SoundKept DEF StoreAnswer
<1> QED
  BY <1>3, <1>4, <1>5 DEF BuildsInv

LEMMA LeadBuildKeeps ==
  ASSUME BuildsInv, NEW r \in Visitors, LeadBuild(r)
  PROVE  BuildsInv'
<1>1. visitor[r] \in Visits /\ visitor[r].at = "begin"
  BY TheyAreVisits DEF LeadBuild, IsAt, Places, BuildsInv
<1>2. PICK y \in Visits :
        /\ visitor' = [visitor EXCEPT ![r] = y]
        /\ y.at = "build" /\ y.key = visitor[r].key /\ y.start = visitor[r].start
        /\ y.waits = visitor[r].waits /\ y.over = visitor[r].over
        /\ y.content = visitor[r].content
  BY <1>1, GoesThere DEF LeadBuild, BuildsInv, Places
<1>3. BuildsTyped'
  BY <1>2, Became DEF LeadBuild, BuildsInv, BuildsTyped, Takes, Semaphores, Visits
<1>4. SlotsCounted' /\ WithinLimits'
  <2>1. visitor'[r] = y /\ Waits(r) = visitor[r].waits /\ Waits(r)' = y.waits
    BY <1>1, <1>2, Became, RequestIsThere DEF Waits, BuildsInv
  <2>2. slots \in [Semaphores -> Int] /\ panelQueries \in Nat /\ visitor[r].waits \in Nat
    BY <1>1, RequestIsThere DEF BuildsInv, BuildsTyped
  <2>3. SlotsFollow(r)
    BY <1>1, <1>2, <2>1, <2>2
    DEF LeadBuild, SlotsFollow, In, LeadPlaces, Semaphores, Takes, HasRoom
  <2>4. SlotsGuarded
    BY <1>1, <2>2 DEF LeadBuild, SlotsGuarded, Semaphores, Takes, HasRoom
  <2> QED
    BY <1>2, <1>3, <2>3, <2>4, SlotsMoved
<1>5. BuildersListed'
  <2>1. visitor'[r] = y /\ \A q \in Visitors \ {r} : visitor'[q] = visitor[q]
    BY <1>2, Became DEF BuildsInv
  <2>2. y.key \in Versions /\ builder \in [Versions -> Visitors \cup {NoVisitor}]
    BY DEF Visits, BuildsInv, BuildsTyped
  <2>3. builder[y.key] = NoVisitor /\ builder' = [builder EXCEPT ![y.key] = r]
    BY <1>2 DEF LeadBuild
  <2>4. \A q \in Visitors \ {r} : visitor[q].at \in LeadPlaces => builder'[visitor[q].key] = q
    <3> SUFFICES ASSUME NEW q \in Visitors \ {r}, visitor[q].at \in LeadPlaces
                 PROVE  builder'[visitor[q].key] = q
      OBVIOUS
    <3>1. builder[visitor[q].key] = q
      BY DEF BuildsInv, BuildersListed
    <3>2. visitor[q].key # y.key
      BY <2>3, <3>1, VisitorsAssumption
    <3> QED
      BY <2>2, <2>3, <3>1, <3>2
  <2>5. \A q \in Visitors \ {r} : visitor[q].at \in {"queue", "wait"} =>
          visitor[q].over \/ builder'[visitor[q].key] # NoVisitor
    <3> SUFFICES ASSUME NEW q \in Visitors \ {r}, visitor[q].at \in {"queue", "wait"},
                        ~visitor[q].over
                 PROVE  builder'[visitor[q].key] # NoVisitor
      OBVIOUS
    <3>1. builder[visitor[q].key] # NoVisitor
      BY DEF BuildsInv, BuildersListed
    <3> QED
      BY <2>2, <2>3, <3>1, VisitorsAssumption
  <2>6. builder'[y.key] = r
    BY <2>2, <2>3
  <2> QED
    BY <1>2, <2>1, <2>4, <2>5, <2>6 DEF BuildersListed
<1>6. NewEnough' /\ QueriesHold'
  <2>1. NewRequest(y) /\ y.at = "build"
    BY <1>1, <1>2, RequestsAreSound DEF SoundRequest, NewRequest
  <2>2. \A v \in Versions : answer'[v] \in {NoAnswer, v}
    BY DEF LeadBuild, BuildsInv, NewEnough
  <2> QED
    BY <1>2, <2>1, <2>2, NewKept, QueriesKept DEF LeadBuild, BuildsInv
<1> QED
  BY <1>3, <1>4, <1>5, <1>6 DEF BuildsInv

LEMMA LeaveKeeps ==
  ASSUME BuildsInv, NEW r \in Visitors, Leave(r)
  PROVE  BuildsInv'
<1>1. visitor[r] \in Visits /\ visitor[r].at \in {"served", "leave"}
  BY TheyAreVisits DEF Leave, Places, BuildsInv
<1>2. PICK y \in {Away} : visitor' = [visitor EXCEPT ![r] = y]
  BY DEF Leave
<1>3. y = Away /\ y.at = "away"
  BY DEF Away
<1>4. /\ visitor'[r] = y /\ Waits(r) = visitor[r].waits /\ Waits(r)' = 0 /\ OthersStay(r)
      /\ visitor' \in [Visitors -> {Away} \cup Visits]
  BY <1>1, <1>2, Became, RequestIsThere DEF Waits, BuildsInv, OthersStay
<1>5. slots \in [Semaphores -> Int] /\ panelQueries \in Nat /\ visitor[r].waits \in Nat
  BY <1>1, RequestIsThere DEF BuildsInv, BuildsTyped
<1>6. /\ slots' = [slots EXCEPT !["wait"] = slots["wait"] - visitor[r].waits]
      /\ panelQueries' = panelQueries
  BY DEF Leave
<1>7. BuildsTyped'
  BY <1>4, <1>5, <1>6 DEF Leave, BuildsInv, BuildsTyped, Semaphores
<1>8. SlotsFollow(r)
  BY <1>1, <1>3, <1>4, <1>5, <1>6 DEF SlotsFollow, In, LeadPlaces, Semaphores
<1>9. SlotsGuarded
  BY <1>5, <1>6 DEF SlotsGuarded, Semaphores
<1>10. SlotsCounted' /\ WithinLimits'
  BY <1>4, <1>7, <1>8, <1>9, SlotsKept, LimitsKept DEF BuildsInv
<1>11. BuildersListed' /\ QueriesHold'
  BY <1>2, <1>3, BuildersKept, QueriesKept DEF Leave, BuildsInv, LeadPlaces
<1>12. NewEnough'
  <2>1. \A v \in Versions : answer'[v] \in {NoAnswer, v}
    BY DEF Leave, BuildsInv, NewEnough
  <2> QED
    BY <1>2, <1>3, <2>1, NewKept DEF Leave, BuildsInv
<1> QED
  BY <1>7, <1>10, <1>11, <1>12 DEF BuildsInv

LEMMA ArriveKeeps ==
  ASSUME BuildsInv, NEW r \in Visitors, Arrive(r)
  PROVE  BuildsInv'
<1>1. visitor[r] = Away /\ visitor[r].at = "away"
  BY DEF Arrive, Away
<1>2. version \in Versions /\ version \in Int
  BY LimitsAssumption DEF BuildsInv, BuildsTyped, Versions
<1>3. PICK y \in Visits :
        /\ visitor' = [visitor EXCEPT ![r] = y]
        /\ y.at = "look" /\ y.start = version /\ y.key = version /\ y.waits = 0
  <2> DEFINE y == [at |-> "look", start |-> version, key |-> version, waits |-> 0,
                   over |-> FALSE, content |-> NoAnswer]
  <2>1. y \in Visits
    BY <1>2 DEF Visits, Places
  <2>2. visitor' = [visitor EXCEPT ![r] = y]
    BY DEF Arrive
  <2>3. y.at = "look" /\ y.start = version /\ y.key = version /\ y.waits = 0
    OBVIOUS
  <2> HIDE DEF y
  <2> QED
    BY <2>1, <2>2, <2>3
<1>4. BuildsTyped'
  BY <1>3, Became DEF Arrive, BuildsInv, BuildsTyped
<1>5. SlotsCounted' /\ WithinLimits'
  <2>1. Waits(r)' = Waits(r)
    BY <1>1, <1>3, Became, RequestIsThere DEF Waits, BuildsInv
  <2>2. Alike(visitor[r].at, y.at)
    BY <1>1, <1>3 DEF Alike, LeadPlaces
  <2> QED
    BY <1>3, <1>4, <2>1, <2>2, NoSlotMoves DEF Arrive, BuildsInv
<1>6. BuildersListed' /\ NewEnough' /\ QueriesHold'
  <2>1. SoundRequest(r, y)
    BY <1>2, <1>3 DEF SoundRequest, NewRequest, LeadPlaces
  <2>2. \A v \in Versions : answer'[v] \in {NoAnswer, v}
    BY DEF Arrive, BuildsInv, NewEnough
  <2> QED
    BY <1>3, <2>1, <2>2, SoundKept DEF Arrive
<1> QED
  BY <1>4, <1>5, <1>6 DEF BuildsInv

\* The end of a build changes nothing of the others but that it is over for them.
Waiting(q, key) == visitor[q].at \in {"queue", "wait"} /\ visitor[q].key = key
SameButOver(q) ==
  /\ visitor'[q] \in {Away} \cup Visits
  /\ visitor'[q] = Away <=> visitor[q] = Away
  /\ visitor'[q].at = visitor[q].at /\ visitor'[q].key = visitor[q].key
  /\ visitor'[q].start = visitor[q].start /\ visitor'[q].waits = visitor[q].waits
  /\ visitor'[q].content = visitor[q].content

LEMMA FinishBuildKeeps ==
  ASSUME BuildsInv, NEW r \in Visitors, FinishBuild(r)
  PROVE  BuildsInv'
<1>1. visitor[r] \in Visits /\ visitor[r].at \in {"built", "finish"}
  BY TheyAreVisits DEF FinishBuild, Places, BuildsInv
<1>2. PICK y \in Visits :
        /\ visitor'[r] = y
        /\ y.at = "leave" /\ y.key = visitor[r].key /\ y.start = visitor[r].start
        /\ y.waits = visitor[r].waits
  <2> DEFINE y == [visitor[r] EXCEPT !.at = "leave"]
  <2>1. y \in Visits
    BY <1>1 DEF Visits, Places
  <2>2. visitor'[r] = y
    BY DEF FinishBuild
  <2>3. /\ y.at = "leave" /\ y.key = visitor[r].key /\ y.start = visitor[r].start
        /\ y.waits = visitor[r].waits
    BY <1>1 DEF Visits
  <2> HIDE DEF y
  <2> QED
    BY <2>1, <2>2, <2>3
<1>3. \A q \in Visitors \ {r} :
        /\ SameButOver(q)
        /\ IF Waiting(q, visitor[r].key) THEN visitor'[q].over = TRUE
           ELSE visitor'[q] = visitor[q]
  <2> SUFFICES ASSUME NEW q \in Visitors \ {r}
               PROVE  /\ SameButOver(q)
                      /\ IF Waiting(q, visitor[r].key) THEN visitor'[q].over = TRUE
                         ELSE visitor'[q] = visitor[q]
    OBVIOUS
  <2>1. CASE Waiting(q, visitor[r].key)
    <3>1. visitor[q] \in Visits
      BY <2>1, TheyAreVisits DEF Waiting, Places, BuildsInv
    <3>2. PICK z : z = [visitor[q] EXCEPT !.over = TRUE]
      OBVIOUS
    <3>3. visitor'[q] = z
      BY <2>1, <3>2 DEF FinishBuild, Waiting
    <3>4. z \in Visits /\ z.at = visitor[q].at /\ z.key = visitor[q].key
          /\ z.start = visitor[q].start /\ z.waits = visitor[q].waits
          /\ z.content = visitor[q].content /\ z.over = TRUE
      BY <3>1, <3>2 DEF Visits
    <3> QED
      BY <2>1, <3>1, <3>3, <3>4, RequestIsThere DEF SameButOver
  <2>2. CASE ~Waiting(q, visitor[r].key)
    <3>1. visitor'[q] = visitor[q]
      BY <2>2 DEF FinishBuild, Waiting
    <3>2. visitor[q] \in {Away} \cup Visits
      BY DEF BuildsInv, BuildsTyped
    <3> QED
      BY <2>2, <3>1, <3>2 DEF SameButOver
  <2> QED
    BY <2>1, <2>2
<1>4. /\ slots' = [slots EXCEPT !["build"] = slots["build"] - 1]
      /\ builder' = [builder EXCEPT ![visitor[r].key] = NoVisitor]
      /\ UNCHANGED <<version, purging, answer, panelQueries>>
  BY DEF FinishBuild, Returns
<1>5. slots \in [Semaphores -> Int] /\ panelQueries \in Nat /\ visitor[r].waits \in Nat
  BY <1>1, RequestIsThere DEF BuildsInv, BuildsTyped
<1>6. BuildsTyped'
  <2>1. visitor' \in [Visitors -> {Away} \cup Visits]
    <3>1. visitor' = [q \in Visitors |-> visitor'[q]]
      BY DEF FinishBuild
    <3>2. \A q \in Visitors : visitor'[q] \in {Away} \cup Visits
      BY <1>2, <1>3 DEF SameButOver
    <3> QED
      BY <3>1, <3>2
  <2>2. builder' \in [Versions -> Visitors \cup {NoVisitor}]
    BY <1>4 DEF BuildsInv, BuildsTyped
  <2>3. slots' \in [Semaphores -> Int]
    BY <1>4, <1>5 DEF Semaphores
  <2> QED
    BY <1>4, <2>1, <2>2, <2>3 DEF BuildsInv, BuildsTyped
<1>7. OthersStay(r) /\ Waits(r) = visitor[r].waits /\ Waits(r)' = visitor[r].waits
  BY <1>1, <1>2, <1>3, RequestIsThere DEF OthersStay, SameButOver, Waits
<1>8. SlotsCounted' /\ WithinLimits'
  <2>1. SlotsFollow(r)
    BY <1>1, <1>2, <1>4, <1>5, <1>7 DEF SlotsFollow, In, LeadPlaces, Semaphores
  <2>2. SlotsGuarded
    BY <1>4, <1>5 DEF SlotsGuarded, Semaphores
  <2> QED
    BY <1>6, <1>7, <2>1, <2>2, SlotsKept, LimitsKept DEF BuildsInv
<1>9. BuildersListed'
  <2>1. builder[visitor[r].key] = r /\ visitor[r].key \in Versions
    BY <1>1 DEF BuildsInv, BuildersListed, LeadPlaces, Visits
  <2>2. \A q \in Visitors : visitor'[q].at \in LeadPlaces => builder'[visitor'[q].key] = q
    <3> SUFFICES ASSUME NEW q \in Visitors, visitor'[q].at \in LeadPlaces
                 PROVE  builder'[visitor'[q].key] = q
      OBVIOUS
    <3>1. q # r /\ visitor[q].at \in LeadPlaces /\ visitor'[q].key = visitor[q].key
      BY <1>2, <1>3 DEF LeadPlaces, SameButOver
    <3>2. builder[visitor[q].key] = q
      BY <3>1 DEF BuildsInv, BuildersListed
    <3>3. visitor[q] \in Visits
      BY <3>1, TheyAreVisits DEF LeadPlaces, Places, BuildsInv
    <3>4. visitor[q].key \in Versions /\ visitor[q].key # visitor[r].key
      BY <2>1, <3>1, <3>2, <3>3 DEF Visits
    <3> QED
      BY <1>4, <3>1, <3>2, <3>4 DEF BuildsInv, BuildsTyped
  <2>3. \A q \in Visitors : visitor'[q].at \in {"queue", "wait"} =>
          visitor'[q].over \/ builder'[visitor'[q].key] # NoVisitor
    <3> SUFFICES ASSUME NEW q \in Visitors, visitor'[q].at \in {"queue", "wait"}
                 PROVE  visitor'[q].over \/ builder'[visitor'[q].key] # NoVisitor
      OBVIOUS
    <3>1. q # r /\ visitor[q].at \in {"queue", "wait"}
      BY <1>2, <1>3 DEF SameButOver
    <3>2. CASE Waiting(q, visitor[r].key)
      BY <1>3, <3>1, <3>2
    <3>3. CASE ~Waiting(q, visitor[r].key)
      <4>1. visitor'[q] = visitor[q] /\ visitor[q].key # visitor[r].key
        BY <1>3, <3>1, <3>3 DEF Waiting
      <4>2. visitor[q].over \/ builder[visitor[q].key] # NoVisitor
        BY <3>1 DEF BuildsInv, BuildersListed
      <4>3. visitor[q] \in Visits
        BY <3>1, TheyAreVisits DEF Places, BuildsInv
      <4>4. visitor[q].key \in Versions
        BY <4>3 DEF Visits
      <4> QED
        BY <1>4, <4>1, <4>2, <4>4 DEF BuildsInv, BuildsTyped
    <3> QED
      BY <3>2, <3>3
  <2> QED
    BY <2>2, <2>3 DEF BuildersListed
<1>10. QueriesHold'
  <2> SUFFICES ASSUME NEW q \in Visitors, visitor'[q].at \in {"awaitPublic", "awaitQuery"}
               PROVE  visitor'[q].waits >= 1
    BY DEF QueriesHold
  <2>1. q # r /\ visitor[q].at \in {"awaitPublic", "awaitQuery"}
        /\ visitor'[q].waits = visitor[q].waits
    BY <1>2, <1>3 DEF SameButOver
  <2> QED
    BY <2>1 DEF BuildsInv, QueriesHold
<1>11. NewEnough'
  <2>1. \A v \in Versions : answer'[v] \in {NoAnswer, v}
    BY <1>4 DEF BuildsInv, NewEnough
  <2>2. \A q \in Visitors : visitor'[q] # Away => NewRequest(visitor[q])'
    <3> SUFFICES ASSUME NEW q \in Visitors, visitor'[q] # Away PROVE NewRequest(visitor[q])'
      OBVIOUS
    <3>1. CASE q = r
      <4>1. NewRequest(visitor[r])
        BY <1>1, RequestsAreSound DEF SoundRequest
      <4> QED
        BY <1>2, <1>4, <3>1, <4>1 DEF NewRequest
    <3>2. CASE q # r
      <4>1. SameButOver(q)
        BY <1>3, <3>2
      <4>2. NewRequest(visitor[q])
        BY <4>1 DEF SameButOver, BuildsInv, NewEnough, NewRequest
      <4> QED
        BY <1>4, <4>1, <4>2 DEF NewRequest, SameButOver
    <3> QED
      BY <3>1, <3>2
  <2> QED
    BY <2>1, <2>2 DEF NewEnough, NewRequest
<1> QED
  BY <1>6, <1>8, <1>9, <1>10, <1>11 DEF BuildsInv

-----------------------------------------------------------------------------
(* The steps of the rest of the program *)

LEMMA CountsStay ==
  ASSUME visitor' = visitor
  PROVE  /\ At(LeadPlaces)' = At(LeadPlaces) /\ WaitSlots' = WaitSlots
         /\ At({"awaitQuery", "query"})' = At({"awaitQuery", "query"})
         /\ At({"query"})' = At({"query"})
  BY DEF At, Present, WaitSlots, LeadPlaces

\* What the requests hold and who builds are as they were.
LEMMA RequestsStay ==
  ASSUME BuildsInv, UNCHANGED <<builder, slots, visitor, panelQueries>>
  PROVE  QueriesHold' /\ SlotsCounted' /\ WithinLimits' /\ BuildersListed'
<1>1. SlotsCounted'
  BY CountsStay DEF BuildsInv, SlotsCounted
<1> QED
  BY <1>1 DEF BuildsInv, QueriesHold, WithinLimits, BuildersListed

LEMMA ChangeDashboardKeeps ==
  ASSUME BuildsInv, ChangeDashboard
  PROVE  BuildsInv'
<1>1. /\ version \in Nat /\ version + 1 \in Versions /\ version' = version + 1
      /\ UNCHANGED <<answer, builder, slots, visitor, panelQueries>>
  BY LimitsAssumption DEF ChangeDashboard, BuildsInv, BuildsTyped, Versions
<1>2. BuildsTyped'
  BY <1>1 DEF ChangeDashboard, BuildsInv, BuildsTyped
<1>3. NewEnough'
  <2>1. \A r \in Visitors : visitor[r] # Away => NewRequest(visitor[r])'
    <3> SUFFICES ASSUME NEW r \in Visitors, visitor[r] # Away PROVE NewRequest(visitor[r])'
      OBVIOUS
    <3>1. visitor[r] \in Visits
      BY DEF BuildsInv, BuildsTyped
    <3>2. NewRequest(visitor[r])
      BY <3>1, RequestsAreSound DEF SoundRequest
    <3>3. visitor[r].key \in Int /\ visitor[r].content \in Int
      BY <3>1, LimitsAssumption DEF Visits, Versions, NoAnswer
    <3>4. visitor[r].key <= version => visitor[r].key <= version + 1
      BY <1>1, <3>3
    <3>5. visitor[r].content <= version => visitor[r].content <= version + 1
      BY <1>1, <3>3
    <3> QED
      BY <1>1, <3>2, <3>4, <3>5 DEF NewRequest
  <2> QED
    BY <1>1, <2>1 DEF BuildsInv, NewEnough, NewRequest
<1> QED
  BY <1>1, <1>2, <1>3, RequestsStay DEF BuildsInv

LEMMA AnswersGo ==
  ASSUME BuildsInv, InvalidateDashboard \/ \E v \in Versions : ExpireAnswer(v)
  PROVE  BuildsInv'
<1>1. /\ UNCHANGED <<version, builder, slots, visitor, panelQueries>>
      /\ \A v \in Versions : answer'[v] \in {NoAnswer, v}
      /\ answer' \in [Versions -> Versions \cup {NoAnswer}] /\ purging' \in BOOLEAN
  BY DEF InvalidateDashboard, ExpireAnswer, BuildsInv, BuildsTyped, NewEnough
<1>2. BuildsTyped'
  BY <1>1 DEF BuildsInv, BuildsTyped
<1>3. NewEnough'
  BY <1>1 DEF BuildsInv, NewEnough
<1> QED
  BY <1>1, <1>2, <1>3, RequestsStay DEF BuildsInv

LEMMA PanelQueriesKeep ==
  ASSUME BuildsInv, PanelQuery \/ PanelQueried
  PROVE  BuildsInv'
<1>1. UNCHANGED <<version, purging, answer, builder, visitor>>
  BY DEF PanelQuery, PanelQueried
<1>2. slots \in [Semaphores -> Int] /\ panelQueries \in Nat
  BY DEF BuildsInv, BuildsTyped
<1>3. PICK d \in {1, -1} :
        /\ slots' = [slots EXCEPT !["query"] = slots["query"] + d]
        /\ panelQueries' = panelQueries + d /\ panelQueries + d \in Nat
        /\ d = 1 => slots["query"] < Limits["query"]
  <2>1. CASE PanelQuery
    BY <1>2, <2>1 DEF PanelQuery, Takes, HasRoom
  <2>2. CASE PanelQueried
    <3>1. slots["query"] \in Int
      BY <1>2 DEF Semaphores
    <3>2. slots["query"] - 1 = slots["query"] + (-1) /\ panelQueries - 1 = panelQueries + (-1)
          /\ panelQueries - 1 \in Nat
      BY <1>2, <2>2, <3>1 DEF PanelQueried
    <3>3. /\ slots' = [slots EXCEPT !["query"] = slots["query"] + (-1)]
          /\ panelQueries' = panelQueries + (-1) /\ panelQueries + (-1) \in Nat
      BY <2>2, <3>2 DEF PanelQueried, Returns
    <3>4. ~(-1 = 1)
      OBVIOUS
    <3> QED
      BY <3>3, <3>4
  <2> QED
    BY <2>1, <2>2
<1>4. BuildsTyped'
  BY <1>1, <1>2, <1>3 DEF BuildsInv, BuildsTyped, Semaphores
<1>5. SlotsCounted'
  <2>1. Cardinality(At({"query"})) \in Nat
    <3>1. At({"query"}) \in SUBSET Visitors
      BY DEF At, Present
    <3> QED
      BY <3>1, VisitorsAssumption, FS_Subset, FS_CardinalityType
  <2>2. slots'["query"] = Cardinality(At({"query"})) + panelQueries'
    <3>1. slots["query"] = Cardinality(At({"query"})) + panelQueries
      BY DEF BuildsInv, SlotsCounted
    <3>2. slots'["query"] = slots["query"] + d
      BY <1>2, <1>3 DEF Semaphores
    <3> QED
      BY <1>2, <1>3, <2>1, <3>1, <3>2
  <2>3. slots'["build"] = slots["build"] /\ slots'["public"] = slots["public"]
        /\ slots'["wait"] = slots["wait"]
    BY <1>2, <1>3 DEF Semaphores
  <2> QED
    BY <1>1, <2>2, <2>3, CountsStay DEF BuildsInv, SlotsCounted
<1>6. WithinLimits'
  <2>1. SlotsGuarded
    BY <1>2, <1>3 DEF SlotsGuarded, Semaphores
  <2> QED
    BY <1>4, <2>1, LimitsKept DEF BuildsInv
<1>7. BuildersListed' /\ QueriesHold' /\ NewEnough'
  BY <1>1 DEF BuildsInv, BuildersListed, QueriesHold, NewEnough
<1> QED
  BY <1>4, <1>5, <1>6, <1>7 DEF BuildsInv

-----------------------------------------------------------------------------
(* The theorem *)

LEMMA BuildsInvInit == BuildsInit => BuildsInv
<1> SUFFICES ASSUME BuildsInit PROVE BuildsInv
  OBVIOUS
<1>1. BuildsTyped
  BY BuildsTypedInit
<1>2. \A r \in Visitors : visitor[r] = Away /\ visitor[r].at = "away"
  BY DEF BuildsInit, Away
<1>3. Present = {}
  BY <1>2 DEF Present
<1>4. /\ At(LeadPlaces) = {} /\ At({"awaitQuery", "query"}) = {} /\ At({"query"}) = {}
      /\ WaitSlots = {}
  BY <1>3 DEF At, WaitSlots
<1>5. IsFiniteSet({}) /\ Cardinality({}) = 0
  BY FS_EmptySet
<1>6. \A s \in Semaphores : slots[s] = 0
  BY DEF BuildsInit
<1>7. SlotsCounted
  BY <1>4, <1>5, <1>6 DEF SlotsCounted, BuildsInit, Semaphores
<1>8. WithinLimits
  BY <1>6, LimitsAssumption DEF WithinLimits
<1>9. BuildersListed /\ QueriesHold /\ NewEnough
  BY <1>2 DEF BuildsInit, BuildersListed, QueriesHold, NewEnough, LeadPlaces
<1> QED
  BY <1>1, <1>7, <1>8, <1>9 DEF BuildsInv

LEMMA BuildsInvStep == BuildsInv /\ [BuildsNext]_buildVars => BuildsInv'
<1> SUFFICES ASSUME BuildsInv, [BuildsNext]_buildVars PROVE BuildsInv'
  OBVIOUS
<1>1. ASSUME NEW r \in Visitors, Arrive(r) PROVE BuildsInv'
  BY <1>1, ArriveKeeps
<1>2. ASSUME NEW r \in Visitors, VisitorSteps(r) PROVE BuildsInv'
  <2>1. CASE LookUp(r) \/ FollowBuild(r) \/ LeadBuild(r) \/ RefuseBuild(r)
    BY <2>1, LookUpKeeps, FollowBuildKeeps, LeadBuildKeeps, RefuseBuildKeeps
  <2>2. CASE QueueForBuild(r) \/ Resume(r) \/ WaitTimesOut(r) \/ Leave(r)
    BY <2>2, QueueForBuildKeeps, ResumeKeeps, WaitTimesOutKeeps, LeaveKeeps
  <2>3. CASE ReadContent(r) \/ BuildFails(r) \/ AskForQuery(r) \/ AcquirePublic(r)
    BY <2>3, ReadContentKeeps, BuildFailsKeeps, AskForQueryKeeps, AcquirePublicKeeps
  <2>4. CASE AcquireQuery(r) \/ AcquireTimesOut(r) \/ Queried(r)
    BY <2>4, AcquireQueryKeeps, AcquireTimesOutKeeps, QueriedKeeps
  <2>5. CASE StoreAnswer(r) \/ FinishBuild(r)
    BY <2>5, StoreAnswerKeeps, FinishBuildKeeps
  <2> QED
    BY <1>2, <2>1, <2>2, <2>3, <2>4, <2>5 DEF VisitorSteps
<1>3. CASE ChangeDashboard
  BY <1>3, ChangeDashboardKeeps
<1>4. CASE InvalidateDashboard \/ \E v \in Versions : ExpireAnswer(v)
  BY <1>4, AnswersGo
<1>5. CASE PanelQuery \/ PanelQueried
  BY <1>5, PanelQueriesKeep
<1>6. CASE UNCHANGED buildVars
  <2>1. UNCHANGED <<version, purging, answer, builder, slots, visitor, panelQueries>>
    BY <1>6 DEF buildVars
  <2>2. BuildsTyped' /\ NewEnough'
    BY <2>1 DEF BuildsInv, BuildsTyped, NewEnough
  <2> QED
    BY <2>1, <2>2, RequestsStay DEF BuildsInv
<1> QED
  BY <1>1, <1>2, <1>3, <1>4, <1>5, <1>6 DEF BuildsNext

LEMMA InvIsSound == BuildsInv => BuildsAreSound
<1> SUFFICES ASSUME BuildsInv PROVE BuildsAreSound
  OBVIOUS
<1>1. Leading = At(LeadPlaces)
  BY DEF Leading, LeadPlaces
<1>2. \A r \in Present : visitor[r] \in Visits /\ r \in Visitors
  BY DEF Present, BuildsInv, BuildsTyped
<1>3. \A s \in Semaphores : slots[s] \in 0..Limits[s]
  <2>1. \A places : IsFiniteSet(At(places)) /\ Cardinality(At(places)) \in Nat
    <3> SUFFICES ASSUME NEW places
                 PROVE  IsFiniteSet(At(places)) /\ Cardinality(At(places)) \in Nat
      OBVIOUS
    <3>1. At(places) \in SUBSET Visitors
      BY DEF At, Present
    <3> QED
      BY <3>1, VisitorsAssumption, FS_Subset, FS_CardinalityType
  <2>2. slots["build"] \in Nat /\ slots["public"] \in Nat
    BY <2>1 DEF BuildsInv, SlotsCounted
  <2>3. slots["query"] \in Nat
    <3>1. slots["query"] = Cardinality(At({"query"})) + panelQueries /\ panelQueries \in Nat
      BY DEF BuildsInv, SlotsCounted, BuildsTyped
    <3>2. Cardinality(At({"query"})) \in Nat
      BY <2>1
    <3> QED
      BY <3>1, <3>2
  <2>4. slots["wait"] \in Nat
    BY FS_CardinalityType DEF BuildsInv, SlotsCounted
  <2>5. \A s \in Semaphores : slots[s] \in Nat
    BY <2>2, <2>3, <2>4 DEF Semaphores
  <2> QED
    BY <2>5, LimitsAssumption DEF BuildsInv, WithinLimits
<1>4. SlotsAddUp
  <2>1. \A r \in Leading : builder[visitor[r].key] = r
    BY <1>1, <1>2 DEF At, BuildsInv, BuildersListed
  <2>2. \A r \in At({"queue", "wait"}) : visitor[r].over \/ builder[visitor[r].key] # NoVisitor
    BY <1>2 DEF At, BuildsInv, BuildersListed
  <2> QED
    BY <1>1, <1>3, <2>1, <2>2 DEF SlotsAddUp, BuildsInv, SlotsCounted
<1>5. AnswersAreCurrent
  <2>1. \A r \in At({"served", "built"}) : visitor[r].content >= visitor[r].start
    <3> SUFFICES ASSUME NEW r \in At({"served", "built"})
                 PROVE  visitor[r].content >= visitor[r].start
      OBVIOUS
    <3>1. visitor[r] \in Visits /\ r \in Visitors /\ visitor[r].at \in {"served", "built"}
      BY <1>2 DEF At
    <3>2. NewRequest(visitor[r])
      BY <3>1, RequestsAreSound DEF SoundRequest
    <3>3. visitor[r].start \in Int /\ visitor[r].key \in Int
      BY <3>1, LimitsAssumption DEF Visits, Versions
    <3> QED
      BY <3>1, <3>2, <3>3 DEF NewRequest
  <2> QED
    BY <2>1 DEF AnswersAreCurrent, BuildsInv, NewEnough
<1> QED
  BY <1>4, <1>5 DEF BuildsAreSound

\* Whatever fails, is refused or runs out of time, each slot taken has its holder and none is
\* taken beyond its limit, nobody waits for a build that nobody makes, and nobody is served
\* content older than the rules the request began with (BeginBuild, acquireTSDB and the
\* version in the key of the response caches).
THEOREM BuildsStaySound == BuildsSpec => []BuildsAreSound
<1>1. BuildsInit => BuildsInv
  BY BuildsInvInit
<1>2. BuildsInv /\ [BuildsNext]_buildVars => BuildsInv'
  BY BuildsInvStep
<1>3. BuildsInv => BuildsAreSound
  BY InvIsSound
<1> QED
  BY <1>1, <1>2, <1>3, PTL DEF BuildsSpec

-----------------------------------------------------------------------------
(***************************************************************************)
(* No channel of a request is used after it was closed, and no answer is   *)
(* ingested twice, for any ids and any capacity of the handler's channel.  *)
(*                                                                         *)
(* An id is in the hub's list, with a channel that is still open, until    *)
(* the first of the sweep, the answer, the caller and the closes takes it  *)
(* out: whoever finds it there is alone with its channel.  The answer to a *)
(* GetData goes through one of the reader's hands, the feed and the store  *)
(* at a time, and an id that is still in the list has not got there.       *)
(***************************************************************************)

HubTypesOK ==
  /\ tracked \subseteq Ids
  /\ channel \in [Ids -> {"none", "open", "answered", "failed", "closed"}]
  /\ caller \in [Ids -> {"idle", "tracked", "waiting", "sent", "answered", "refused",
                         "returned", "succeeded"}]
  /\ misused \in BOOLEAN
  /\ reader \in [at : {"receive", "route", "hand over", "closing", "done"},
                 id : Ids \cup {NoId}, failed : BOOLEAN]
  /\ feed \in Seq(Polls)
  /\ ingested \in [Ids -> Nat]

InHand(i)    == reader.at = "hand over" /\ reader.id = i
InFeed(i)    == \E k \in DOMAIN feed : feed[k] = i
\* The answer has not come further than the list of requests.
Unused(i)    == ~InHand(i) /\ ~InFeed(i) /\ ingested[i] = 0

TrackedAreOpen == \A i \in tracked : channel[i] = "open"
RoutesKnown    == reader.at \in {"route", "hand over"} => reader.id \in Ids
FreshUnused    == \A i \in Ids : caller[i] = "idle" => i \notin tracked
TrackedUnused  == \A i \in Ids : i \in tracked \/ caller[i] = "idle" => Unused(i)
PollsInHand    == reader.at = "hand over" => reader.id \in Polls
HandFirst      == \A i \in Ids : InHand(i) => ~InFeed(i) /\ ingested[i] = 0
FeedFirst      == \A i \in Ids : InFeed(i) => ingested[i] = 0
FeedOnce       == \A k, m \in DOMAIN feed : feed[k] = feed[m] => k = m
IngestOnce     == \A i \in Ids : ingested[i] <= 1 /\ (i \in Awaited => ingested[i] = 0)

\* What an answer goes through, from the reader to the store.
UsesInv == HandFirst /\ FeedFirst /\ FeedOnce /\ IngestOnce

HubInv == /\ HubTypesOK /\ ~misused
          /\ TrackedAreOpen /\ FreshUnused /\ TrackedUnused
          /\ RoutesKnown /\ PollsInHand
          /\ UsesInv

USE DEF HubTypesOK

LEMMA NoRequestsInv ==
  ASSUME NoRequests, reader \in [at : {"receive", "done"}, id : {NoId}, failed : BOOLEAN]
  PROVE  HubInv
<1> USE DEF NoRequests
<1>1. <<>> \in Seq(Polls) /\ DOMAIN <<>> = {}
  OBVIOUS
<1>2. HubTypesOK /\ ~misused
  BY <1>1
<1>3. \A i \in Ids : Unused(i)
  BY <1>1 DEF Unused, InHand, InFeed
<1>4. UsesInv
  BY <1>1, <1>3 DEF UsesInv, HandFirst, FeedFirst, FeedOnce, IngestOnce, Unused, InFeed
<1>5. TrackedAreOpen /\ FreshUnused /\ TrackedUnused /\ RoutesKnown /\ PollsInHand
  BY <1>3 DEF TrackedAreOpen, FreshUnused, TrackedUnused, RoutesKnown, PollsInHand
<1> QED
  BY <1>2, <1>4, <1>5 DEF HubInv

LEMMA HubInvInit == HubInit => HubInv
  BY NoRequestsInv DEF HubInit, Receiving

(***************************************************************************)
(* A step that moves nothing from the reader's hands to the store leaves   *)
(* alone how often each answer was used.                                   *)
(***************************************************************************)
LEMMA UsesKept ==
  ASSUME HubInv, UNCHANGED <<feed, ingested>>, \A i : InHand(i)' => InHand(i)
  PROVE  UsesInv' /\ \A i \in Ids : Unused(i) => Unused(i)'
  BY DEF HubInv, UsesInv, HandFirst, FeedFirst, FeedOnce, IngestOnce, Unused, InHand, InFeed

LEMMA TrackKeeps ==
  ASSUME HubInv, NEW i \in Ids, Track(i)
  PROVE  HubInv'
<1> USE DEF Track, Calls
<1>1. PICK stale \in SUBSET tracked :
        /\ tracked' = (tracked \ stale) \cup {i}
        /\ channel' = [j \in Ids |-> IF j = i THEN "open"
                                     ELSE IF j \in stale THEN "closed" ELSE channel[j]]
        /\ misused' = (misused \/ \E j \in stale : channel[j] # "open")
  OBVIOUS
<1>2. UsesInv' /\ \A j \in Ids : Unused(j) => Unused(j)'
  BY UsesKept DEF InHand
<1>3. HubTypesOK'
  BY <1>1 DEF HubInv
<1>4. ~misused' /\ TrackedAreOpen'
  BY <1>1 DEF HubInv, TrackedAreOpen
<1>5. FreshUnused' /\ TrackedUnused'
  BY <1>1, <1>2 DEF HubInv, FreshUnused, TrackedUnused
<1>6. RoutesKnown' /\ PollsInHand'
  BY DEF HubInv, RoutesKnown, PollsInHand
<1> QED
  BY <1>2, <1>3, <1>4, <1>5, <1>6 DEF HubInv

LEMMA CallerKeeps ==
  ASSUME HubInv, NEW i \in Ids, SendRequest(i) \/ Select(i) \/ Forget(i)
  PROVE  HubInv'
<1> USE DEF SendRequest, Select, Forget, Calls
<1>1. /\ UNCHANGED <<channel, misused, reader, feed, ingested>>
      /\ tracked' \subseteq tracked
      /\ caller[i] # "idle" /\ caller'[i] # "idle"
      /\ \A j \in Ids \ {i} : caller'[j] = caller[j]
  BY DEF HubInv
<1>2. UsesInv' /\ \A j \in Ids : Unused(j) => Unused(j)'
  BY <1>1, UsesKept DEF InHand
<1>3. HubTypesOK'
  BY <1>1 DEF HubInv
<1>4. ~misused' /\ TrackedAreOpen' /\ FreshUnused' /\ TrackedUnused'
  BY <1>1, <1>2 DEF HubInv, TrackedAreOpen, FreshUnused, TrackedUnused
<1>5. RoutesKnown' /\ PollsInHand'
  BY <1>1 DEF HubInv, RoutesKnown, PollsInHand
<1> QED
  BY <1>2, <1>3, <1>4, <1>5 DEF HubInv

(***************************************************************************)
(* A step of the reader, the handler or a close that only takes out of the *)
(* list, and hands nothing over.                                           *)
(***************************************************************************)
LEMMA QuietKeeps ==
  ASSUME HubInv, HubTypesOK', ~misused',
         UNCHANGED <<caller, feed, ingested>>,
         tracked' \subseteq tracked, \A i \in tracked' : channel'[i] = channel[i],
         RoutesKnown', reader'.at = "hand over" => reader' = reader
  PROVE  HubInv'
<1>1. UsesInv' /\ \A i \in Ids : Unused(i) => Unused(i)'
  BY UsesKept DEF InHand
<1>2. TrackedAreOpen' /\ FreshUnused' /\ TrackedUnused'
  BY <1>1 DEF HubInv, TrackedAreOpen, FreshUnused, TrackedUnused
<1>3. PollsInHand'
  BY DEF HubInv, PollsInHand
<1> QED
  BY <1>1, <1>2, <1>3 DEF HubInv

LEMMA RouteKeeps ==
  ASSUME HubInv, Route
  PROVE  HubInv'
<1> USE DEF Route, Receiving
<1> DEFINE i == reader.id
<1>1. i \in Ids
  BY DEF HubInv, RoutesKnown
<1>2. PICK inTime \in BOOLEAN, handedOn \in BOOLEAN :
        /\ inTime => i \in tracked
        /\ handedOn => inTime /\ i \in Polls /\ ~reader.failed
        /\ tracked' = tracked \ {i}
        /\ channel' = IF inTime THEN [channel EXCEPT ![i] = IF reader.failed THEN "failed"
                                                            ELSE "answered"]
                      ELSE channel
        /\ misused' = (misused \/ (inTime /\ channel[i] # "open"))
        /\ reader' = IF handedOn THEN [reader EXCEPT !.at = "hand over"] ELSE Receiving
  OBVIOUS
<1>3. HubTypesOK' /\ ~misused'
  BY <1>1, <1>2 DEF HubInv, TrackedAreOpen
<1>4. \A j \in tracked' : channel'[j] = channel[j]
  BY <1>2 DEF HubInv
<1>5. CASE ~handedOn
  BY <1>2, <1>3, <1>4, <1>5, QuietKeeps DEF RoutesKnown
<1>6. CASE handedOn
  <2>1. /\ reader'.at = "hand over" /\ reader'.id = i /\ i \in Polls
        /\ i \in tracked /\ Unused(i) /\ caller[i] # "idle"
    BY <1>1, <1>2, <1>6 DEF HubInv, TrackedUnused, FreshUnused
  <2>2. \A j \in Ids \ {i} : Unused(j) => Unused(j)'
    BY <2>1 DEF Unused, InHand, InFeed
  <2>3. UsesInv'
    BY <2>1 DEF HubInv, UsesInv, HandFirst, FeedFirst, FeedOnce, IngestOnce, Unused, InHand,
                InFeed
  <2>4. TrackedAreOpen' /\ FreshUnused' /\ TrackedUnused'
    BY <1>2, <1>4, <2>1, <2>2 DEF HubInv, TrackedAreOpen, FreshUnused, TrackedUnused
  <2>5. RoutesKnown' /\ PollsInHand'
    BY <1>1, <2>1 DEF RoutesKnown, PollsInHand
  <2> QED
    BY <1>3, <2>3, <2>4, <2>5 DEF HubInv
<1> QED
  BY <1>5, <1>6

LEMMA HandOverKeeps ==
  ASSUME HubInv, HandOver
  PROVE  HubInv'
<1> USE DEF HandOver, Receiving
<1>1. CASE reader' = [Receiving EXCEPT !.at = "closing"] /\ UNCHANGED feed
  <2>1. HubTypesOK' /\ RoutesKnown' /\ ~misused'
    BY <1>1 DEF HubInv, RoutesKnown
  <2>2. reader'.at # "hand over"
    BY <1>1
  <2> QED
    BY <1>1, <2>1, <2>2, QuietKeeps DEF HubInv
<1>2. CASE feed' = Append(feed, reader.id) /\ reader' = Receiving
  <2> DEFINE i == reader.id
  <2>1. /\ i \in Ids /\ i \in Polls /\ InHand(i) /\ ~InFeed(i) /\ ingested[i] = 0
        /\ i \notin tracked /\ caller[i] # "idle"
    BY DEF HubInv, UsesInv, RoutesKnown, PollsInHand, HandFirst, InHand, TrackedUnused, Unused
  <2>2. /\ feed' \in Seq(Polls) /\ Len(feed') = Len(feed) + 1 /\ feed'[Len(feed) + 1] = i
        /\ \A k \in 1 .. Len(feed) : feed'[k] = feed[k]
        /\ DOMAIN feed = 1 .. Len(feed) /\ DOMAIN feed' = 1 .. (Len(feed) + 1)
        /\ Len(feed) \in Nat
    <3>1. feed \in Seq(Polls)
      BY DEF HubInv
    <3> HIDE DEF HandOver
    <3> QED
      BY <1>2, <2>1, <3>1
  <2>3. DOMAIN feed' = DOMAIN feed \cup {Len(feed) + 1}
    <3> SUFFICES ASSUME NEW k PROVE k \in 1 .. (Len(feed) + 1)
                                     <=> k \in 1 .. Len(feed) \/ k = Len(feed) + 1
      BY <2>2
    <3> HIDE DEF HandOver
    <3> QED
      BY <2>2
  <2>4. \A j : InFeed(j)' <=> InFeed(j) \/ j = i
    BY <2>2, <2>3 DEF InFeed
  <2>5. HubTypesOK' /\ ~misused'
    BY <1>2, <2>2 DEF HubInv
  <2>6. \A j : ~InHand(j)'
    BY <1>2 DEF InHand
  <2>7. FeedOnce'
    <3>2. \A k \in DOMAIN feed : feed'[k] = feed[k] /\ feed[k] # i
      BY <2>1, <2>2 DEF InFeed
    <3> QED
      BY <2>2, <2>3, <3>2 DEF HubInv, UsesInv, FeedOnce
  <2>8. UsesInv'
    BY <2>1, <2>4, <2>6, <2>7 DEF HubInv, UsesInv, HandFirst, FeedFirst, IngestOnce
  <2>9. TrackedAreOpen' /\ FreshUnused' /\ TrackedUnused'
    BY <2>1, <2>4, <2>6 DEF HubInv, TrackedAreOpen, FreshUnused, TrackedUnused, Unused
  <2>10. RoutesKnown' /\ PollsInHand'
    BY <1>2 DEF RoutesKnown, PollsInHand
  <2> QED
    BY <2>5, <2>8, <2>9, <2>10 DEF HubInv
<1> QED
  BY <1>1, <1>2

LEMMA IngestKeeps ==
  ASSUME HubInv, Ingest
  PROVE  HubInv'
<1> USE DEF Ingest
<1> DEFINE i == Head(feed)
<1>1. /\ i \in Polls /\ i \in Ids /\ feed[1] = i /\ 1 \in DOMAIN feed
      /\ feed' \in Seq(Polls)
      /\ \A k \in DOMAIN feed' : k + 1 \in DOMAIN feed /\ feed'[k] = feed[k + 1]
      /\ \A k \in DOMAIN feed' : k \in Nat /\ k >= 1
  <2>1. feed \in Seq(Polls) /\ feed # <<>> /\ feed' = Tail(feed)
    BY DEF HubInv
  <2> HIDE DEF Ingest
  <2> QED
    BY <2>1 DEF Ids
<1>2. InFeed(i) /\ ingested[i] = 0
  BY <1>1 DEF HubInv, UsesInv, FeedFirst, InFeed
<1>3. i \notin tracked /\ caller[i] # "idle" /\ ~InHand(i)
  BY <1>1, <1>2 DEF HubInv, UsesInv, TrackedUnused, Unused, HandFirst
<1>4. \A k \in DOMAIN feed' : feed'[k] # i
  <2> SUFFICES ASSUME NEW k \in DOMAIN feed', feed'[k] = i PROVE FALSE
    OBVIOUS
  <2>1. k + 1 = 1
    BY <1>1 DEF HubInv, UsesInv, FeedOnce
  <2> QED
    BY <1>1, <2>1
<1>5. \A j : InFeed(j)' => InFeed(j) /\ j # i
  BY <1>1, <1>4 DEF InFeed
<1>6. /\ ingested' \in [Ids -> Nat] /\ ingested'[i] = 1
      /\ \A j \in Ids \ {i} : ingested'[j] = ingested[j]
  <2>1. ingested \in [Ids -> Nat] /\ ingested' = [ingested EXCEPT ![i] = @ + 1]
    BY DEF HubInv
  <2> HIDE DEF Ingest, i
  <2> QED
    BY <1>1, <1>2, <2>1
<1>7. HubTypesOK' /\ ~misused'
  BY <1>1, <1>6 DEF HubInv
<1>8. FeedOnce'
  <2> SUFFICES ASSUME NEW k \in DOMAIN feed', NEW m \in DOMAIN feed', feed'[k] = feed'[m]
               PROVE  k = m
    BY DEF FeedOnce
  <2>1. /\ k + 1 \in DOMAIN feed /\ m + 1 \in DOMAIN feed /\ feed[k + 1] = feed[m + 1]
        /\ FeedOnce
    BY <1>1 DEF HubInv, UsesInv
  <2>2. k + 1 = m + 1
    BY <2>1 DEF FeedOnce
  <2> QED
    BY <1>1, <2>2
<1>9. \A j : InHand(j)' <=> InHand(j)
  BY DEF InHand
<1>10. HandFirst' /\ FeedFirst'
  BY <1>3, <1>5, <1>6, <1>9 DEF HubInv, UsesInv, HandFirst, FeedFirst
<1>11. IngestOnce'
  <2>1. i \notin Awaited
    BY <1>1, AwaitedNotPolled
  <2>2. IngestOnce
    BY DEF HubInv, UsesInv
  <2> HIDE DEF Ingest, i
  <2> QED
    BY <1>6, <2>1, <2>2 DEF IngestOnce
<1>12. TrackedAreOpen' /\ FreshUnused' /\ RoutesKnown' /\ PollsInHand'
  BY DEF HubInv, TrackedAreOpen, FreshUnused, RoutesKnown, PollsInHand
<1>13. TrackedUnused'
  BY <1>3, <1>5, <1>6, <1>9 DEF HubInv, TrackedUnused, Unused
<1> QED
  BY <1>7, <1>8, <1>10, <1>11, <1>12, <1>13 DEF HubInv, UsesInv

LEMMA CloseKeeps ==
  ASSUME HubInv, NEW c \in Closers, CancelPending(c) \/ HangUp(c)
  PROVE  HubInv'
<1> USE DEF CancelPending, HangUp, ClosesChannels, Receiving
<1>1. /\ UNCHANGED <<caller, feed, ingested>>
      /\ tracked' \subseteq tracked /\ \A i \in tracked' : channel'[i] = channel[i]
      /\ reader' = reader \/ reader' = [at |-> "done", id |-> NoId, failed |-> FALSE]
  OBVIOUS
<1>2. ~misused' /\ channel' \in [Ids -> {"none", "open", "answered", "failed", "closed"}]
  <2>1. CASE CancelPending(c)
    <3>1. /\ channel' = [i \in Ids |-> IF i \in tracked THEN "closed" ELSE channel[i]]
          /\ misused' = (misused \/ \E i \in tracked : channel[i] # "open")
      BY <2>1
    <3> QED
      BY <3>1 DEF HubInv, TrackedAreOpen
  <2>2. CASE HangUp(c)
    BY <2>2 DEF HubInv
  <2> QED
    BY <2>1, <2>2
<1>3. HubTypesOK' /\ RoutesKnown'
  BY <1>1, <1>2 DEF HubInv, RoutesKnown
<1> QED
  BY <1>1, <1>2, <1>3, QuietKeeps

LEMMA HubInvNext == HubInv /\ [HubNext]_hubVars => HubInv'
<1> SUFFICES ASSUME HubInv, [HubNext]_hubVars PROVE HubInv'
  OBVIOUS
<1>1. ASSUME NEW i \in Ids, CallerSteps(i) PROVE HubInv'
  BY <1>1, TrackKeeps, CallerKeeps DEF CallerSteps
<1>2. ASSUME NEW i \in Ids, NEW failed \in BOOLEAN, Receive(i, failed) PROVE HubInv'
  <2>1. HubTypesOK' /\ RoutesKnown' /\ ~misused' /\ reader'.at = "route"
    BY <1>2 DEF Receive, HubInv, RoutesKnown
  <2> QED
    BY <1>2, <2>1, QuietKeeps DEF Receive
<1>3. CASE ReaderSteps
  BY <1>3, RouteKeeps, HandOverKeeps DEF ReaderSteps
<1>4. CASE ReceiveFails
  <2>1. HubTypesOK' /\ RoutesKnown' /\ ~misused' /\ reader'.at = "closing"
    BY <1>4 DEF ReceiveFails, Receiving, HubInv, RoutesKnown
  <2> QED
    BY <1>4, <2>1, QuietKeeps DEF ReceiveFails
<1>5. CASE Authenticated \/ HandlerCancelled
  <2>1. UNCHANGED <<tracked, channel, caller, misused, reader, feed, ingested>>
    BY <1>5 DEF Authenticated, HandlerCancelled
  <2>2. HubTypesOK' /\ RoutesKnown' /\ ~misused'
    BY <2>1 DEF HubInv, RoutesKnown
  <2> QED
    BY <2>1, <2>2, QuietKeeps
<1>6. CASE Ingest
  BY <1>6, IngestKeeps
<1>7. ASSUME NEW c \in Closers, CancelPending(c) \/ HangUp(c) PROVE HubInv'
  BY <1>7, CloseKeeps
<1>8. CASE NextHub
  <2> USE DEF NextHub, Receiving
  <2>1. <<>> \in Seq(Polls) /\ DOMAIN <<>> = {}
    OBVIOUS
  <2>2. HubTypesOK' /\ ~misused'
    BY <1>8, <2>1 DEF HubInv
  <2>3. \A i \in Ids : Unused(i)'
    BY <1>8, <2>1 DEF Unused, InHand, InFeed
  <2>4. UsesInv'
    <3>1. DOMAIN feed' = {} /\ \A i \in Ids : ingested'[i] = 0
      BY <1>8, <2>1
    <3> HIDE DEF NextHub
    <3> QED
      BY <2>3, <3>1 DEF UsesInv, HandFirst, FeedFirst, FeedOnce, IngestOnce, Unused, InFeed
  <2>5. TrackedAreOpen' /\ FreshUnused' /\ TrackedUnused' /\ RoutesKnown' /\ PollsInHand'
    BY <1>8, <2>3 DEF TrackedAreOpen, FreshUnused, TrackedUnused, RoutesKnown, PollsInHand
  <2> QED
    BY <2>2, <2>4, <2>5 DEF HubInv
<1>9. CASE UNCHANGED hubVars
  <2>1. UNCHANGED <<tracked, channel, caller, misused, reader, feed, ingested>>
    BY <1>9 DEF hubVars
  <2>2. HubTypesOK' /\ RoutesKnown' /\ ~misused'
    BY <2>1 DEF HubInv, RoutesKnown
  <2> QED
    BY <2>1, <2>2, QuietKeeps
<1> QED
  BY <1>1, <1>2, <1>3, <1>4, <1>5, <1>6, <1>7, <1>8, <1>9 DEF HubNext, HandlerSteps

LEMMA HubInvImplies == HubInv => AnswersUsedOnce
<1> SUFFICES ASSUME HubInv PROVE AnswersUsedOnce
  OBVIOUS
<1>1. ASSUME NEW i \in Ids
      PROVE  ingested[i] + Cardinality({k \in DOMAIN feed : feed[k] = i}) <= 1
  <2> DEFINE S == {k \in DOMAIN feed : feed[k] = i}
  <2>1. CASE InFeed(i)
    <3>1. PICK k \in DOMAIN feed : feed[k] = i
      BY <2>1 DEF InFeed
    <3>2. S = {k}
      BY <3>1 DEF HubInv, UsesInv, FeedOnce
    <3>3. Cardinality(S) = 1
      BY <3>2, FS_Singleton
    <3>4. ingested[i] = 0
      BY <2>1 DEF HubInv, UsesInv, FeedFirst
    <3> QED
      BY <3>3, <3>4
  <2>2. CASE ~InFeed(i)
    <3>1. S = {}
      BY <2>2 DEF InFeed
    <3>2. Cardinality(S) = 0
      BY <3>1, FS_EmptySet
    <3>3. ingested[i] \in Nat /\ ingested[i] <= 1
      BY DEF HubInv, UsesInv, IngestOnce
    <3> QED
      BY <3>2, <3>3
  <2> QED
    BY <2>1, <2>2
<1> QED
  BY <1>1 DEF HubInv, UsesInv, IngestOnce, AnswersUsedOnce, Ids

(***************************************************************************)
(* The hub and everything that hangs on it keep their types, and an id in  *)
(* its list has an open channel.                                           *)
(***************************************************************************)
THEOREM TrackedStayOpen == HubSpec => [](HubTypesOK /\ TrackedAreOpen)
<1>1. HubInv => HubTypesOK /\ TrackedAreOpen
  BY DEF HubInv
<1> QED
  BY <1>1, HubInvInit, HubInvNext, PTL DEF HubSpec

(***************************************************************************)
(* However answers, deadlines and closes fall, no channel is used after it *)
(* was closed, and no answer to a GetData is ingested twice (track, Route, *)
(* forget, cancelPending in internal/ws/correlate.go).                     *)
(***************************************************************************)
THEOREM AnswersOnce == HubSpec => []AnswersUsedOnce
  BY HubInvInit, HubInvNext, HubInvImplies, PTL DEF HubSpec
=============================================================================
