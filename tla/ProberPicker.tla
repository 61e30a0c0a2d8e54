----------------------------- MODULE ProberPicker -----------------------------
(***************************************************************************)
(* The choice of agents in the dialog of NetworkEditor (web/src/js/        *)
(* components/network_monitors/editor/agent_picker.js).  The checkboxes    *)
(* are the only record of what is chosen: they are made again, from what   *)
(* they show and from what every agent can run, whenever the protocol or   *)
(* the inherited group changes.  Unchecking a prober of a group archives   *)
(* its checks.                                                             *)
(***************************************************************************)
CONSTANTS Probers, NoProber, Protocols

ASSUME ProberPickerAssumption == NoProber \notin Probers

VARIABLES capable,   \* protocol -> agents that can be configured and run it
          mountedOn, \* the agent whose detail the component is mounted on, or NoProber
          picking,   \* what the dialog is open for: "none", "add" or "group"
          members,   \* editingGroup: agents that probe the target
          inherited, \* inheritedGroup: agents a new monitor would duplicate
          protocol,
          boxes,     \* agents with a checkbox
          ticked,    \* those that are checked
          fixedBoxes, \* those that cannot be changed
          unticked   \* probers the user has unchecked in this dialog

pickerVars == <<capable, mountedOn, picking, members, inherited, protocol, boxes, ticked,
                fixedBoxes, unticked>>

PickerInit ==
  /\ capable \in [Protocols -> SUBSET Probers]
  /\ mountedOn \in Probers \cup {NoProber}
  /\ picking = "none" /\ members = {} /\ inherited = {}
  /\ protocol = CHOOSE p \in Protocols : TRUE
  /\ boxes = {} /\ ticked = {} /\ fixedBoxes = {} /\ unticked = {}

\* Agents that get a checkbox: on the detail of an agent, a new monitor is its own.
Boxes(kind) == IF kind = "add" /\ mountedOn # NoProber THEN {mountedOn} ELSE Probers

\* Mutant of Chosen: a prober of the group that cannot run the protocol is unchecked.
ChosenIfCapable(kind, in, dup, p, was) ==
  {a \in Boxes(kind) \ dup :
     /\ a \in capable[p]
     /\ (kind = "add" /\ mountedOn # NoProber) \/ a \in was}

\* What renderAgentOptions checks: what was checked before and, for a new check
\* on the agent's own detail, that agent; only probers of the group that is
\* edited stay without being able to run the protocol.
Chosen(kind, in, dup, p, was) ==
  {a \in Boxes(kind) \ dup :
     \/ a \in in /\ a \in was
     \/ a \in capable[p] /\ ((kind = "add" /\ mountedOn # NoProber) \/ a \in was)}

RenderAgentOptions(kind, in, dup, p, was) ==
  /\ boxes' = Boxes(kind)
  /\ ticked' = Chosen(kind, in, dup, p, was)
  /\ fixedBoxes' = {a \in Boxes(kind) : a \in dup \/ (a \notin capable[p] /\ a \notin in)}

\* openDialog for a new monitor: resetting the form unchecks the boxes.
OpenAdd ==
  /\ picking = "none"
  /\ picking' = "add" /\ members' = {} /\ inherited' = {} /\ unticked' = {}
  /\ protocol' = CHOOSE p \in Protocols : TRUE
  /\ RenderAgentOptions("add", {}, {}, protocol', {})
  /\ UNCHANGED <<capable, mountedOn>>

\* openGroupDialog: the probers of the group are checked.
OpenGroup(in, p) ==
  /\ picking = "none" /\ in # {}
  /\ picking' = "group" /\ members' = in /\ inherited' = {} /\ unticked' = {}
  /\ protocol' = p
  /\ RenderAgentOptions("group", in, {}, p, in)
  /\ UNCHANGED <<capable, mountedOn>>

ClosePicker ==
  /\ picking # "none"
  /\ picking' = "none"
  /\ UNCHANGED <<capable, mountedOn, members, inherited, protocol, boxes, ticked, fixedBoxes,
                 unticked>>

\* setFormProtocol
ChooseProtocol(p) ==
  /\ picking # "none" /\ inherited = {}
  /\ protocol' = p
  /\ RenderAgentOptions(picking, members, inherited, p, ticked)
  /\ UNCHANGED <<capable, mountedOn, picking, members, inherited, unticked>>

\* The target that was typed has a group: its protocol is taken over.
InheritProbers(dup, p) ==
  /\ picking = "add" /\ dup # {}
  /\ inherited' = dup /\ protocol' = p
  /\ RenderAgentOptions("add", {}, dup, p, ticked)
  /\ UNCHANGED <<capable, mountedOn, picking, members, unticked>>

\* It has none.
InheritNothing ==
  /\ picking = "add"
  /\ inherited' = {}
  /\ RenderAgentOptions("add", {}, {}, protocol, ticked)
  /\ UNCHANGED <<capable, mountedOn, picking, members, protocol, unticked>>

\* A checkbox; Select all and Clear, which leave disabled ones as they are.
SetChecked(to) ==
  /\ picking # "none"
  /\ ticked' = to
  /\ unticked' = (unticked \cup (ticked \ to)) \ to
  /\ UNCHANGED <<capable, mountedOn, picking, members, inherited, protocol, boxes, fixedBoxes>>

Tick(a) ==
  /\ a \in boxes \ fixedBoxes
  /\ SetChecked(IF a \in ticked THEN ticked \ {a} ELSE ticked \cup {a})

SelectAllAgents(select) ==
  SetChecked(IF select THEN ticked \cup (boxes \ fixedBoxes) ELSE ticked \cap fixedBoxes)

PickerNext ==
  \/ OpenAdd \/ ClosePicker \/ InheritNothing
  \/ \E in \in SUBSET Probers, p \in Protocols : OpenGroup(in, p) \/ InheritProbers(in, p)
  \/ \E p \in Protocols : ChooseProtocol(p)
  \/ \E a \in Probers : Tick(a)
  \/ \E select \in BOOLEAN : SelectAllAgents(select)

\* Making the checkboxes again, however often, loses no prober of a group that
\* the user did not uncheck, and never adds an agent that cannot run the
\* protocol or that probes the target already.
ProbersAreKept ==
  /\ picking = "group" => members \ ticked \subseteq unticked
  /\ picking # "none" => /\ ticked \subseteq capable[protocol] \cup members
                         /\ ticked \cap inherited = {}
=============================================================================
