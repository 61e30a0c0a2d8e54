---------------------------- MODULE NetworkEditor -----------------------------
(***************************************************************************)
(* The editor of network monitors (web/src/js/components/network_monitors/ *)
(* editor): one dialog that opens for a new monitor or for the group of a  *)
(* target once what it needs has been read, and that takes over the shared *)
(* settings when the target typed into it already has a group.  A counter, *)
(* editorGeneration, tells the latest of these requests from the ones it   *)
(* has overtaken; closing the dialog does not move it.                     *)
(***************************************************************************)
EXTENDS Naturals, FiniteSets

CONSTANTS Targets, NoTarget,
          MonitorSettings, \* protocol, port, DNS server and interval of a target
          Default,         \* those of an empty form
          NoGroup, NoOp, NoSave,
          MaxOvertaken     \* bound: overtaken requests still to be answered

ASSUME NetworkEditorAssumption ==
  NoTarget \notin Targets /\ Default \in MonitorSettings /\ NoGroup \notin MonitorSettings

VARIABLES groups,     \* at the server: target -> its group's settings, or NoGroup
          dialog,     \* open, what for, and the settings are locked
          entries,    \* what the fields show
          lookup,     \* inheritedGroup and inheritancePending: what was found
          pendingOp,  \* the request of the current generation, or NoOp
          overtaken,  \* those of older generations still to be answered
          sent,       \* the save under way, or NoSave
          wish,       \* what the user asked last to be opened
          away        \* the component is not visible

editorDialogVars == <<groups, dialog, entries, lookup, pendingOp, overtaken, sent, wish, away>>

Ops      == [op : {"add", "group", "inherit"}, target : Targets \cup {NoTarget},
             step : {"group", "agents", "targets"}, read : MonitorSettings \cup {NoGroup}]
Lookups  == [target : Targets \cup {NoTarget},
             how : {"none", "pending", "found", "absent", "failed"},
             settings : MonitorSettings \cup {NoGroup}]
NoLookup == [target |-> NoTarget, how |-> "none", settings |-> NoGroup]
Closed   == [open |-> FALSE, what |-> [kind |-> "add", target |-> NoTarget], locked |-> FALSE]

EditorInit ==
  /\ groups \in [Targets -> MonitorSettings \cup {NoGroup}]
  /\ dialog = Closed
  /\ entries = [target |-> NoTarget, settings |-> Default]
  /\ lookup = NoLookup
  /\ pendingOp = NoOp /\ overtaken = {} /\ sent = NoSave
  /\ wish = [kind |-> "add", target |-> NoTarget]
  /\ away = FALSE

\* ++editorGeneration: a request that is under way is overtaken by op.  A look-up
\* of a target ends without effect then; one that opens the dialog may show its error.
Overtake(op) ==
  /\ overtaken' = overtaken \cup {o \in {pendingOp} \ {NoOp} : o.op # "inherit"}
  /\ Cardinality(overtaken') <= MaxOvertaken
  /\ pendingOp' = op

-----------------------------------------------------------------------------
(* Opening the dialog *)

\* openDialog: the form is reset, and nothing is inherited yet.
OpenDialogFor(what, target, settings) ==
  /\ dialog' = [open |-> TRUE, what |-> what, locked |-> FALSE]
  /\ entries' = [target |-> target, settings |-> settings]
  /\ lookup' = NoLookup

PressAdd ==
  /\ ~away /\ ~dialog.open
  /\ Overtake([op |-> "add", target |-> NoTarget, step |-> "agents", read |-> NoGroup])
  /\ wish' = [kind |-> "add", target |-> NoTarget]
  /\ UNCHANGED <<groups, dialog, entries, lookup, sent, away>>

\* Edit in a row of the list, Retry in the message of a failed one, or Reload
\* group after a conflict, which closes the dialog first.
PressEdit(t) ==
  /\ ~away /\ ~dialog.open
  /\ Overtake([op |-> "group", target |-> t, step |-> "group", read |-> NoGroup])
  /\ wish' = [kind |-> "group", target |-> t]
  /\ UNCHANGED <<groups, dialog, entries, lookup, sent, away>>

\* Mutant of AgentsLoaded: the generation is not compared.
AgentsLoadedAnyTime(o) ==
  /\ o \in overtaken \cup ({pendingOp} \ {NoOp})
  /\ o.op \in {"add", "group"} /\ o.step = "agents" /\ ~away
  /\ pendingOp' = NoOp
  /\ overtaken' = overtaken \ {o}
  /\ OpenDialogFor([kind |-> o.op, target |-> o.target], o.target,
                   IF o.op = "add" THEN Default ELSE o.read)
  /\ UNCHANGED <<groups, sent, wish, away>>

\* The agents are there: the dialog opens if nothing else was asked since.
AgentsLoaded(o) ==
  /\ o = pendingOp /\ o # NoOp /\ o.op \in {"add", "group"} /\ o.step = "agents" /\ ~away
  /\ pendingOp' = NoOp
  /\ UNCHANGED overtaken
  /\ OpenDialogFor([kind |-> o.op, target |-> o.target], o.target,
                   IF o.op = "add" THEN Default ELSE o.read)
  /\ UNCHANGED <<groups, sent, wish, away>>

GroupRead ==
  /\ pendingOp # NoOp /\ pendingOp.op = "group" /\ pendingOp.step = "group"
  /\ groups[pendingOp.target] # NoGroup
  /\ pendingOp' = [pendingOp EXCEPT !.step = "agents", !.read = groups[pendingOp.target]]
  /\ UNCHANGED <<groups, dialog, entries, lookup, overtaken, sent, wish, away>>

OpenFails ==
  /\ pendingOp # NoOp /\ pendingOp.op \in {"add", "group"}
  /\ pendingOp' = NoOp
  /\ UNCHANGED <<groups, dialog, entries, lookup, overtaken, sent, wish, away>>

\* An overtaken request ends without effect but for a message, whatever it read.
OvertakenEnds(o) ==
  /\ o \in overtaken
  /\ overtaken' = overtaken \ {o}
  /\ UNCHANGED <<groups, dialog, entries, lookup, pendingOp, sent, wish, away>>

CloseEditorDialog ==
  /\ dialog.open
  /\ dialog' = [dialog EXCEPT !.open = FALSE]
  /\ UNCHANGED <<groups, entries, lookup, pendingOp, overtaken, sent, wish, away>>

\* suspend: the view is left or the tab hidden.
Suspend ==
  /\ ~away
  /\ away' = TRUE
  /\ Overtake(NoOp)
  /\ lookup' = IF lookup.how = "pending" THEN NoLookup ELSE lookup
  /\ dialog' = [dialog EXCEPT !.open = FALSE]
  /\ UNCHANGED <<groups, entries, sent, wish>>

Return ==
  /\ away
  /\ away' = FALSE
  /\ UNCHANGED <<groups, dialog, entries, lookup, pendingOp, overtaken, sent, wish>>

-----------------------------------------------------------------------------
(* The form *)

\* inheritTargetSettings, when the target or the protocol of a new monitor was
\* changed: the settings are free again until its group is found.
Inherit(t) ==
  IF dialog.what.kind = "group" THEN UNCHANGED <<dialog, lookup, pendingOp, overtaken>>
  ELSE /\ IF t = NoTarget
          THEN Overtake(NoOp) /\ lookup' = NoLookup
          ELSE /\ Overtake([op |-> "inherit", target |-> t, step |-> "targets", read |-> NoGroup])
               /\ lookup' = [target |-> t, how |-> "pending", settings |-> NoGroup]
       /\ dialog' = [dialog EXCEPT !.locked = FALSE]

ChangeTarget(t) ==
  /\ dialog.open /\ t # entries.target
  /\ entries' = [entries EXCEPT !.target = t]
  /\ Inherit(t)
  /\ UNCHANGED <<groups, sent, wish, away>>

\* A protocol is chosen; with a target in the field it is looked up again.
ChangeProtocol(s) ==
  /\ dialog.open /\ ~dialog.locked
  /\ entries' = [entries EXCEPT !.settings = s]
  /\ IF entries.target # NoTarget THEN Inherit(entries.target)
     ELSE UNCHANGED <<dialog, lookup, pendingOp, overtaken>>
  /\ UNCHANGED <<groups, sent, wish, away>>

\* Port, DNS server or interval: locked for a target that has a group.
ChangeSettings(s) ==
  /\ dialog.open /\ ~dialog.locked
  /\ entries' = [entries EXCEPT !.settings = s]
  /\ UNCHANGED <<groups, dialog, lookup, pendingOp, overtaken, sent, wish, away>>

Inheriting == pendingOp # NoOp /\ pendingOp.op = "inherit"

\* The list of targets, and the group when the target is among them.
TargetsRead ==
  /\ Inheriting /\ pendingOp.step = "targets"
  /\ IF dialog.open /\ groups[pendingOp.target] # NoGroup
     THEN pendingOp' = [pendingOp EXCEPT !.step = "group"] /\ UNCHANGED lookup
     ELSE /\ pendingOp' = NoOp
          /\ lookup' = IF dialog.open THEN [lookup EXCEPT !.how = "absent"] ELSE NoLookup
  /\ UNCHANGED <<groups, dialog, entries, overtaken, sent, wish, away>>

\* The group's settings go into the form and are locked.
SettingsRead ==
  /\ Inheriting /\ pendingOp.step = "group" /\ groups[pendingOp.target] # NoGroup
  /\ pendingOp' = NoOp
  /\ IF dialog.open
     THEN LET s == groups[pendingOp.target] IN
            /\ lookup' = [lookup EXCEPT !.how = "found", !.settings = s]
            /\ entries' = [entries EXCEPT !.settings = s]
            /\ dialog' = [dialog EXCEPT !.locked = TRUE]
     ELSE lookup' = NoLookup /\ UNCHANGED <<entries, dialog>>
  /\ UNCHANGED <<groups, overtaken, sent, wish, away>>

\* A failed look-up says so, and lets the form be saved as it is.
InheritFails ==
  /\ Inheriting
  /\ pendingOp' = NoOp
  /\ lookup' = [lookup EXCEPT !.how = "failed"]
  /\ UNCHANGED <<groups, dialog, entries, overtaken, sent, wish, away>>

-----------------------------------------------------------------------------
(* Saving *)

\* Mutant of SaveDialog: the form is sent while its target is looked up.
SaveDialogAtOnce ==
  /\ dialog.open /\ sent = NoSave
  /\ entries.target # NoTarget
  /\ sent' = [former |-> dialog.what.target, form |-> entries]
  /\ UNCHANGED <<groups, dialog, entries, lookup, pendingOp, overtaken, wish, away>>

\* Submit: not while the target is looked up, and not without a target.
SaveDialog ==
  /\ dialog.open /\ sent = NoSave
  /\ lookup.how # "pending"
  /\ entries.target # NoTarget
  /\ sent' = [former |-> dialog.what.target, form |-> entries]
  /\ UNCHANGED <<groups, dialog, entries, lookup, pendingOp, overtaken, wish, away>>

\* Saved: the group got its settings, under a new name if that was edited, and
\* the dialog is closed, whichever it is.  What the list does is in NetworkList.
SaveAnswered ==
  /\ sent # NoSave
  /\ groups' = [t \in Targets |->
                  IF t = sent.form.target THEN sent.form.settings
                  ELSE IF t = sent.former THEN NoGroup ELSE groups[t]]
  /\ dialog' = [dialog EXCEPT !.open = FALSE]
  /\ sent' = NoSave
  /\ UNCHANGED <<entries, lookup, pendingOp, overtaken, wish, away>>

\* Refused: the message goes into the dialog.
SaveRefused ==
  /\ sent # NoSave
  /\ sent' = NoSave
  /\ UNCHANGED <<groups, dialog, entries, lookup, pendingOp, overtaken, wish, away>>

\* External: somebody else changes or removes a group.
OthersChange(t) ==
  /\ \E s \in MonitorSettings \cup {NoGroup} : groups' = [groups EXCEPT ![t] = s]
  /\ UNCHANGED <<dialog, entries, lookup, pendingOp, overtaken, sent, wish, away>>

EditorNext ==
  \/ PressAdd \/ \E t \in Targets : PressEdit(t)
  \/ \E o \in Ops : AgentsLoaded(o)
  \/ GroupRead \/ OpenFails \/ \E o \in Ops : OvertakenEnds(o)
  \/ CloseEditorDialog \/ Suspend \/ Return
  \/ \E t \in Targets \cup {NoTarget} : ChangeTarget(t)
  \/ \E s \in MonitorSettings : ChangeProtocol(s) \/ ChangeSettings(s)
  \/ TargetsRead \/ SettingsRead \/ InheritFails
  \/ SaveDialog \/ SaveAnswered \/ SaveRefused
  \/ \E t \in Targets : OthersChange(t)

-----------------------------------------------------------------------------
(* Properties *)

\* However Add and Edit are pressed while requests are on their way, the dialog
\* that opens is the one asked for last, with the group's settings as read.
OpensWhatWasAskedLast ==
  [][~dialog.open /\ dialog'.open => dialog'.what = wish]_editorDialogVars

\* A new monitor is sent only after the target it is sent for was looked up
\* since the form was opened: with the settings its group had, or with settings
\* of its own when there was no group or the look-up failed and said so.
AddsInheritSettings ==
  [][sent = NoSave /\ sent' # NoSave /\ dialog.what.kind = "add" =>
       /\ lookup.target = sent'.form.target
       /\ lookup.how \in {"found", "absent", "failed"}
       /\ lookup.how = "found" => sent'.form.settings = lookup.settings]_editorDialogVars

\* What the dialog is asked for is what it shows and sends.
EditorServesLastWish == OpensWhatWasAskedLast /\ AddsInheritSettings
=============================================================================
