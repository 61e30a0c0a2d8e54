----------------------------- MODULE AlertDialog ------------------------------
(***************************************************************************)
(* The one dialog in which every alert rule of the page is edited          *)
(* (web/static/admin/js/admin_alerts.js) and what the server takes from    *)
(* its form.  Opening it fills the fields from the button that was         *)
(* pressed; whatever the previous rule left in a field that is not filled  *)
(* stays there.                                                            *)
(***************************************************************************)
EXTENDS FiniteSets

CONSTANTS Rules, Hosts, Probes, Targets, NoTarget, NoRule

ASSUME AlertDialogAssumption == NoTarget \notin Targets /\ NoRule \notin Rules

VARIABLES rules,     \* the rules as the page was rendered with them
          editing,   \* the rule whose dialog is open, or NoRule
          fields,    \* the dialog's inputs
          disabled,  \* of those, the groups that the browser will not send
          touched    \* the user changed a field since the dialog was opened

dialogVars == <<rules, editing, fields, disabled, touched>>

Fields == [kind : {"network", "resource"}, hosts : SUBSET Hosts, probes : SUBSET Probes,
           dest : {"preset", "direct"}, target : Targets]

\* A rule watches hosts or, for network loss, monitors; one whose hosts were all
\* deleted watches none, and one with its own URL may name no saved target.
RuleStates ==
  {r \in [kind : {"network", "resource"}, hosts : SUBSET Hosts, probes : SUBSET Probes,
          dest : {"preset", "direct"}, target : Targets \cup {NoTarget}] :
     /\ r.kind = "network" => r.hosts = {} /\ r.probes # {}
     /\ r.kind = "resource" => r.probes = {}
     /\ r.dest = "preset" => r.target # NoTarget}

DialogInit ==
  /\ rules \in [Rules -> RuleStates]
  /\ editing = NoRule
  /\ \E t \in Targets :
       fields = [kind |-> "resource", hosts |-> {}, probes |-> {}, dest |-> "preset",
                 target |-> t]
  /\ disabled = {"probes"}
  /\ touched = FALSE

\* handleTriggerTypeChange: the inputs of the other kind of rule are disabled.
TriggerGroups(kind) == IF kind = "network" THEN {"hosts"} ELSE {"probes"}

\* Mutant of OpenDialog: a rule's hosts are checked on top of the previous one's.
OpenDialogAdds(r) ==
  /\ editing = NoRule
  /\ editing' = r
  /\ fields' = [kind   |-> rules[r].kind,
                hosts  |-> IF rules[r].hosts = {} THEN Hosts
                           ELSE fields.hosts \cup rules[r].hosts,
                probes |-> rules[r].probes,
                dest   |-> rules[r].dest,
                target |-> IF rules[r].target = NoTarget THEN fields.target
                           ELSE rules[r].target]
  /\ disabled' = TriggerGroups(rules[r].kind)
  /\ touched' = FALSE
  /\ UNCHANGED rules

\* The Edit button of a rule: no hosts means every host, and a rule without a
\* saved target leaves the select as it was.
OpenDialog(r) ==
  /\ editing = NoRule
  /\ editing' = r
  /\ fields' = [kind   |-> rules[r].kind,
                hosts  |-> IF rules[r].hosts = {} THEN Hosts ELSE rules[r].hosts,
                probes |-> rules[r].probes,
                dest   |-> rules[r].dest,
                target |-> IF rules[r].target = NoTarget THEN fields.target
                           ELSE rules[r].target]
  /\ disabled' = TriggerGroups(rules[r].kind)
  /\ touched' = FALSE
  /\ UNCHANGED rules

CloseDialog ==
  /\ editing # NoRule
  /\ editing' = NoRule
  /\ UNCHANGED <<rules, fields, disabled, touched>>

Change(f) ==
  /\ editing # NoRule
  /\ fields' = f /\ f # fields
  /\ touched' = TRUE
  /\ UNCHANGED <<rules, editing>>

ChangeKind(kind) ==
  /\ Change([fields EXCEPT !.kind = kind])
  /\ disabled' = TriggerGroups(kind)

\* handleDestTypeChange shows the inputs of the destination and disables nothing.
ChangeDestination(dest) ==
  /\ Change([fields EXCEPT !.dest = dest])
  /\ UNCHANGED disabled

PickTarget(t) ==
  /\ fields.dest = "preset"
  /\ Change([fields EXCEPT !.target = t])
  /\ UNCHANGED disabled

\* A box, or Select all and Clear for the hosts: hidden with the group's boxes.
CheckBoxes ==
  \/ /\ "hosts" \notin disabled
     /\ \E hs \in {{}, Hosts} \cup {fields.hosts \ {h} : h \in Hosts}
                 \cup {fields.hosts \cup {h} : h \in Hosts} :
          Change([fields EXCEPT !.hosts = hs])
     /\ UNCHANGED disabled
  \/ /\ "probes" \notin disabled
     /\ \E p \in Probes : Change([fields EXCEPT !.probes = IF p \in @ THEN @ \ {p} ELSE @ \cup {p}])
     /\ UNCHANGED disabled

\* AlertUpdateHandler: what the rule becomes.
Saved ==
  [kind   |-> fields.kind,
   hosts  |-> IF fields.kind = "network" \/ "hosts" \in disabled THEN {} ELSE fields.hosts,
   probes |-> IF fields.kind # "network" \/ "probes" \in disabled THEN {} ELSE fields.probes,
   dest   |-> fields.dest,
   target |-> fields.target]

\* The answer redirects to the page, rendered with the rules as they are then.
SubmitDialog ==
  /\ editing # NoRule
  /\ Saved.kind = "network" => Saved.probes # {}
  /\ rules' = [rules EXCEPT ![editing] = Saved]
  /\ editing' = NoRule
  /\ \E t \in Targets :
       fields' = [kind |-> "resource", hosts |-> {}, probes |-> {}, dest |-> "preset",
                  target |-> t]
  /\ disabled' = {"probes"}
  /\ touched' = FALSE

DialogNext ==
  \/ \E r \in Rules : OpenDialog(r)
  \/ CloseDialog
  \/ \E k \in {"network", "resource"} : ChangeKind(k)
  \/ \E d \in {"preset", "direct"} : ChangeDestination(d)
  \/ \E t \in Targets : PickTarget(t)
  \/ CheckBoxes
  \/ SubmitDialog

\* Saving a rule as its dialog shows it, with nothing changed, leaves the rule
\* what it was, whichever rules the dialog was opened for and edited without
\* saving before: the exceptions are a rule without hosts, which gets them all,
\* and a rule with its own URL, whose unused saved target may change.
SaveUnchangedKeepsRule ==
  editing # NoRule /\ ~touched =>
    LET old == rules[editing] IN
      /\ Saved.kind = old.kind /\ Saved.dest = old.dest
      /\ Saved.probes = old.probes
      /\ Saved.hosts = IF old.kind = "resource" /\ old.hosts = {} THEN Hosts ELSE old.hosts
      /\ old.target # NoTarget => Saved.target = old.target
=============================================================================
