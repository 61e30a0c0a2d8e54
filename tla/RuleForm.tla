------------------------------- MODULE RuleForm -------------------------------
(***************************************************************************)
(* The forms of an alert rule in the React panel (AlertCreateView.tsx,     *)
(* AlertEditView.tsx and their AlertFormFields.tsx).  The form of an       *)
(* existing rule is one instance for every ?id=: it reads the rule when    *)
(* the id changes and keeps what it shows until the answer.  Leaving the   *)
(* form cancels nothing, and what comes of its requests moves the user     *)
(* back to the rules wherever they are by then.  The name, the trigger and *)
(* the payload are not modelled.                                           *)
(***************************************************************************)
EXTENDS Naturals, Sequences, FiniteSets, SequencesExt

CONSTANTS Formed,        \* alert rules
          Creating,      \* the form of a new rule
          NoForm,        \* no form is open
          Presets,       \* alert targets
          NoPreset,
          Watched,       \* agents a rule can be about
          Missing,       \* of a rule that does not exist
          MaxFormCalls,  \* bound: requests that write, under way at once
          MaxLoads       \* bound: loads under way at once

ASSUME RuleFormAssumption ==
  /\ {Creating, NoForm} \cap Formed = {} /\ Creating # NoForm
  /\ NoPreset \notin Presets
  /\ MaxFormCalls \in Nat \ {0} /\ MaxLoads \in Nat \ {0}

VARIABLES written,       \* rules of the server, with the rule their values came from
          form,          \* the fields
          formAt,        \* the route: a rule's form, the form of a new one, or neither
          formLoading,   \* isLoading
          formSaving,    \* saving
          formAsks,      \* rules asked for by this visit and not answered, latest last
          latestAsk,     \* how the latest stands (history variable)
          strayLoads,    \* unanswered loads of earlier visits
          presets,       \* targets, of AlertFormFields
          formCalls,     \* writing requests under way
          moved          \* rules that the form was moved to or from without being left
                         \* (history variable)

formVs       == <<form, formLoading, formSaving, formAsks, latestAsk, strayLoads,
                  presets>>
ruleFormVars == <<written, formVs, formAt, formCalls, moved>>

Channels == {"preset", "url"}
Values   == [by : Formed \cup {Creating}, channel : Channels,
             target : Presets \cup {NoPreset}, url : BOOLEAN, agents : SUBSET Watched]

\* What the checks before a request let through.
HasDestination(v) == IF v.channel = "preset" THEN v.target # NoPreset ELSE v.url
Complete(v)       == v.agents # {} /\ HasDestination(v)

\* What is sent: of target and URL only the one of the channel.
Sent(v) == [v EXCEPT !.target = IF v.channel = "preset" THEN @ ELSE NoPreset,
                     !.url    = (v.channel = "url" /\ @)]

\* The fields of a new instance of either view.
NewForm(at) == [by |-> Creating,
                channel |-> IF at = Creating THEN "preset" ELSE "url",
                target |-> NoPreset, url |-> FALSE, agents |-> {}]

RuleFormInit ==
  /\ written \in [Formed -> {Sent(v) : v \in {w \in Values : Complete(w)}} \cup {Missing}]
  /\ \A r \in Formed : written[r] # Missing => written[r].by = r
  /\ formAt = NoForm /\ form = NewForm(NoForm)
  /\ formLoading = TRUE /\ formSaving = FALSE
  /\ formAsks = <<>> /\ latestAsk = "pending" /\ strayLoads = 0
  /\ presets = {} /\ formCalls = {} /\ moved = {}

\* The form is shown instead of its spinner.
FormShown == formAt # NoForm /\ ~formLoading

\* The buttons below the fields and above them; only the former wait for saving.
FormButtons(at) == IF ~FormShown \/ formAt # at \/ formSaving THEN {} ELSE {"Test", "Save"}
EditHeader      == IF FormShown /\ formAt \in Formed THEN {"Delete"} ELSE {}

\* Every instance starts anew; what an earlier one asked for is still under way.
Fresh(at) ==
  /\ strayLoads' = strayLoads + Len(formAsks)
  /\ formAt' = at /\ form' = NewForm(at)
  /\ formLoading' = TRUE /\ formSaving' = FALSE
  /\ formAsks' = IF at = NoForm THEN <<>> ELSE <<at>>
  /\ latestAsk' = "pending" /\ presets' = {}

Left == {[c EXCEPT !.here = FALSE] : c \in formCalls}

OpenForm(at) ==
  /\ formAt = NoForm /\ strayLoads < MaxLoads
  /\ Fresh(at)
  /\ UNCHANGED <<written, formCalls, moved>>

\* The arrow above the form, the panel's links, or the browser's own button.
LeaveForm ==
  /\ formAt # NoForm
  /\ Fresh(NoForm)
  /\ formCalls' = Left
  /\ UNCHANGED <<written, moved>>

\* The browser's history goes from one rule's form to another's: the same instance
\* asks for the other one, and nothing else changes.
MoveToRule(r) ==
  /\ formAt \in Formed /\ r \in Formed \ {formAt}
  /\ strayLoads + Len(formAsks) < MaxLoads
  /\ formAt' = r
  /\ formAsks' = Append(formAsks, r) /\ latestAsk' = "pending"
  /\ moved' = moved \cup {formAt, r}
  /\ UNCHANGED <<written, form, formLoading, formSaving, strayLoads, presets,
                 formCalls>>

\* The rule and the agents; the agents only, for a new rule, whether they come or not.
RuleLoaded(i) ==
  /\ formAsks[i] # Creating => written[formAsks[i]] # Missing
  /\ form' = IF formAsks[i] = Creating THEN form
             ELSE [written[formAsks[i]] EXCEPT !.by = formAsks[i]]
  /\ formLoading' = FALSE
  /\ formAsks' = RemoveAt(formAsks, i)
  /\ latestAsk' = IF latestAsk # "pending" THEN "overtaken"
                  ELSE IF i = Len(formAsks) THEN "shown" ELSE "pending"
  /\ UNCHANGED <<written, formSaving, strayLoads, presets, formAt, formCalls, moved>>

\* A load that fails ends the visit, even one of a form that was left.
RuleLoadFails(i) ==
  /\ formAsks[i] # Creating
  /\ formAt' = NoForm /\ form' = NewForm(NoForm)
  /\ formLoading' = TRUE /\ formSaving' = FALSE
  /\ strayLoads' = strayLoads + Len(formAsks) - 1
  /\ formAsks' = <<>> /\ latestAsk' = "pending" /\ presets' = {}
  /\ formCalls' = Left
  /\ UNCHANGED <<written, moved>>

StrayLoadAnswered(fails) ==
  /\ strayLoads > 0
  /\ IF fails
     THEN /\ formAt' = NoForm /\ form' = NewForm(NoForm)
          /\ formLoading' = TRUE /\ formSaving' = FALSE
          /\ strayLoads' = strayLoads + Len(formAsks) - 1
          /\ formAsks' = <<>> /\ latestAsk' = "pending" /\ presets' = {}
          /\ formCalls' = Left
     ELSE /\ strayLoads' = strayLoads - 1
          /\ UNCHANGED <<form, formAt, formLoading, formSaving, formAsks, latestAsk,
                         presets, formCalls>>
  /\ UNCHANGED <<written, moved>>

\* AlertFormFields, new whenever the fields appear, has read the targets.
PresetsLoaded(found) ==
  /\ FormShown /\ presets = {} /\ found # {}
  /\ presets' = found
  /\ UNCHANGED <<written, form, formLoading, formSaving, formAsks, latestAsk,
                 strayLoads, formAt, formCalls, moved>>

Fill(v) ==
  /\ FormShown /\ form' = v
  /\ UNCHANGED <<written, formLoading, formSaving, formAsks, latestAsk,
                 strayLoads, presets, formAt, formCalls, moved>>

\* Channel Type: a preset takes one of the targets when the rule has none.
SetChannel(c) ==
  \E t \in Presets \cup {NoPreset} :
    /\ IF c = "preset" /\ presets # {} /\ form.target = NoPreset
       THEN t \in presets ELSE t = form.target
    /\ Fill([form EXCEPT !.channel = c, !.target = t])

SetTarget(t) ==
  /\ form.channel = "preset" /\ presets # {}
  /\ t \in presets \cup {NoPreset}
  /\ Fill([form EXCEPT !.target = t])

TypeUrl(typed) == form.channel = "url" /\ Fill([form EXCEPT !.url = typed])

\* toggleAgent, Select All and Clear.
ToggleWatched(n) ==
  Fill([form EXCEPT !.agents = IF n \in @ THEN @ \ {n} ELSE @ \cup {n}])
SetWatched(ns) == ns \in {{}, Watched} /\ Fill([form EXCEPT !.agents = ns])

Call(c) ==
  /\ Cardinality(formCalls) < MaxFormCalls
  /\ formCalls' = formCalls \cup {c}
  /\ formSaving' = TRUE
  /\ UNCHANGED <<written, form, formLoading, formAsks, latestAsk, strayLoads, presets,
                 formAt, moved>>

\* handleSave of AlertEditView: to the id of the route.
SaveRule ==
  /\ formAt \in Formed /\ "Save" \in FormButtons(formAt)
  /\ Complete(form)
  /\ Call([kind |-> "put", of |-> formAt, body |-> Sent(form), here |-> TRUE])

\* handleSave of AlertCreateView
CreateRule ==
  /\ "Save" \in FormButtons(Creating)
  /\ Complete(form)
  /\ Call([kind |-> "post", of |-> Creating, body |-> Sent(form), here |-> TRUE])

\* handleTest of either.
TestRule ==
  /\ "Test" \in FormButtons(formAt)
  /\ HasDestination(form)
  /\ Call([kind |-> "test", of |-> formAt, body |-> Sent(form), here |-> TRUE])

\* handleDeleteExecute, when the dialog over the form was confirmed.
RemoveRule ==
  /\ "Delete" \in EditHeader
  /\ Call([kind |-> "delete", of |-> formAt, body |-> Missing, here |-> TRUE])

\* The server carries a request out and answers: the user is back at the rules.
CallDone(c) ==
  /\ CASE c.kind = "put"    -> /\ written[c.of] # Missing
                               /\ written' = [written EXCEPT ![c.of] = c.body]
       [] c.kind = "delete" -> /\ written[c.of] # Missing
                               /\ written' = [written EXCEPT ![c.of] = Missing]
       [] c.kind = "post"   -> \E r \in Formed :
                                 /\ written[r] = Missing
                                 /\ written' = [written EXCEPT ![r] = [c.body EXCEPT !.by = r]]
       [] OTHER             -> FALSE
  /\ Fresh(NoForm)
  /\ formCalls' = {[d EXCEPT !.here = FALSE] : d \in formCalls \ {c}}
  /\ UNCHANGED moved

\* It fails, or a test is answered either way: the form stays, and its buttons work
\* again although another request may be under way.
CallEnds(c) ==
  /\ formSaving' = (formSaving /\ ~c.here)
  /\ formCalls' = formCalls \ {c}
  /\ UNCHANGED <<written, form, formLoading, formAsks, latestAsk, strayLoads,
                 presets, formAt, moved>>

RuleFormNext ==
  \/ \E at \in Formed \cup {Creating} : OpenForm(at)
  \/ LeaveForm \/ SaveRule \/ CreateRule \/ TestRule \/ RemoveRule
  \/ \E r \in Formed : MoveToRule(r)
  \/ \E i \in DOMAIN formAsks : RuleLoaded(i) \/ RuleLoadFails(i)
  \/ \E fails \in BOOLEAN : StrayLoadAnswered(fails)
  \/ \E found \in SUBSET Presets : PresetsLoaded(found)
  \/ \E b \in BOOLEAN : TypeUrl(b)
  \/ \E c \in Channels : SetChannel(c)
  \/ \E t \in Presets \cup {NoPreset} : SetTarget(t)
  \/ \E n \in Watched : ToggleWatched(n)
  \/ \E ns \in SUBSET Watched : SetWatched(ns)
  \/ \E c \in formCalls : CallDone(c) \/ CallEnds(c)

RuleFormSpec == RuleFormInit /\ [][RuleFormNext]_ruleFormVars

-----------------------------------------------------------------------------
(* Property *)

\* A rule keeps values of its own: a form that is saved goes to the rule whose values
\* filled it, with a destination and agents, whatever was left, answered late, saved
\* twice or removed meanwhile; unless the history moved the form from rule to rule,
\* for then it shows the one and writes to the other until the answer.  A form at
\* rest shows the rule of its route, unless its answer was overtaken.
RulesKeepTheirOwn ==
  /\ \A r \in Formed \ moved : written[r] # Missing =>
       /\ written[r].by = r
       /\ HasDestination(written[r]) /\ written[r].agents # {}
  /\ formAt \in Formed /\ formAsks = <<>> /\ latestAsk = "shown" => form.by = formAt
=============================================================================
