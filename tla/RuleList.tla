------------------------------- MODULE RuleList -------------------------------
(***************************************************************************)
(* The alert rules of the React panel (AlertsPanel.tsx): a list that is    *)
(* read once per visit, and again after a retried notification, a switch   *)
(* that writes the whole rule back as the page has it, and a deletion that *)
(* is confirmed first.                                                     *)
(***************************************************************************)
EXTENDS Naturals, FiniteSets

CONSTANTS Watches,      \* alert rules
          Settings,     \* everything of a rule but its switch
          Gone,         \* of a rule that does not exist, or is not listed
          NotFetched,   \* of a list the server has not read yet
          NoWatch,
          MaxRuleCalls  \* bound: requests under way at once

ASSUME RuleListAssumption ==
  /\ Watches # {} /\ Settings # {} /\ NoWatch \notin Watches
  /\ Gone \notin [enabled : BOOLEAN, settings : Settings]
  /\ MaxRuleCalls \in Nat \ {0}

VARIABLES ruleRows,     \* rules of the server
          watches,      \* alerts, of the page
          firstLoad,    \* isLoading, or how the first load of the visit ended
          confirming,   \* deleteConfirmAlertId
          deleting,     \* deletingId
          ruleCalls,    \* requests under way
          excused       \* rules whose requests crossed or were lost, or that
                        \* somebody else wrote (history variable)

ruleListVars == <<ruleRows, watches, firstLoad, confirming, deleting, ruleCalls, excused>>

Bodies == [enabled : BOOLEAN, settings : Settings]
Tables == [Watches -> Bodies \cup {Gone}]
NoRows == [w \in Watches |-> Gone]

Fetches == [kind : {"first", "reload"}, read : Tables \cup {NotFetched}]
Changes == [kind : {"toggle", "delete"}, of : Watches, body : Bodies \cup {Gone},
            done : BOOLEAN, here : BOOLEAN]
IsFetch(c) == c.kind \in {"first", "reload"}

RuleListInit ==
  /\ ruleRows \in Tables
  /\ watches = NoRows /\ firstLoad = "pending"
  /\ confirming = NoWatch /\ deleting = NoWatch
  /\ ruleCalls = {[kind |-> "first", read |-> NotFetched]}
  /\ excused = {}

RuleRoom == Cardinality(ruleCalls) < MaxRuleCalls

\* The rows that can be clicked: in place of them the page says that it loads, that it
\* failed, or that there are none; the dialog covers them.
WatchRows == IF firstLoad = "done" /\ confirming = NoWatch
             THEN {w \in Watches : watches[w] # Gone} ELSE {}

\* Requests about one rule that cross: a list and a change of it, or two changes that
\* leave it different.
Crossing(c) ==
  {w \in Watches : \E d \in ruleCalls :
     \/ IsFetch(c) /\ ~IsFetch(d) /\ d.of = w
     \/ ~IsFetch(c) /\ c.of = w /\ (IsFetch(d) \/ (d.of = w /\ d.body # c.body))}

SendRuleCall(c) ==
  /\ RuleRoom
  /\ ruleCalls' = ruleCalls \cup {c}
  /\ excused' = excused \cup Crossing(c)

ReadRules(c) ==
  /\ IsFetch(c) /\ c.read = NotFetched
  /\ ruleCalls' = (ruleCalls \ {c}) \cup {[c EXCEPT !.read = ruleRows]}
  /\ UNCHANGED <<ruleRows, watches, firstLoad, confirming, deleting, excused>>

RulesLoaded(c) ==
  /\ IsFetch(c) /\ c.read # NotFetched
  /\ watches' = c.read
  /\ firstLoad' = IF c.kind = "first" THEN "done" ELSE firstLoad
  /\ ruleCalls' = ruleCalls \ {c}
  /\ UNCHANGED <<ruleRows, confirming, deleting, excused>>

\* An error of the first load stays for the visit.
RulesFail(c) ==
  /\ IsFetch(c)
  /\ firstLoad' = IF c.kind = "first" THEN "failed" ELSE firstLoad
  /\ ruleCalls' = ruleCalls \ {c}
  /\ UNCHANGED <<ruleRows, watches, confirming, deleting, excused>>

\* A notification was retried, from the events below the rules; the answer may come
\* while the dialog is open.
ReloadRules ==
  /\ SendRuleCall([kind |-> "reload", read |-> NotFetched])
  /\ UNCHANGED <<ruleRows, watches, firstLoad, confirming, deleting>>

\* toggleEnabled: the whole rule as the list has it, with the switch turned.
Toggle(w) ==
  /\ w \in WatchRows
  /\ SendRuleCall([kind |-> "toggle", of |-> w, done |-> FALSE, here |-> TRUE,
                   body |-> [watches[w] EXCEPT !.enabled = ~@]])
  /\ UNCHANGED <<ruleRows, watches, firstLoad, confirming, deleting>>

\* handleDelete
ConfirmDelete(w) ==
  /\ w \in WatchRows /\ deleting # w
  /\ confirming' = w
  /\ UNCHANGED <<ruleRows, watches, firstLoad, deleting, ruleCalls, excused>>

\* The buttons of DeleteConfirmModal and its backdrop.
ConfirmOffers == IF confirming = NoWatch THEN {} ELSE {"Cancel", "Delete Alert"}

CancelDelete ==
  /\ "Cancel" \in ConfirmOffers
  /\ confirming' = NoWatch
  /\ UNCHANGED <<ruleRows, watches, firstLoad, deleting, ruleCalls, excused>>

\* handleDeleteExecute
Delete ==
  /\ "Delete Alert" \in ConfirmOffers
  /\ SendRuleCall([kind |-> "delete", of |-> confirming, body |-> Gone,
                   done |-> FALSE, here |-> TRUE])
  /\ confirming' = NoWatch /\ deleting' = confirming
  /\ UNCHANGED <<ruleRows, watches, firstLoad>>

\* The server writes; of a rule that is gone it says so.
ApplyChange(c) ==
  /\ ~IsFetch(c) /\ ~c.done /\ ruleRows[c.of] # Gone
  /\ ruleRows' = [ruleRows EXCEPT ![c.of] = c.body]
  /\ ruleCalls' = (ruleCalls \ {c}) \cup {[c EXCEPT !.done = TRUE]}
  /\ UNCHANGED <<watches, firstLoad, confirming, deleting, excused>>

\* The list has what was sent.
ToggleAnswered(c) ==
  /\ c.kind = "toggle" /\ c.done
  /\ watches' = IF c.here /\ watches[c.of] # Gone
                THEN [watches EXCEPT ![c.of] = c.body] ELSE watches
  /\ ruleCalls' = ruleCalls \ {c}
  /\ UNCHANGED <<ruleRows, firstLoad, confirming, deleting, excused>>

DeleteAnswered(c) ==
  /\ c.kind = "delete" /\ c.done
  /\ IF c.here THEN watches' = [watches EXCEPT ![c.of] = Gone] /\ deleting' = NoWatch
     ELSE UNCHANGED <<watches, deleting>>
  /\ ruleCalls' = ruleCalls \ {c}
  /\ UNCHANGED <<ruleRows, firstLoad, confirming, excused>>

\* A refusal, or an answer that is lost.
ChangeFails(c) ==
  /\ ~IsFetch(c)
  /\ deleting' = IF c.kind = "delete" /\ c.here THEN NoWatch ELSE deleting
  /\ ruleCalls' = ruleCalls \ {c}
  /\ excused' = IF c.done THEN excused \cup {c.of} ELSE excused
  /\ UNCHANGED <<ruleRows, watches, firstLoad, confirming>>

\* The form of a rule, another tab or another administrator.
RuleWritten(w, b) ==
  /\ ruleRows[w] # b
  /\ ruleRows' = [ruleRows EXCEPT ![w] = b]
  /\ excused' = excused \cup {w}
  /\ UNCHANGED <<watches, firstLoad, confirming, deleting, ruleCalls>>

\* To another section and back: the list is new, changes under way go on.
VisitRules ==
  /\ watches' = NoRows /\ firstLoad' = "pending"
  /\ confirming' = NoWatch /\ deleting' = NoWatch
  /\ LET Left == {[c EXCEPT !.here = FALSE] : c \in {d \in ruleCalls : ~IsFetch(d)}}
     IN /\ Cardinality(Left) < MaxRuleCalls
        /\ ruleCalls' = Left \cup {[kind |-> "first", read |-> NotFetched]}
        /\ excused' = {c.of : c \in Left}
  /\ UNCHANGED ruleRows

RuleListNext ==
  \/ ReloadRules \/ CancelDelete \/ Delete \/ VisitRules
  \/ \E c \in ruleCalls : \/ ReadRules(c) \/ RulesLoaded(c) \/ RulesFail(c)
                          \/ ApplyChange(c) \/ ToggleAnswered(c)
                          \/ DeleteAnswered(c) \/ ChangeFails(c)
  \/ \E w \in Watches : Toggle(w) \/ ConfirmDelete(w)
  \/ \E w \in Watches, b \in Bodies \cup {Gone} : RuleWritten(w, b)

RuleListSpec == RuleListInit /\ [][RuleListNext]_ruleListVars

-----------------------------------------------------------------------------
(* Type invariant and properties *)

RuleListTypeOK ==
  /\ ruleRows \in Tables /\ watches \in Tables
  /\ firstLoad \in {"pending", "done", "failed"}
  /\ confirming \in Watches \cup {NoWatch} /\ deleting \in Watches \cup {NoWatch}
  /\ ruleCalls \subseteq Fetches \cup Changes
  /\ excused \subseteq Watches

\* When every request has ended, the list has the rules of the server, however often a
\* switch was clicked before it was answered, and whether a deletion came first; except
\* those that somebody else wrote, whose answer was lost, or whose changes crossed a
\* reload or a change to something else.
ListedRulesAgree ==
  ruleCalls = {} /\ firstLoad = "done" =>
    \A w \in Watches \ excused : watches[w] = ruleRows[w]
=============================================================================
