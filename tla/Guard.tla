-------------------------------- MODULE Guard --------------------------------
(***************************************************************************)
(* The tool guard: Evaluate of internal/guard/guard.go, which folds the    *)
(* answers of the rules into one decision, and handleToolBefore of         *)
(* internal/orchestrator/orchestrator.go, which turns the decision into    *)
(* the host's answer and a storage event.                                  *)
(*                                                                         *)
(* A rule is its position in the list, which also stands for its ID; what  *)
(* it answers is chosen at the start.  A tool is known by whether it is    *)
(* destructive; a path pattern by the set of paths it matches.             *)
(* Reasons and warning texts are left out.                                 *)
(***************************************************************************)
EXTENDS Naturals

CONSTANTS
    NumRules,       \* length of Dependencies.GuardRules
    Answers,        \* what rules may answer: decisions and Err
    Err,            \* the rule returns an error
    Tools,          \* values of GuardInput.Tool
    Destructive,    \* the tools isDestructive knows
    Files,          \* paths a tool call may name
    NoPath,         \* the tool call names no path
    SuppressionSets \* values of Dependencies.GuardSuppressions

Rules == 1 .. NumRules

\* Actions and severities other than the named ones are ranked lowest.
actionRank(action) ==
    CASE action = "block" -> 3 [] action = "warn" -> 2 [] action = "allow" -> 1 [] OTHER -> 0

severityRank(severity) ==
    CASE severity = "danger" -> 3 [] severity = "warning" -> 2 [] severity = "info" -> 1 [] OTHER -> 0

Actions == {"", "allow", "warn", "block", "other"}
Severities == {"", "info", "warning", "danger"}
Decisions == [action : Actions, severity : Severities, rule : 0 .. NumRules]
RuleAnswers == [action : Actions, severity : Severities]

ASSUME ConstantsAssumption ==
    /\ NumRules \in Nat
    /\ Err \notin RuleAnswers
    /\ Answers \subseteq RuleAnswers \cup {Err}
    /\ Destructive \subseteq Tools
    /\ NoPath \notin Files

VARIABLES
    tool, path,   \* the tool call
    answers,      \* rule -> what it answers to this call
    suppressions, \* the suppressions of the project
    i,            \* the rule Evaluate looks at next
    decision,     \* result.Decision
    suppressed,   \* result.SuppressedRules
    warned,       \* the rules whose error is in result.Warnings
    answer,       \* the action of the response: "pending", "none", "warn", "block"
    recorded      \* the storage event: "pending", "lost", "started", "blocked"

input == <<tool, path, answers, suppressions>>
vars == <<input, i, decision, suppressed, warned, answer, recorded>>

TypeOK ==
    /\ tool \in Tools
    /\ answers \in [Rules -> Answers]
    /\ i \in 1 .. NumRules + 1
    /\ decision \in Decisions
    /\ suppressed \subseteq Rules
    /\ warned \subseteq Rules
    /\ answer \in {"pending", "none", "warn", "block"}
    /\ recorded \in {"pending", "lost", "started", "blocked"}

\* Rule 0 is "default-allow".
DefaultAllow == [action |-> "allow", severity |-> "info", rule |-> 0]

Init ==
    /\ tool \in Tools
    /\ path \in Files \cup {NoPath}
    /\ answers \in [Rules -> Answers]
    /\ suppressions \in SuppressionSets
    /\ i = 1
    /\ decision = DefaultAllow
    /\ suppressed = {}
    /\ warned = {}
    /\ answer = "pending"
    /\ recorded = "pending"

-----------------------------------------------------------------------------
(* Evaluate *)

\* A suppression needs a reason, the scope "project" and something that narrows
\* it.
validSuppression(s) ==
    /\ s.reason
    /\ s.scope = "project"
    /\ s.paths # {} \/ s.tools # {}

pathMatches(p, patterns) == p # NoPath /\ \E pattern \in patterns : p \in pattern

suppressionApplies(r) ==
    \E s \in suppressions :
        /\ validSuppression(s)
        /\ s.rule = r
        /\ s.tools # {} => tool \in s.tools
        /\ s.paths # {} => pathMatches(path, s.paths)

\* Mutant: a rule that cannot decide warns.
errorDecisionWarns(r) == [action |-> "warn", severity |-> "danger", rule |-> r]

\* A rule that cannot decide blocks a destructive tool and lets others pass.
errorDecision(r) ==
    IF tool \in Destructive
    THEN [action |-> "block", severity |-> "danger", rule |-> r]
    ELSE [action |-> "allow", severity |-> "warning", rule |-> r]

\* What counts for rule r: its answer, with errors and empty actions replaced.
RuleDecision(r) ==
    IF answers[r] = Err THEN errorDecision(r)
    ELSE IF answers[r].action = "" THEN [action |-> "allow", severity |-> "info", rule |-> r]
    ELSE [action |-> answers[r].action, severity |-> answers[r].severity, rule |-> r]

stricter(left, right) == actionRank(left) > actionRank(right)

\* Mutant: severity decides before the action does.
ReplacesBySeverity(new, old) ==
    \/ severityRank(new.severity) > severityRank(old.severity)
    \/ new.severity = old.severity /\ stricter(new.action, old.action)

\* The new decision replaces the old one.
Replaces(new, old) ==
    \/ stricter(new.action, old.action)
    \/ new.action = old.action /\ severityRank(new.severity) > severityRank(old.severity)

Suppress ==
    /\ i \in Rules
    /\ suppressionApplies(i)
    /\ suppressed' = suppressed \cup {i}
    /\ i' = i + 1
    /\ UNCHANGED <<input, decision, warned, answer, recorded>>

EvaluateRule ==
    /\ i \in Rules
    /\ ~suppressionApplies(i)
    /\ decision' = IF Replaces(RuleDecision(i), decision) THEN RuleDecision(i) ELSE decision
    /\ warned' = IF answers[i] = Err /\ tool \notin Destructive THEN warned \cup {i} ELSE warned
    /\ i' = i + 1
    /\ UNCHANGED <<input, suppressed, answer, recorded>>

-----------------------------------------------------------------------------
(* handleToolBefore *)

ProtocolAction(action) ==
    CASE action = "block" -> "block" [] action = "warn" -> "warn" [] OTHER -> "none"

\* The event is recorded or its loss noted as a warning; the answer is the same.
Respond ==
    /\ i = NumRules + 1
    /\ answer = "pending"
    /\ answer' = ProtocolAction(decision.action)
    /\ recorded' \in {"lost", IF answer' = "block" THEN "blocked" ELSE "started"}
    /\ UNCHANGED <<input, i, decision, suppressed, warned>>

Done == answer # "pending" /\ UNCHANGED vars

Next == Suppress \/ EvaluateRule \/ Respond \/ Done

Spec == Init /\ [][Next]_vars

-----------------------------------------------------------------------------
(* Properties *)

\* The rules that have had their say.
Heard(n) == {r \in Rules : r < n /\ ~suppressionApplies(r)}

Weaker(d, e) ==
    \/ actionRank(d.action) < actionRank(e.action)
    \/ actionRank(d.action) = actionRank(e.action) /\ severityRank(d.severity) <= severityRank(e.severity)

\* After any number of rules the decision is the strictest one so far, by action
\* and then by severity, the earliest of equals, whatever the order of the rules
\* (guard.go:95-99): it is the answer of a rule that was heard, or the default.
DecisionIsStrictest ==
    /\ \A r \in Heard(i) :
          /\ Weaker(RuleDecision(r), decision)
          /\ r < decision.rule => ~Weaker(decision, RuleDecision(r))
    /\ Weaker(DefaultAllow, decision)
    /\ \/ decision = DefaultAllow
       \/ \E r \in Heard(i) : decision = RuleDecision(r)

\* The guard fails closed: if some rule that is not suppressed blocks the call,
\* or fails on a destructive tool, the host is told to block, even if other rules
\* allow it or storage does not work; and only then (guard.go:84-90, 104-110,
\* orchestrator.go:102-135).
FailsClosed ==
    answer # "pending" =>
        (answer = "block" <=>
            \E r \in Rules :
                /\ ~suppressionApplies(r)
                /\ \/ answers[r] = Err /\ tool \in Destructive
                   \/ answers[r] # Err /\ answers[r].action = "block")

=============================================================================
