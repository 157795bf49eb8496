-------------------------------- MODULE Hooks --------------------------------
(***************************************************************************)
(* The hook chain internal/hook/chain.go, and the skills of                *)
(* internal/skills/registry.go, which are found along another ordered      *)
(* list, as operators.                                                     *)
(*                                                                         *)
(* A hook is a record of its slot, its priority and what Apply returns:    *)
(* "error", "deny" or "allow", and the flow decision (0 for nil).  Hooks   *)
(* are known by their place in the list they are registered with.          *)
(***************************************************************************)
EXTENDS Integers, SequencesExt, Sorting

HardSlots == {"input", "guard"}

\* NewChain: the places of the hooks, by priority in a stable sort.
NewChain(hooks) ==
    LET Earlier(j, k) == \/ hooks[j].priority < hooks[k].priority
                         \/ hooks[j].priority = hooks[k].priority /\ j < k
    IN  SortedBy(DOMAIN hooks, Earlier)

\* Mutant: an error never stops the chain.
StopsOnDeny(slot, result) == slot \in HardSlots /\ result = "deny"

\* The chain ends after a result of this kind.
Stops(slot, result) == slot \in HardSlots /\ result # "allow"

\* One round of the loop.  A hook that fails leaves its warning in a soft slot
\* and the error in a hard one; a denial only counts in a hard one.
ApplyHook(acc, k, hook, slot) ==
    IF acc.over \/ hook.slot # slot THEN acc
    ELSE [over     |-> Stops(slot, hook.result),
          ran      |-> Append(acc.ran, k),
          error    |-> slot \in HardSlots /\ hook.result = "error",
          allow    |-> ~(slot \in HardSlots /\ hook.result = "deny"),
          warnings |-> IF slot \notin HardSlots /\ hook.result = "error"
                       THEN Append(acc.warnings, k) ELSE acc.warnings,
          flow     |-> IF hook.result = "error" \/ Stops(slot, hook.result) \/ hook.flow = 0
                       THEN acc.flow ELSE hook.flow]

Apply(hooks, slot) ==
    LET Round(acc, k) == ApplyHook(acc, k, hooks[k], slot)
    IN  FoldLeft(Round, [over |-> FALSE, ran |-> <<>>, error |-> FALSE, allow |-> TRUE,
                         warnings |-> <<>>, flow |-> 0], NewChain(hooks))

\* The caller goes on: no error and no denial.
Proceeds(outcome) == outcome.allow /\ ~outcome.error

-----------------------------------------------------------------------------
(* LoadAll of the skills *)

\* A scope is a record of its rank, whether its directory is absent, readable or
\* broken, and the skills below it in directory order: a name, and whether
\* skills.Load accepts it (skill.yaml and prompt readable, a name and a
\* description, neither agent nor model).

\* The names of the skills a scope has to offer, ...
ValidNames(scope) == {s.name : s \in {t \in ToSet(scope.skills) : t.valid}}

\* ... and what is found once they are added: a name that is there stays.
AddSkills(scope, found) ==
    [name \in DOMAIN found \cup ValidNames(scope) |->
        IF name \in DOMAIN found THEN found[name] ELSE scope.rank]

\* Mutant: a later scope wins.
AddScopeLast(acc, scope) ==
    CASE scope.dir = "absent" -> acc
      [] scope.dir = "broken" -> [acc EXCEPT !.ok = FALSE]
      [] OTHER -> [acc EXCEPT !.found = [name \in DOMAIN @ \cup ValidNames(scope) |->
                     IF name \in ValidNames(scope) THEN scope.rank ELSE acc.found[name]]]

\* A directory that is not there is passed over, any other error ends the
\* search; a skill that cannot be loaded is passed over in silence.
AddScope(acc, scope) ==
    CASE ~acc.ok \/ scope.dir = "absent" -> acc
      [] acc.ok /\ scope.dir = "broken" -> [acc EXCEPT !.ok = FALSE]
      [] OTHER -> [acc EXCEPT !.found = AddSkills(scope, acc.found)]

\* The places of the scopes, by rank; they have different ranks.
ScopeOrder(scopes) ==
    LET Earlier(j, k) == scopes[j].rank < scopes[k].rank
    IN  SortedBy(DOMAIN scopes, Earlier)

\* The scope every name is loaded from.
LoadAll(scopes) ==
    LET Round(acc, k) == AddScope(acc, scopes[k])
    IN  FoldLeft(Round, [ok |-> TRUE, found |-> [name \in {} |-> 0]], ScopeOrder(scopes))

=============================================================================
