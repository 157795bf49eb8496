-------------------------------- MODULE Route --------------------------------
(***************************************************************************)
(* Routing of a user's input to an agent: internal/route/route.go, as      *)
(* operators.                                                              *)
(*                                                                         *)
(* A trigger is a record of a domain, the terms of its pattern and a       *)
(* priority.  An input is known by the terms it contains, those of them it *)
(* contains as a doubt ("maybe t", "t?"), and the kinds of procedure words *)
(* it contains.                                                            *)
(***************************************************************************)
EXTENDS Integers, SequencesExt, Sorting

\* The order in which procedureFor looks for words.
Procedures == <<"cancel", "interview", "plan", "review", "verify", "execute">>

procedureFor(text) ==
    IF ToSet(Procedures) \cap text.words = {} THEN "none"
    ELSE SelectSeq(Procedures, LAMBDA p : p \in text.words)[1]

\* The terms that match, as places in the pattern: repeated ones count each time.
matchedTerms(text, trigger) == {k \in DOMAIN trigger.terms : trigger.terms[k] \in text.terms}

weakMatch(text, trigger, matched) ==
    Cardinality(matched) = 1 /\ \E k \in matched : trigger.terms[k] \in text.doubts

Match(text, name, trigger) ==
    LET matched == matchedTerms(text, trigger)
    IN  [agent |-> name, domain |-> trigger.domain, count |-> Cardinality(matched),
         priority |-> trigger.priority, weak |-> weakMatch(text, trigger, matched)]

\* Mutant: the priority comes first.
BeforePriority(m, n) ==
    \/ m.priority > n.priority
    \/ m.priority = n.priority /\ m.count > n.count
    \/ m.priority = n.priority /\ m.count = n.count /\ m.agent < n.agent

\* The order of the matches.
Before(m, n) ==
    \/ m.count > n.count
    \/ m.count = n.count /\ m.priority > n.priority
    \/ m.count = n.count /\ m.priority = n.priority /\ m.agent < n.agent

\* The triggers, by agent name and position.
Places(triggers) == UNION {{name} \X DOMAIN triggers[name] : name \in DOMAIN triggers}

MatchAt(text, triggers, place) == Match(text, place[1], triggers[place[1]][place[2]])

\* The matches of all triggers, in a stable sort.
findMatches(text, triggers) ==
    LET At(p) == MatchAt(text, triggers, p)
        Earlier(p, q) == Before(At(p), At(q)) \/ (~Before(At(q), At(p)) /\ Lexicographic(p, q))
        order == SortedBy({p \in Places(triggers) : At(p).count > 0}, Earlier)
    IN  [k \in DOMAIN order |-> At(order[k])]

confidenceFor(m) ==
    CASE m.count >= 2 -> "high"
      [] m.count < 2 /\ m.weak -> "low"
      [] OTHER -> "medium"

\* triggers maps the registry's agents to their triggers, cautious is the set of
\* those with that autonomy.  Agent 0 stands for none.
RouteOf(text, triggers, cautious) ==
    LET matches == findMatches(text, triggers)
        best == matches[1]
        procedure == procedureFor(text)
    IN  IF matches = <<>>
        THEN [procedure |-> "none", domain |-> "", agent |-> 0, confidence |-> "low", requiresUser |-> FALSE]
        ELSE [procedure |-> IF procedure = "none" THEN "execute" ELSE procedure,
              domain |-> best.domain, agent |-> best.agent, confidence |-> confidenceFor(best),
              requiresUser |-> best.agent \in cautious /\ confidenceFor(best) = "low"]

-----------------------------------------------------------------------------
(* What it should compute *)

Hits(text, trigger) == Cardinality({k \in DOMAIN trigger.terms : trigger.terms[k] \in text.terms})

\* The triggers no other trigger beats, by number of hits, then priority.
BestTriggers(text, triggers) ==
    LET Score(p) == <<Hits(text, triggers[p[1]][p[2]]), triggers[p[1]][p[2]].priority>>
        Beats(p, q) == \/ Score(p)[1] > Score(q)[1]
                       \/ Score(p)[1] = Score(q)[1] /\ Score(p)[2] > Score(q)[2]
    IN  {p \in Places(triggers) : Score(p)[1] > 0 /\ \A q \in Places(triggers) : ~Beats(q, p)}

=============================================================================
