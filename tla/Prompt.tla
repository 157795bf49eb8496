-------------------------------- MODULE Prompt --------------------------------
(***************************************************************************)
(* The prompt builder internal/prompt/prompt.go, as operators.             *)
(*                                                                         *)
(* A section is a record of its name, its estimated tokens                 *)
(* (the words of its content; 0 for a blank one), whether it is required,  *)
(* and its priority; a prompt is the sequence of the names it consists of. *)
(***************************************************************************)
EXTENDS Integers, SequencesExt, Sorting

Required(sections) == {k \in DOMAIN sections : sections[k].required}

\* The sections that are still selected are known by their places.
totalTokens(sections, selected) ==
    LET Add(sum, k) == IF k \in selected THEN sum + sections[k].tokens ELSE sum
    IN  FoldLeft(Add, 0, [k \in DOMAIN sections |-> k])

Optional(sections, selected) == selected \ Required(sections)

\* Mutant: the last of equals goes first.
lowestPriorityOptionalLast(sections, selected) ==
    CHOOSE k \in Optional(sections, selected) : \A j \in Optional(sections, selected) :
        \/ sections[k].priority < sections[j].priority
        \/ sections[k].priority = sections[j].priority /\ k >= j

lowestPriorityOptionalIndex(sections, selected) ==
    CHOOSE k \in Optional(sections, selected) : \A j \in Optional(sections, selected) :
        \/ sections[k].priority < sections[j].priority
        \/ sections[k].priority = sections[j].priority /\ k <= j

\* One round of the loop.
OmitAt(sections, acc, k) ==
    [acc EXCEPT !.selected = @ \ {k}, !.omitted = Append(@, sections[k].name)]

Omit(sections, acc, max) ==
    IF totalTokens(sections, acc.selected) <= max \/ ~acc.ok THEN acc
    ELSE IF Optional(sections, acc.selected) = {} THEN [acc EXCEPT !.ok = FALSE]
    ELSE OmitAt(sections, acc, lowestPriorityOptionalIndex(sections, acc.selected))

\* A budget of 0 or less is none.  The loop makes at most one round for every
\* section.
selectSections(sections, max) ==
    LET Round(acc, k) == Omit(sections, acc, max)
        all == [ok |-> TRUE, selected |-> DOMAIN sections, omitted |-> <<>>]
    IN  IF max <= 0 THEN all
        ELSE IF totalTokens(sections, Required(sections)) > max THEN [all EXCEPT !.ok = FALSE]
        ELSE FoldLeft(Round, all, [k \in 1 .. Len(sections) + 1 |-> k])

\* The sections in their order; blank ones are left out.
NamesInOrder(sections, order) == [k \in DOMAIN order |-> sections[order[k]].name]

BuildPrompt(sections, max) ==
    LET chosen == selectSections(sections, max)
    IN  [ok |-> chosen.ok,
         prompt |-> NamesInOrder(sections, SortedBy({k \in chosen.selected : sections[k].tokens > 0}, <)),
         omitted |-> chosen.omitted]

-----------------------------------------------------------------------------
(* What they should compute *)

\* j goes before k.
LessImportant(sections, j, k) ==
    \/ sections[j].priority < sections[k].priority
    \/ sections[j].priority = sections[k].priority /\ j < k

\* The sections that are kept if k is the least important optional one that is:
\* the required ones, k and the optional ones above it.
KeptFrom(sections, k) ==
    {j \in DOMAIN sections :
        sections[j].required \/ j = k \/ LessImportant(sections, k, j)}

Weight(sections, kept) == SumFunctionOnSet([j \in DOMAIN sections |-> sections[j].tokens], kept)

\* As many of the optional sections as fit, the most important ones.
KeptWithin(sections, max) ==
    LET fitting == {k \in Optional(sections, DOMAIN sections) :
                       Weight(sections, KeptFrom(sections, k)) <= max}
    IN  Required(sections) \cup (UNION {KeptFrom(sections, k) : k \in fitting})

=============================================================================
