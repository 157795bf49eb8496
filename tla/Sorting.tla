------------------------------- MODULE Sorting -------------------------------
(***************************************************************************)
(* What the program's uses of the package sort compute.  An order is total *)
(* wherever it is used: a stable sort breaks ties by position.             *)
(***************************************************************************)
EXTENDS Naturals, FiniteSets

\* The member at place k is the one with k - 1 members before it.
SortedBy(S, Earlier(_, _)) ==
    [k \in 1 .. Cardinality(S) |-> CHOOSE x \in S : Cardinality({y \in S : Earlier(y, x)}) = k - 1]

\* The order of two nested loops, by name and then by position.
Lexicographic(p, q) == p[1] < q[1] \/ (p[1] = q[1] /\ p[2] < q[2])

=============================================================================
