------------------------------ MODULE MCObserver ------------------------------
(* Observer for model checking: a workspace that is clean or has a changed file. *)
EXTENDS Observer

MCTrees == {[changed |-> c, other |-> FALSE] : c \in {{}, Files}}
=============================================================================
