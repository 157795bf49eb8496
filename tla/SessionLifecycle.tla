--------------------------- MODULE SessionLifecycle ---------------------------
(***************************************************************************)
(* What the state store promises its callers: every session has one        *)
(* lifecycle, it starts inactive, and it changes only along the table of   *)
(* validateTransition, one atomic step at a time.  StateStore is shown to  *)
(* implement this specification when each session has a single writer.     *)
(***************************************************************************)
EXTENDS LifecycleTable

CONSTANT Sessions

VARIABLE life

Init == life = [s \in Sessions |-> "inactive"]

Move(s, to) ==
    /\ ValidTransition(life[s], to)
    /\ life' = [life EXCEPT ![s] = to]

Next == \E s \in Sessions, to \in Lifecycle : Move(s, to)

Spec == Init /\ [][Next]_life

=============================================================================
