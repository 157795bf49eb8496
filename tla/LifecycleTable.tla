---------------------------- MODULE LifecycleTable ----------------------------
(***************************************************************************)
(* The lifecycle values of a session and the transition table of           *)
(* internal/state/state.go.  No state: this module is shared by the        *)
(* abstract session lifecycle, the state store that implements it and the  *)
(* run pipeline that drives it.                                            *)
(***************************************************************************)

Lifecycle == {"inactive", "running", "blocked", "ask_user",
              "finished", "failed", "cancelled"}

\* isTerminal
Terminal == {"finished", "failed", "cancelled"}

\* The map literal `allowed' of validateTransition; a lifecycle that is not a
\* key of the map has no successor.
Allowed(from) ==
    CASE from = "inactive" -> {"running"}
      [] from = "running"  -> {"blocked", "ask_user", "finished", "failed", "cancelled"}
      [] from = "blocked"  -> {"running", "failed", "cancelled"}
      [] from = "ask_user" -> {"running", "failed", "cancelled"}
      [] OTHER             -> {}

\* validateTransition returns nil
ValidTransition(from, to) ==
    /\ from \notin Terminal
    /\ to \in Allowed(from)

=============================================================================
