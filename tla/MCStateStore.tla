---------------------------- MODULE MCStateStore ----------------------------
(* Instances of StateStore for model checking. *)
EXTENDS StateStore, TLC

CONSTANTS p1, p2, h1, h2

\* Two goroutines of one host: the first owns every session and sweeps, both
\* write the root record.
SharedHostOf == (p1 :> h1) @@ (p2 :> h1)
OneAccess == {p1} \X Sessions

\* Two processes in two hosts (a daemon and an inline command), every session
\* reachable from both.
TwoHostOf == (p1 :> h1) @@ (p2 :> h2)
AllAccess == {p1, p2} \X Sessions
=============================================================================
