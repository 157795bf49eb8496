------------------------------- MODULE MCDaemon -------------------------------
(* Two daemons on one lock and one socket, and two clients. *)
EXTENDS Daemon

CONSTANTS d1, d2

=============================================================================
