------------------------------ MODULE MCPiDriver ------------------------------
(* PiDriver for model checking: all constants are given in the .cfg files. *)
EXTENDS PiDriver
=============================================================================
