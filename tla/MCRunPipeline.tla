---------------------------- MODULE MCRunPipeline ----------------------------
(* RunPipeline for model checking: all constants are given in the .cfg files. *)
EXTENDS RunPipeline
=============================================================================
