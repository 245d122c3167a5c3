-------------------------- MODULE MCRuntimeSession --------------------------
(* RuntimeSession for model checking. *)
EXTENDS RuntimeSession, TLC
=============================================================================
