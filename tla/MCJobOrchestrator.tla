------------------------- MODULE MCJobOrchestrator -------------------------
(***************************************************************************)
(* JobOrchestrator with two error tasks: enough for two calls of close     *)
(* that would wait for each other.                                         *)
(***************************************************************************)
EXTENDS JobOrchestrator
=============================================================================
