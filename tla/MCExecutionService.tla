-------------------------- MODULE MCExecutionService --------------------------
(***************************************************************************)
(* Instances of ExecutionService for TLC.                                  *)
(***************************************************************************)
EXTENDS ExecutionService
=============================================================================
