--------------------------- MODULE MCCircuitDiagram ---------------------------
(***************************************************************************)
(* An instance of CircuitDiagram for TLC.                                  *)
(***************************************************************************)
EXTENDS CircuitDiagram
=============================================================================
