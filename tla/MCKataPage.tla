------------------------------ MODULE MCKataPage ------------------------------
(***************************************************************************)
(* Instances of KataPage for TLC.                                          *)
(***************************************************************************)
EXTENDS KataPage
=============================================================================
