---------------------------- MODULE MCKataRegistry ----------------------------
(***************************************************************************)
(* Instances of KataRegistry for TLC.                                      *)
(***************************************************************************)
EXTENDS KataRegistry, TLC
=============================================================================
