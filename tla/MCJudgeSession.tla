---------------------------- MODULE MCJudgeSession ----------------------------
(***************************************************************************)
(* Instances of JudgeSession for TLC.                                      *)
(***************************************************************************)
EXTENDS JudgeSession, TLC

Symmetry == Permutations(Vars)
=============================================================================
