---------------------------- MODULE MCLearnerTabs ----------------------------
(***************************************************************************)
(* An instance of LearnerTabs for TLC.                                     *)
(***************************************************************************)
EXTENDS LearnerTabs, TLC

\* The second kata of the catalogue needs the first.
Chain == [k \in Katas |-> 1 .. (k - 1)]

\* Two hints on the first page, one on any other.
FewHints == [k \in Katas |-> IF k = 1 THEN 2 ELSE 1]

TabSymmetry == Permutations(Tabs)
=============================================================================
