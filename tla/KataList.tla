------------------------------- MODULE KataList -------------------------------
(***************************************************************************)
(* What components/KataList.tsx makes of the catalogue and of a set of     *)
(* completed ids.  A kata is its place in the catalogue's list.            *)
(***************************************************************************)
EXTENDS Integers, FiniteSets

CONSTANTS NumKatas,      \* length of the catalogue
          Prerequisites, \* what must be completed before each kata
          Former,        \* ids that only an earlier catalogue had
          Tabs           \* the browser tabs that show it

Katas == 1 .. NumKatas

\* The order is that of the files; lib/mock-data.ts repeats it.
ASSUME CatalogueAssumption ==
    /\ NumKatas \in Nat
    /\ Prerequisites \in [Katas -> SUBSET Katas]
    /\ \A k \in Katas : \A p \in Prerequisites[k] : p < k
    /\ Former \cap Katas = {}
    /\ IsFiniteSet(Former)

Ids == Katas \cup Former

\* (mutant) Some completed prerequisite instead of every one.
PrerequisitesMet_Some(k, completed) == Prerequisites[k] \cap completed # {}

PrerequisitesMet(k, completed) == Prerequisites[k] \subseteq completed

Icon(k, completed) == IF k \in completed THEN "check"
                      ELSE IF PrerequisitesMet(k, completed) THEN "open" ELSE "lock"

\* The banner compares numbers, not ids.
IsAllClear(completed) == NumKatas > 0 /\ Cardinality(completed) >= NumKatas

\* ProgressBar, in per cent: Math.round, half up.
Percent(completed) ==
    IF NumKatas > 0 THEN (200 * Cardinality(completed) + NumKatas) \div (2 * NumKatas) ELSE 0
=============================================================================
