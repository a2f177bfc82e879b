---------------------------- MODULE CompletionBook ----------------------------
(***************************************************************************)
(* What a kata page promises a learner about completions: a submission is  *)
(* of one kata and is answered at most once; an answer that says "passed"  *)
(* enters exactly that kata, keeps every other entry, those of other tabs  *)
(* included, and the page then shows the book as it is; a refused one      *)
(* changes nothing; and nothing else makes an entry.  KataPage implements  *)
(* this among navigation, reloads and answers in any order.                *)
(***************************************************************************)
CONSTANTS Katas,
          Slots,  \* bound: submissions that may be under way
          None    \* no submission

VARIABLES pending,    \* the kata that each slot's submission is of
          completed,  \* the entries of the book
          shown       \* the entries that the page shows

vars == <<pending, completed, shown>>

Init == /\ pending = [s \in Slots |-> None]
        /\ completed = {}
        /\ shown = {}

Submit(s, k) == /\ pending[s] = None
                /\ pending' = [pending EXCEPT ![s] = k]
                /\ UNCHANGED <<completed, shown>>

Answer(s) == /\ pending[s] # None
             /\ pending' = [pending EXCEPT ![s] = None]

Pass(s) == /\ Answer(s)
           /\ completed' = completed \cup {pending[s]}
           /\ shown' = completed'

Refuse(s) == Answer(s) /\ UNCHANGED <<completed, shown>>

\* The page is loaded again: what was under way is lost, the book is not.
Reopen == /\ pending' = [s \in Slots |-> None]
          /\ shown' = completed
          /\ UNCHANGED completed

\* An entry of another tab, which this page does not notice by itself.
EntryElsewhere(k) == /\ completed' = completed \cup {k}
                     /\ UNCHANGED <<pending, shown>>

Next == \/ \E s \in Slots : Pass(s) \/ Refuse(s) \/ \E k \in Katas : Submit(s, k)
        \/ \E k \in Katas : EntryElsewhere(k)
        \/ Reopen

Spec == Init /\ [][Next]_vars
=============================================================================
