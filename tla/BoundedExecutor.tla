--------------------------- MODULE BoundedExecutor ---------------------------
(***************************************************************************)
(* What the sandbox promises its callers: at most Capacity submissions run *)
(* at a time, a submission is turned away as "busy" only when Capacity     *)
(* others are running, and every submission is settled, once.              *)
(* ExecutionService implements this with a thread pool, a semaphore and    *)
(* one child process per run.                                              *)
(***************************************************************************)
EXTENDS Naturals, FiniteSets

CONSTANTS Requests,  \* submissions
          Capacity   \* how many may run at a time

VARIABLES waiting,   \* submitted, neither running nor settled
          running,   \* holding a slot
          settled,   \* answered, or about to be
          refused    \* those of the settled that were turned away as busy

vars == <<waiting, running, settled, refused>>

Init == /\ waiting = {}
        /\ running = {}
        /\ settled = {}
        /\ refused = {}

Submit(r) == /\ r \notin waiting \cup running \cup settled
             /\ waiting' = waiting \cup {r}
             /\ UNCHANGED <<running, settled, refused>>

\* Settled without a run: the submission itself is at fault.
Reject(r) == /\ r \in waiting
             /\ waiting' = waiting \ {r}
             /\ settled' = settled \cup {r}
             /\ UNCHANGED <<running, refused>>

Start(r) == /\ r \in waiting
            /\ Cardinality(running) < Capacity
            /\ waiting' = waiting \ {r}
            /\ running' = running \cup {r}
            /\ UNCHANGED <<settled, refused>>

TurnAway(r) == /\ r \in waiting
               /\ Cardinality(running) = Capacity
               /\ waiting' = waiting \ {r}
               /\ settled' = settled \cup {r}
               /\ refused' = refused \cup {r}
               /\ UNCHANGED running

Finish(r) == /\ r \in running
             /\ running' = running \ {r}
             /\ settled' = settled \cup {r}
             /\ UNCHANGED <<waiting, refused>>

Leave(r) == Reject(r) \/ Start(r) \/ TurnAway(r)

Next == \E r \in Requests : Submit(r) \/ Leave(r) \/ Finish(r)

Fairness == \A r \in Requests : WF_vars(Leave(r)) /\ WF_vars(Finish(r))

SafeSpec == Init /\ [][Next]_vars
Spec == SafeSpec /\ Fairness
=============================================================================
