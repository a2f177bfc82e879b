---------------------------- MODULE CatalogueCell ----------------------------
(***************************************************************************)
(* What the kata registry promises its callers: one cell that holds the    *)
(* catalogue.  It is built only while there is none, by one caller for     *)
(* all; a call is answered with the cell's content at one moment of the    *)
(* call, or fails by its own attempt to build, which leaves the cell empty *)
(* for the next; and a caller finds the cell empty only if it was cleared  *)
(* while the call was under way.  KataRegistry implements this with        *)
(* double-checked locking.                                                 *)
(***************************************************************************)
EXTENDS Integers

CONSTANTS Callers

VARIABLES cell,       \* the catalogue's number; Empty while there is none
          made,       \* catalogues built so far
          call,       \* call[t] is "idle", "pending" or "done"
          answer,     \* answer[t] is what t's latest finished call got
          overlapped  \* calls during which the cell was cleared

vars == <<cell, made, call, answer, overlapped>>

Empty == 0
Failed == -1

Init == /\ cell = Empty
        /\ made = 0
        /\ call = [t \in Callers |-> "idle"]
        /\ answer = [t \in Callers |-> Empty]
        /\ overlapped = {}

Invoke(t) == /\ call[t] = "idle"
             /\ call' = [call EXCEPT ![t] = "pending"]
             /\ UNCHANGED <<cell, made, answer, overlapped>>

\* Some caller builds the next catalogue on behalf of all.
Build(t) == /\ call[t] = "pending"
            /\ cell = Empty
            /\ made' = made + 1
            /\ cell' = made + 1
            /\ UNCHANGED <<call, answer, overlapped>>

Finish(t, result) == /\ call[t] = "pending"
                     /\ call' = [call EXCEPT ![t] = "done"]
                     /\ answer' = [answer EXCEPT ![t] = result]
                     /\ UNCHANGED <<cell, made, overlapped>>

Get(t) == /\ cell # Empty \/ t \in overlapped
          /\ Finish(t, cell)

Fail(t) == cell = Empty /\ Finish(t, Failed)

Return(t) == /\ call[t] = "done"
             /\ call' = [call EXCEPT ![t] = "idle"]
             /\ overlapped' = overlapped \ {t}
             /\ UNCHANGED <<cell, made, answer>>

\* The cell is emptied under the calls that are under way.
Clear == /\ cell' = Empty
         /\ overlapped' = overlapped \cup {t \in Callers : call[t] = "pending"}
         /\ UNCHANGED <<made, call, answer>>

Next == \/ Clear
        \/ \E t \in Callers : Invoke(t) \/ Build(t) \/ Get(t) \/ Fail(t) \/ Return(t)

Spec == Init /\ [][Next]_vars
=============================================================================
