---------------------------- MODULE TwoModeClient ----------------------------
(***************************************************************************)
(* What the API client promises the pages: one of its calls finds out once *)
(* whether there is a backend, every call made after that is answered in   *)
(* the mode that was found, and every call is answered once.  A call made  *)
(* while the search is under way does not wait for it and may be answered  *)
(* by the backend whatever the search finds.  ApiClient implements this    *)
(* with two flags, a time limit and retries.                               *)
(***************************************************************************)
CONSTANTS Calls

VARIABLES mode,  \* "unknown" until the search has ended, then "mock" or "backend"
          state, \* state[c] is "idle", "open", or who answered c
          early  \* calls made while the search was under way

vars == <<mode, state, early>>

Modes == {"mock", "backend"}

Init == /\ mode = "unknown"
        /\ state = [c \in Calls |-> "idle"]
        /\ early = {}

Moves(c, s) == state' = [state EXCEPT ![c] = s]

\* The first call searches; the mock answers at once.
Ask(c) ==
    /\ state[c] = "idle"
    /\ Moves(c, IF mode = "mock" THEN "mock" ELSE "open")
    /\ early' = IF mode = "unknown" /\ \E d \in Calls : state[d] # "idle"
                THEN early \cup {c} ELSE early
    /\ UNCHANGED mode

\* The search of call c ends.
Decide(c, m) ==
    /\ mode = "unknown"
    /\ state[c] = "open"
    /\ c \notin early
    /\ mode' = m
    /\ Moves(c, IF m = "mock" THEN "mock" ELSE "open")
    /\ UNCHANGED early

Answer(c, m) ==
    /\ state[c] = "open"
    /\ m = mode \/ (m = "backend" /\ c \in early)
    /\ Moves(c, m)
    /\ UNCHANGED <<mode, early>>

Next == \E c \in Calls : \/ Ask(c)
                         \/ \E m \in Modes : Decide(c, m) \/ Answer(c, m)

Spec == Init /\ [][Next]_vars
=============================================================================
