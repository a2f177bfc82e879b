---------------------------- MODULE SlidingWindow ----------------------------
(***************************************************************************)
(* What the rate limiter of POST /api/execute promises, said without its   *)
(* dictionary: every key has the full history of its admitted requests, a  *)
(* request is admitted exactly when fewer than MaxRequests of them lie in  *)
(* the window that ends now, and a refused request leaves no trace.        *)
(* RateLimiter implements this with pruned and evicted lists.              *)
(***************************************************************************)
EXTENDS Integers, Sequences, FiniteSets

CONSTANTS Keys,         \* rate-limit keys
          MaxRequests,  \* _RATE_LIMIT_MAX_REQUESTS
          Window        \* the window's length in clock ticks

VARIABLES clock,        \* time.monotonic(), in ticks
          log,          \* log[k]: the times of k's admitted requests, oldest first
          reply         \* the last answer: whose, and whether it was a 429

vars == <<clock, log, reply>>

NoReply == [key |-> "none", limited |-> FALSE]

Init == /\ clock = 0
        /\ log = [k \in Keys |-> <<>>]
        /\ reply = NoReply

InWindow(k) == {i \in DOMAIN log[k] : log[k][i] > clock - Window}

Admit(k) == /\ Cardinality(InWindow(k)) < MaxRequests
            /\ log' = [log EXCEPT ![k] = Append(@, clock)]
            /\ reply' = [key |-> k, limited |-> FALSE]
            /\ UNCHANGED clock

Refuse(k) == /\ Cardinality(InWindow(k)) >= MaxRequests
             /\ reply' = [key |-> k, limited |-> TRUE]
             /\ UNCHANGED <<clock, log>>

Tick == /\ clock' = clock + 1
        /\ UNCHANGED <<log, reply>>

Next == \/ Tick
        \/ \E k \in Keys : Admit(k) \/ Refuse(k)

Spec == Init /\ [][Next]_vars
=============================================================================
