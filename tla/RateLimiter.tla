----------------------------- MODULE RateLimiter -----------------------------
(***************************************************************************)
(* The in-memory rate limiter in front of POST /api/execute                *)
(* (backend/src/quantum_katas/routers/execute.py).                         *)
(*                                                                         *)
(* The handler is a coroutine that calls the synchronous _is_rate_limited  *)
(* without an await, so one call (sample the clock, evict stale clients,   *)
(* prune the caller's list, deny or admit) is one step of the event loop   *)
(* and one action here.  Time is a whole number of ticks, TicksPerSecond   *)
(* of them to a second, so that what int() cuts off can be seen.           *)
(*                                                                         *)
(* log and promise are history variables: no action's guard reads them.    *)
(***************************************************************************)
EXTENDS Integers, Sequences, FiniteSets

CONSTANTS Ips,             \* transport-level peer addresses
          Tokens,          \* the "anon-<uuid4>" keys that can still be drawn
          MaxRequests,     \* _RATE_LIMIT_MAX_REQUESTS
          WindowSeconds,   \* _RATE_LIMIT_WINDOW_SECONDS
          TicksPerSecond,  \* resolution of time.monotonic()
          MaxClock         \* bound: the clock stops here

Keys == Ips \cup Tokens

ASSUME RateAssumption ==
    /\ MaxRequests \in Nat \ {0}
    /\ WindowSeconds \in Nat \ {0}
    /\ TicksPerSecond \in Nat \ {0}
    /\ MaxClock \in Nat
    /\ Ips \cap Tokens = {}

VARIABLES clock,    \* time.monotonic()
          store,    \* _rate_limit_store: a dict from some keys to their times
          used,     \* tokens already drawn: uuid4 never repeats
          log,      \* log[k]: every time at which a request of k was admitted
          reply,    \* what the last call returned, and for which key
          promise   \* when the last Retry-After told k to come back; 0: never

vars == <<clock, store, used, log, reply, promise>>

\* (mutant) Clients are evicted before their requests have left the window.
EvictionSeconds_TooShort == WindowSeconds \div 2

EvictionSeconds == WindowSeconds * 2
Window == WindowSeconds * TicksPerSecond
Eviction == EvictionSeconds * TicksPerSecond

NoReply == [key |-> "none", limited |-> FALSE, retryAfter |-> 0]

Init == /\ clock = 0
        /\ store = [k \in {} |-> <<>>]
        /\ used = {}
        /\ log = [k \in Keys |-> <<>>]
        /\ reply = NoReply
        /\ promise = [k \in Keys |-> 0]
-----------------------------------------------------------------------------
\* (mutant) The dict is replaced, not updated.
Put_Replaces(dict, k, v) == [x \in {k} |-> v]

Put(dict, k, v) == [x \in DOMAIN dict \cup {k} |-> IF x = k THEN v ELSE dict[x]]

\* The j-th smallest member of a set of indices.
Nth(S, j) == CHOOSE i \in S : Cardinality({h \in S : h =< i}) = j

\* (mutant) A request that is exactly as old as the window still counts.
Prune_Inclusive(ts) ==
    LET live == {i \in DOMAIN ts : ts[i] >= clock - Window}
    IN  [j \in 1 .. Cardinality(live) |-> ts[Nth(live, j)]]

\* [ts for ts in timestamps if ts > cutoff]
Prune(ts) ==
    LET live == {i \in DOMAIN ts : ts[i] > clock - Window}
    IN  [j \in 1 .. Cardinality(live) |-> ts[Nth(live, j)]]

\* (mutant) Only empty lists are evicted.
Stale_OnlyEmpty(ts) == ts = <<>>

\* A list nobody appended to during the eviction window.
Stale(ts) == ts = <<>> \/ ts[Len(ts)] < clock - Eviction

\* The dict once the stale clients are deleted.
Swept == [k \in {k \in DOMAIN store : ~Stale(store[k])} |-> store[k]]

\* The caller's list as the limit sees it: swept first, pruned next.
Kept(k) == IF k \in DOMAIN Swept THEN Prune(Swept[k]) ELSE <<>>

Full(ts) == Len(ts) >= MaxRequests

\* (mutant) Rounded down, without the plus one.
RetryAfter_RoundedDown(ts) == (Window - (clock - ts[1])) \div TicksPerSecond

\* (mutant) Rounded up, plus one.
RetryAfter_RoundedUp(ts) == (Window - (clock - ts[1])) \div TicksPerSecond + 2

\* Whole seconds (int() rounds the positive difference down) plus one.
RetryAfter(ts) == (Window - (clock - ts[1])) \div TicksPerSecond + 1

\* _is_rate_limited returns (True, retry_after).
Deny(k) ==
    /\ Full(Kept(k))
    /\ store' = Put(Swept, k, Kept(k))
    /\ reply' = [key |-> k, limited |-> TRUE, retryAfter |-> RetryAfter(Kept(k))]
    /\ promise' = [promise EXCEPT
                     ![k] = clock + RetryAfter(Kept(k)) * TicksPerSecond]
    /\ UNCHANGED <<clock, log>>

\* _is_rate_limited returns (False, 0).
Admit(k) ==
    /\ ~Full(Kept(k))
    /\ store' = Put(Swept, k, Append(Kept(k), clock))
    /\ log' = [log EXCEPT ![k] = Append(@, clock)]
    /\ reply' = [key |-> k, limited |-> FALSE, retryAfter |-> 0]
    /\ promise' = [promise EXCEPT ![k] = 0]
    /\ UNCHANGED clock

IsRateLimited(k) == Deny(k) \/ Admit(k)

\* The request has a peer address.
ExecuteFrom(ip) == /\ IsRateLimited(ip)
                   /\ UNCHANGED used

\* (mutant) Clients without an address share a key.
Fresh_Shared(t) == TRUE

\* A key no earlier request was given.
Fresh(t) == t \notin used

\* raw_request.client is None: the request is its own client.
ExecuteAnon(t) == /\ Fresh(t)
                  /\ IsRateLimited(t)
                  /\ used' = used \cup {t}

Tick == /\ clock < MaxClock
        /\ clock' = clock + 1
        /\ UNCHANGED <<store, used, log, reply, promise>>

Next == \/ Tick
        \/ \E ip \in Ips : ExecuteFrom(ip)
        \/ \E t \in Tokens : ExecuteAnon(t)

Spec == Init /\ [][Next]_vars
-----------------------------------------------------------------------------
Times == Seq(0 .. MaxClock)

\* The state's shape: at most MaxRequests times are ever stored for a client,
\* and Retry-After is between 1 and the window plus one (the bound that
\* tests/test_rate_limit.py checks for one denial).
TypeOK ==
    /\ clock \in 0 .. MaxClock
    /\ DOMAIN store \subseteq Keys
    /\ \A k \in DOMAIN store : /\ store[k] \in Times
                               /\ Len(store[k]) =< MaxRequests
    /\ used \subseteq Tokens
    /\ log \in [Keys -> Times]
    /\ \/ reply = NoReply
       \/ /\ reply.key \in Keys
          /\ \/ reply.limited /\ reply.retryAfter \in 1 .. WindowSeconds + 1
             \/ ~reply.limited /\ reply.retryAfter = 0
    /\ promise \in [Keys -> Nat]

\* A request admitted at time t no longer counts.
Expired(t) == t + Window =< clock

\* The dict entry of k, or the default that dict.get supplies.
Stored(k) == IF k \in DOMAIN store THEN store[k] ELSE <<>>

\* The limit itself, over the whole history: however eviction and pruning
\* interleave with the calls, no window holds more than MaxRequests admissions
\* of one client.
SlidingWindowBound ==
    \A k \in Keys : \A i \in DOMAIN log[k] :
        i > MaxRequests => log[k][i - MaxRequests] + Window =< log[k][i]

\* Admissions are recorded in the order in which they happened.
HistoryOrdered ==
    \A k \in Keys : \A j \in DOMAIN log[k] :
        /\ log[k][j] =< clock
        /\ \A i \in 1 .. j : log[k][i] =< log[k][j]

\* What the store may forget: a stored list is the end of the client's history,
\* and everything pruned or evicted before it has left the window.  The bound
\* rests on this.
RecentHistory(k) ==
    LET m == Len(log[k]) - Len(Stored(k))
    IN  /\ m >= 0
        /\ \A i \in DOMAIN Stored(k) : Stored(k)[i] = log[k][m + i]
        /\ \A i \in 1 .. m : Expired(log[k][i])

StoreIsRecentHistory == \A k \in Keys : RecentHistory(k)

\* The time at which the request that blocks k leaves the window.
SlotFree(k) == log[k][Len(log[k]) - MaxRequests + 1] + Window

\* A denied client is told to come back after a slot is free, and at most one
\* second after, however the position inside a second is rounded.
RetryAfterTight ==
    \A k \in Keys : promise[k] > 0 =>
        /\ Len(log[k]) >= MaxRequests
        /\ SlotFree(k) < promise[k]
        /\ promise[k] =< SlotFree(k) + TicksPerSecond

\* A client that was denied and waits as long as Retry-After said finds a slot,
\* whatever other clients did meanwhile.
RetryAfterSuffices ==
    \A k \in Keys : promise[k] > 0 /\ clock >= promise[k] => ~Full(Kept(k))

\* A client without an address is never denied: its key is new every time.
AnonNeverLimited == reply.key \in Tokens => ~reply.limited

\* The dict cannot grow without bound: every call, denied or not, leaves only
\* lists of clients that were admitted within the eviction window.
StoreSwept ==
    [][clock' = clock =>
         \A k \in DOMAIN store' :
            /\ store'[k] # <<>>
            /\ store'[k][Len(store'[k])] >= clock - Eviction]_vars

\* A call of one client neither uses up nor gives back the budget of another,
\* although it may evict the other's list.
OthersKeepBudget ==
    clock' = clock => \A k \in Keys \ {reply'.key} : Kept(k)' = Kept(k)

ClientsIsolated == [][OthersKeepBudget]_vars

\* The pruned and evicted lists decide exactly as the full history would.
SW == INSTANCE SlidingWindow
        WITH reply <- [key |-> reply.key, limited |-> reply.limited]

ImplementsSlidingWindow == SW!Spec
=============================================================================
