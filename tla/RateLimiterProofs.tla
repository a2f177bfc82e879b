-------------------------- MODULE RateLimiterProofs --------------------------
(***************************************************************************)
(* What RateLimiter promises, for all sets of clients and all values of    *)
(* the limit, the window, the clock's resolution and the clock's bound.    *)
(*                                                                         *)
(* The argument: a stored list is always the end of the client's history,  *)
(* and what the store forgot has expired (StoreIsRecentHistory).  So the   *)
(* pruned list a call looks at is exactly the unexpired end of the history *)
(* (KeptIsLiveHistory), and the three facts about the limit follow from    *)
(* the history alone.                                                      *)
(***************************************************************************)
EXTENDS RateLimiter, FiniteSetTheorems, WellFoundedInduction, TLAPS

\* A nonempty set of naturals has a least member.
LEMMA LeastNatural ==
  ASSUME NEW T \in SUBSET Nat, T # {}
  PROVE  \E x \in T : \A y \in T : x =< y
<1> DEFINE R == OpToRel(<, Nat)
<1>1. IsWellFoundedOn(R, Nat)
  BY NatLessThanWellFounded
<1>2. \E x \in T : \A y \in T : ~ (<<y, x>> \in R)
  <2> HIDE DEF R
  <2> QED BY <1>1, WFMin
<1>3. \A x, y \in Nat : y < x => <<y, x>> \in R
  BY DEF OpToRel
<1> HIDE DEF R
<1>4. PICK x \in T : \A y \in T : ~ (<<y, x>> \in R)
  BY <1>2
<1>5. \A y \in T : ~ (y < x)
  BY <1>3, <1>4
<1> QED BY <1>5

\* What membership in Seq(T) gives.
LEMMA SeqFacts ==
  ASSUME NEW T, NEW s \in Seq(T)
  PROVE  /\ Len(s) \in Nat
         /\ DOMAIN s = 1 .. Len(s)
         /\ \A i \in 1 .. Len(s) : s[i] \in T
OBVIOUS

\* Rounding a number of ticks down to whole seconds.
LEMMA DivBounds ==
  ASSUME NEW x \in Nat, NEW t \in Nat \ {0}
  PROVE  /\ x \div t \in Nat
         /\ (x \div t) * t =< x
         /\ x < (x \div t + 1) * t
BY Z3

\* ... gives at most w seconds when there are at most w seconds' worth of ticks.
LEMMA DivAtMost ==
  ASSUME NEW x \in Nat, NEW t \in Nat \ {0}, NEW w \in Nat, x =< w * t
  PROVE  x \div t =< w
<1>1. (x \div t) * t =< w * t /\ x \div t \in Nat
  BY DivBounds
<1>2. ASSUME NEW q \in Nat, q * t =< w * t PROVE q =< w
  BY <1>2, Z3
<1> QED BY <1>1, <1>2

\* The eviction window is twice the rate-limit window.
LEMMA WindowType == /\ Window \in Nat \ {0}
                    /\ Eviction = 2 * Window
<1>1. \A w, t \in Nat \ {0} : w * t \in Nat \ {0} /\ (w * 2) * t = 2 * (w * t)
  BY Z3
<1> QED BY <1>1, RateAssumption DEF Window, Eviction, EvictionSeconds

\* The members of an interval, counted from below.
LEMMA NthOfInterval ==
  ASSUME NEW a \in Nat, NEW b \in Nat, NEW j \in 1 .. (b - a)
  PROVE  Nth((a + 1) .. b, j) = a + j
<1> DEFINE S == (a + 1) .. b
<1>1. ASSUME NEW i \in S
      PROVE  Cardinality({h \in S : h =< i}) = i - a
  <2>1. {h \in S : h =< i} = (a + 1) .. i
    OBVIOUS
  <2>2. Cardinality((a + 1) .. i) = i - a
    BY FS_Interval
  <2> QED BY <2>1, <2>2
<1>2. a + j \in S
  OBVIOUS
<1>3. \A i \in S : Cardinality({h \in S : h =< i}) = j <=> i = a + j
  BY <1>1
<1> HIDE DEF S
<1>4. (CHOOSE i \in S : Cardinality({h \in S : h =< i}) = j) = a + j
  BY <1>2, <1>3
<1> QED BY <1>4 DEF Nth, S

\* Pruning an ordered list cuts off its expired front and nothing else.
LEMMA PruneCutsFront ==
  ASSUME clock \in Nat, NEW T \in SUBSET Nat, NEW ts \in Seq(T),
         \A j \in DOMAIN ts : \A i \in 1 .. j : ts[i] =< ts[j]
  PROVE  \E d \in 0 .. Len(ts) :
            /\ Prune(ts) \in Seq(T)
            /\ Len(Prune(ts)) = Len(ts) - d
            /\ \A j \in 1 .. Len(ts) - d : Prune(ts)[j] = ts[d + j]
            /\ \A i \in 1 .. Len(ts) : i =< d <=> Expired(ts[i])
<1> DEFINE n == Len(ts)
           live == {i \in DOMAIN ts : ts[i] > clock - Window}
<1> USE WindowType
<1>1. n \in Nat /\ DOMAIN ts = 1 .. n /\ \A i \in 1 .. n : ts[i] \in T /\ ts[i] \in Nat
  <2>1. n \in Nat /\ DOMAIN ts = 1 .. n
    OBVIOUS
  <2>2. \A i \in 1 .. n : ts[i] \in T
    OBVIOUS
  <2> QED BY <2>1, <2>2
<1>2. \E d \in 0 .. n : live = (d + 1) .. n
  <2>1. CASE live = {}
    <3>1. live = (n + 1) .. n
      BY <1>1, <2>1
    <3> QED BY <1>1, <3>1
  <2>2. CASE live # {}
    <3>1. live \in SUBSET Nat
      BY <1>1
    <3>2. PICK x \in live : \A y \in live : x =< y
      BY <2>2, <3>1, LeastNatural
    <3>3. live = x .. n
      <4>1. ASSUME NEW y \in x .. n PROVE y \in live
        <5>1. x \in 1 .. n /\ y \in 1 .. n /\ x \in 1 .. y
          BY <1>1, <3>2
        <5>2. ts[x] =< ts[y] /\ ts[x] > clock - Window
          BY <1>1, <3>2, <5>1
        <5> QED BY <1>1, <5>1, <5>2
      <4>2. ASSUME NEW y \in live PROVE y \in x .. n
        BY <1>1, <3>2
      <4> QED BY <4>1, <4>2
    <3>4. x - 1 \in 0 .. n /\ (x - 1) + 1 = x
      BY <1>1, <3>2
    <3> QED BY <3>3, <3>4
  <2> QED BY <2>1, <2>2
<1>3. PICK d \in 0 .. n : live = (d + 1) .. n
  BY <1>2
<1>4. Cardinality(live) = n - d
  <2>1. Cardinality((d + 1) .. n) = n - d
    <3>1. d + 1 \in Int /\ n \in Int /\ d =< n
      BY <1>1
    <3> HIDE DEF n
    <3>2. Cardinality((d + 1) .. n) = IF d + 1 > n THEN 0 ELSE n - (d + 1) + 1
      BY <3>1, FS_Interval
    <3> QED BY <3>1, <3>2
  <2> HIDE DEF live
  <2> QED BY <1>3, <2>1
<1>5. Prune(ts) = [j \in 1 .. (n - d) |-> ts[Nth(live, j)]]
  BY <1>4 DEF Prune
<1>6. ASSUME NEW j \in 1 .. (n - d)
      PROVE  Nth(live, j) = d + j
  <2>1. Nth((d + 1) .. n, j) = d + j
    BY <1>1, NthOfInterval
  <2> HIDE DEF live
  <2> QED BY <1>3, <2>1
<1>7. Prune(ts) = [j \in 1 .. (n - d) |-> ts[d + j]]
  BY <1>5, <1>6
<1>8. \A j \in 1 .. (n - d) : ts[d + j] \in T
  BY <1>1, <1>3
<1>9. \A i \in 1 .. n : i =< d <=> Expired(ts[i])
  <2> SUFFICES ASSUME NEW i \in 1 .. n PROVE i =< d <=> Expired(ts[i])
    OBVIOUS
  <2>1. i \in live <=> ~(i =< d)
    <3>1. i \in (d + 1) .. n <=> ~(i =< d)
      <4> n \in Nat
        BY <1>1
      <4> HIDE DEF n, live
      <4> QED OBVIOUS
    <3> HIDE DEF live
    <3> QED BY <1>3, <3>1
  <2>2. i \in live <=> ~Expired(ts[i])
    BY <1>1 DEF Expired
  <2> QED BY <2>1, <2>2
<1>10. /\ Prune(ts) \in Seq(T)
       /\ Len(Prune(ts)) = n - d
       /\ \A j \in 1 .. n - d : Prune(ts)[j] = ts[d + j]
  <2> HIDE DEF live
  <2>1. n - d \in Nat
    BY <1>1
  <2> QED BY <1>7, <1>8, <2>1
<1> QED BY <1>1, <1>3, <1>9, <1>10
-----------------------------------------------------------------------------
(***************************************************************************)
(* The inductive invariant.                                                *)
(***************************************************************************)
IInv == /\ TypeOK
        /\ HistoryOrdered
        /\ StoreIsRecentHistory
        /\ SlidingWindowBound
        /\ RetryAfterTight

\* What TypeOK says of the histories, in the form the steps below use.
LEMMA LogType ==
  ASSUME TypeOK, NEW k \in Keys
  PROVE  /\ clock \in Nat /\ clock \in 0 .. MaxClock
         /\ log[k] \in Times
         /\ Len(log[k]) \in Nat
         /\ DOMAIN log[k] = 1 .. Len(log[k])
         /\ \A i \in 1 .. Len(log[k]) : log[k][i] \in Nat
<1>1. clock \in 0 .. MaxClock /\ log[k] \in Seq(0 .. MaxClock)
  BY DEF TypeOK, Times
<1>2. Len(log[k]) \in Nat /\ DOMAIN log[k] = 1 .. Len(log[k])
  BY <1>1
<1>3. \A i \in 1 .. Len(log[k]) : log[k][i] \in 0 .. MaxClock
  BY <1>1, SeqFacts
<1> QED BY <1>1, <1>2, <1>3 DEF Times

\* The history of a client without a list after the sweep has expired.
LEMMA SweptAwayExpired ==
  ASSUME TypeOK, HistoryOrdered, StoreIsRecentHistory,
         NEW k \in Keys, k \notin DOMAIN Swept
  PROVE  \A i \in 1 .. Len(log[k]) : Expired(log[k][i])
<1> DEFINE n == Len(log[k])
<1>1. /\ n \in Nat /\ clock \in Nat /\ DOMAIN log[k] = 1 .. n
      /\ \A i \in 1 .. n : log[k][i] \in Nat
  BY LogType
<1>2. /\ n - Len(Stored(k)) >= 0
      /\ \A i \in DOMAIN Stored(k) : Stored(k)[i] = log[k][(n - Len(Stored(k))) + i]
      /\ \A i \in 1 .. n - Len(Stored(k)) : Expired(log[k][i])
  BY DEF StoreIsRecentHistory, RecentHistory
<1>3. CASE Stored(k) = <<>>
  BY <1>1, <1>2, <1>3
<1>4. CASE Stored(k) # <<>>
  <2>1. k \in DOMAIN store /\ Stored(k) = store[k]
    BY <1>4 DEF Stored
  <2>2. store[k] \in Seq(0 .. MaxClock)
    BY <2>1 DEF TypeOK, Times
  <2>3. store[k][Len(store[k])] < clock - Eviction
    BY <1>4, <2>1 DEF Swept, Stale
  <2>4. Len(store[k]) \in DOMAIN store[k] /\ Len(store[k]) \in 1 .. n
    BY <1>1, <1>2, <1>4, <2>1, <2>2
  <2>5. store[k][Len(store[k])] = log[k][n]
    BY <1>1, <1>2, <2>1, <2>4
  <2>6. n \in 1 .. n
    BY <1>1, <2>4
  <2>7. \A i \in 1 .. n : log[k][i] =< log[k][n]
    BY <1>1, <2>6 DEF HistoryOrdered
  <2>8. log[k][n] + Window =< clock
    BY <1>1, <2>3, <2>5, <2>6, WindowType
  <2>9. SUFFICES ASSUME NEW i \in 1 .. n PROVE Expired(log[k][i])
    OBVIOUS
  <2>10. log[k][i] \in Nat /\ log[k][n] \in Nat /\ log[k][i] =< log[k][n]
    BY <1>1, <2>6, <2>7
  <2> QED BY <1>1, <2>8, <2>10, WindowType DEF Expired
<1> QED BY <1>3, <1>4

\* What a call looks at is the unexpired end of the whole history.
LEMMA KeptIsLiveHistory ==
  ASSUME TypeOK, HistoryOrdered, StoreIsRecentHistory, NEW k \in Keys
  PROVE  \E m \in 0 .. Len(log[k]) :
            /\ Kept(k) \in Times
            /\ Len(Kept(k)) = Len(log[k]) - m
            /\ Len(Kept(k)) =< MaxRequests
            /\ \A j \in 1 .. Len(log[k]) - m : Kept(k)[j] = log[k][m + j]
            /\ \A i \in 1 .. Len(log[k]) : i =< m <=> Expired(log[k][i])
<1> DEFINE n == Len(log[k])
<1>1. /\ n \in Nat /\ clock \in Nat /\ DOMAIN log[k] = 1 .. n
      /\ \A i \in 1 .. n : log[k][i] \in Nat
  BY LogType
<1>2. CASE k \notin DOMAIN Swept
  <2>1. Kept(k) = <<>>
    BY <1>2 DEF Kept
  <2>2. \A i \in 1 .. n : Expired(log[k][i])
    BY <1>2, SweptAwayExpired
  <2>3. n \in 0 .. n /\ Kept(k) \in Times /\ Len(Kept(k)) = n - n /\ 0 =< MaxRequests
    BY <1>1, <2>1, RateAssumption DEF Times
  <2> QED BY <1>1, <2>2, <2>3
<1>3. CASE k \in DOMAIN Swept
  <2> DEFINE ts == store[k]
  <2>1. k \in DOMAIN store /\ Kept(k) = Prune(ts) /\ Stored(k) = ts
    BY <1>3 DEF Swept, Kept, Stored
  <2>2. ts \in Seq(0 .. MaxClock) /\ Len(ts) =< MaxRequests
    BY <2>1 DEF TypeOK, Times
  <2> DEFINE m == n - Len(ts)
  <2>3. /\ m \in Nat /\ Len(ts) \in Nat /\ n = m + Len(ts)
        /\ DOMAIN ts = 1 .. Len(ts)
        /\ \A i \in DOMAIN ts : ts[i] = log[k][m + i]
        /\ \A i \in 1 .. m : Expired(log[k][i])
    BY <1>1, <2>1, <2>2 DEF StoreIsRecentHistory, RecentHistory
  <2>4. \A j \in DOMAIN ts : \A i \in 1 .. j : ts[i] =< ts[j]
    <3> SUFFICES ASSUME NEW j \in DOMAIN ts, NEW i \in 1 .. j
                 PROVE  ts[i] =< ts[j]
      OBVIOUS
    <3>1. /\ m + j \in DOMAIN log[k] /\ m + i \in 1 .. m + j
          /\ ts[i] = log[k][m + i] /\ ts[j] = log[k][m + j]
      <4>1. i \in DOMAIN ts /\ i \in Nat /\ j \in Nat /\ i =< j /\ j =< Len(ts) /\ 1 =< i
        BY <2>3
      <4>2. m + j \in 1 .. n /\ m + i \in 1 .. m + j
        <5> HIDE DEF n, m, ts
        <5> QED BY <1>1, <2>3, <4>1
      <4> QED BY <1>1, <2>3, <4>1, <4>2
    <3> QED BY <3>1 DEF HistoryOrdered
  <2>5. (0 .. MaxClock) \in SUBSET Nat
    BY RateAssumption
  <2>6. PICK d \in 0 .. Len(ts) :
            /\ Prune(ts) \in Seq(0 .. MaxClock)
            /\ Len(Prune(ts)) = Len(ts) - d
            /\ \A j \in 1 .. Len(ts) - d : Prune(ts)[j] = ts[d + j]
            /\ \A i \in 1 .. Len(ts) : i =< d <=> Expired(ts[i])
    <3> HIDE DEF ts, m
    <3> QED BY <1>1, <2>2, <2>4, <2>5, PruneCutsFront
  <2> HIDE DEF ts
  <2>7. m + d \in 0 .. n /\ n - (m + d) = Len(ts) - d
    BY <1>1, <2>3
  <2>8. \A j \in 1 .. n - (m + d) : Kept(k)[j] = log[k][(m + d) + j]
    <3> SUFFICES ASSUME NEW j \in 1 .. n - (m + d)
                 PROVE  Kept(k)[j] = log[k][(m + d) + j]
      OBVIOUS
    <3>1. j \in 1 .. Len(ts) - d /\ d + j \in DOMAIN ts /\ m + (d + j) = (m + d) + j
      <4> HIDE DEF m, n
      <4> QED BY <2>3, <2>7
    <3>2. Kept(k)[j] = ts[d + j]
      BY <2>1, <2>6, <3>1
    <3>3. ts[d + j] = log[k][m + (d + j)]
      BY <2>3, <3>1
    <3> QED BY <3>1, <3>2, <3>3
  <2>9. ASSUME NEW i \in 1 .. n
        PROVE  i =< m + d <=> Expired(log[k][i])
    <3>1. CASE i =< m
      <4>1. Expired(log[k][i])
        BY <2>3, <3>1
      <4>2. i =< m + d
        <5> HIDE DEF m, n
        <5> QED BY <1>1, <2>3, <3>1
      <4> QED BY <4>1, <4>2
    <3>2. CASE ~(i =< m)
      <4>1. i - m \in 1 .. Len(ts) /\ ts[i - m] = log[k][i]
        <5>1. i \in Nat /\ i =< n /\ m < i /\ n = m + Len(ts)
          BY <1>1, <2>3, <3>2
        <5> HIDE DEF m, n
        <5>2. i - m \in 1 .. Len(ts) /\ m + (i - m) = i
          BY <2>3, <5>1
        <5> QED BY <2>3, <5>2
      <4>2. i - m =< d <=> Expired(log[k][i])
        BY <2>6, <4>1
      <4> QED BY <1>1, <2>3, <4>2
    <3> QED BY <3>1, <3>2
  <2>10. Kept(k) \in Times /\ Len(Kept(k)) = n - (m + d) /\ Len(Kept(k)) =< MaxRequests
    BY <1>1, <2>1, <2>2, <2>3, <2>6, <2>7, RateAssumption DEF Times
  <2> HIDE DEF m
  <2> QED BY <2>7, <2>8, <2>9, <2>10
<1> QED BY <1>2, <1>3
-----------------------------------------------------------------------------
\* The dict after a call of k that stores the list v.
LEMMA StoreAfterCall ==
  ASSUME NEW k, NEW v, store' = Put(Swept, k, v)
  PROVE  /\ DOMAIN store' = DOMAIN Swept \cup {k}
         /\ DOMAIN Swept \subseteq DOMAIN store
         /\ store'[k] = v
         /\ \A x \in DOMAIN Swept \ {k} : store'[x] = store[x]
BY DEF Put, Swept

\* The Retry-After of a denial, against the history.
LEMMA RetryAfterPlaced ==
  ASSUME TypeOK, HistoryOrdered, StoreIsRecentHistory,
         NEW k \in Keys, Full(Kept(k))
  PROVE  /\ RetryAfter(Kept(k)) \in 1 .. WindowSeconds + 1
         /\ clock + RetryAfter(Kept(k)) * TicksPerSecond \in Nat
         /\ Len(log[k]) >= MaxRequests
         /\ SlotFree(k) < clock + RetryAfter(Kept(k)) * TicksPerSecond
         /\ clock + RetryAfter(Kept(k)) * TicksPerSecond =< SlotFree(k) + TicksPerSecond
<1> DEFINE n == Len(log[k])
<1>1. /\ n \in Nat /\ clock \in Nat /\ DOMAIN log[k] = 1 .. n
      /\ \A i \in 1 .. n : log[k][i] \in Nat
  BY LogType
<1>2. PICK m \in 0 .. n :
            /\ Len(Kept(k)) = n - m
            /\ Len(Kept(k)) =< MaxRequests
            /\ \A j \in 1 .. n - m : Kept(k)[j] = log[k][m + j]
            /\ \A i \in 1 .. n : i =< m <=> Expired(log[k][i])
  BY KeptIsLiveHistory
<1>3. n - m = MaxRequests /\ m + 1 = n - MaxRequests + 1 /\ m + 1 \in 1 .. n
  <2> HIDE DEF n
  <2> QED BY <1>1, <1>2, RateAssumption DEF Full
<1> DEFINE t == log[k][m + 1]
           x == Window - (clock - t)
           q == x \div TicksPerSecond
<1>4. Kept(k)[1] = t /\ t \in Nat /\ SlotFree(k) = t + Window
  <2>1. Kept(k)[1] = t /\ t \in Nat
    BY <1>1, <1>2, <1>3, RateAssumption
  <2> QED BY <1>3, <2>1 DEF SlotFree
<1>5. t + Window > clock /\ t =< clock
  <2>1. ~Expired(t)
    BY <1>1, <1>2, <1>3
  <2> QED BY <1>1, <1>3, <1>4, <2>1, WindowType DEF Expired, HistoryOrdered
<1>6. x \in Nat /\ x =< WindowSeconds * TicksPerSecond /\ clock + x = t + Window
  <2> HIDE DEF t
  <2> QED BY <1>1, <1>4, <1>5, WindowType DEF Window
<1>7. RetryAfter(Kept(k)) = q + 1
  BY <1>4 DEF RetryAfter
<1> HIDE DEF x, t
<1>8. q \in Nat /\ q * TicksPerSecond =< x /\ x < (q + 1) * TicksPerSecond
  BY <1>6, RateAssumption, DivBounds
<1>9. q =< WindowSeconds
  BY <1>6, RateAssumption, DivAtMost
<1> HIDE DEF q
<1>10. (q + 1) * TicksPerSecond = q * TicksPerSecond + TicksPerSecond
  BY <1>8, RateAssumption
<1>11. q + 1 \in 1 .. WindowSeconds + 1
  BY <1>8, <1>9, RateAssumption
<1>12. q * TicksPerSecond \in Nat
  BY <1>8, RateAssumption
<1>13. /\ clock + (q + 1) * TicksPerSecond \in Nat
       /\ t + Window < clock + (q + 1) * TicksPerSecond
       /\ clock + (q + 1) * TicksPerSecond =< (t + Window) + TicksPerSecond
  BY <1>1, <1>4, <1>6, <1>8, <1>10, <1>12, RateAssumption, WindowType
<1>14. n >= MaxRequests
  <2> HIDE DEF n
  <2> QED BY <1>1, <1>2, <1>3, RateAssumption
<1> QED BY <1>4, <1>7, <1>11, <1>13, <1>14

\* What the state after a call of k is made of, whichever way it went.
LEMMA CallEffect ==
  ASSUME TypeOK, HistoryOrdered, StoreIsRecentHistory,
         NEW k \in Keys, IsRateLimited(k)
  PROVE  /\ clock' = clock
         /\ \A x \in Keys \ {k} : log'[x] = log[x] /\ promise'[x] = promise[x]
         /\ DOMAIN log' = Keys /\ DOMAIN promise' = Keys
         /\ DOMAIN store' = DOMAIN Swept \cup {k}
         /\ DOMAIN Swept \subseteq DOMAIN store
         /\ \A x \in DOMAIN Swept \ {k} : store'[x] = store[x]
         /\ \/ /\ Full(Kept(k))
               /\ store'[k] = Kept(k) /\ log' = log
               /\ promise' = [promise EXCEPT
                     ![k] = clock + RetryAfter(Kept(k)) * TicksPerSecond]
               /\ reply' = [key |-> k, limited |-> TRUE,
                            retryAfter |-> RetryAfter(Kept(k))]
            \/ /\ ~Full(Kept(k))
               /\ store'[k] = Append(Kept(k), clock)
               /\ log' = [log EXCEPT ![k] = Append(log[k], clock)]
               /\ promise' = [promise EXCEPT ![k] = 0]
               /\ reply' = [key |-> k, limited |-> FALSE, retryAfter |-> 0]
<1>1. DOMAIN log = Keys /\ DOMAIN promise = Keys
  BY DEF TypeOK
<1>2. CASE Deny(k)
  <2> USE <1>2 DEF Deny
  <2>1. store' = Put(Swept, k, Kept(k))
    OBVIOUS
  <2> QED BY <1>1, <2>1, StoreAfterCall
<1>3. CASE Admit(k)
  <2> USE <1>3 DEF Admit
  <2>1. store' = Put(Swept, k, Append(Kept(k), clock))
    OBVIOUS
  <2> QED BY <1>1, <2>1, StoreAfterCall
<1> QED BY <1>2, <1>3 DEF IsRateLimited

LEMMA CallPreserves ==
  ASSUME IInv, NEW k \in Keys, IsRateLimited(k), used' \in SUBSET Tokens
  PROVE  IInv'
<1> DEFINE n == Len(log[k])
<1>0. TypeOK /\ HistoryOrdered /\ StoreIsRecentHistory /\ SlidingWindowBound /\ RetryAfterTight
  BY DEF IInv
<1>1. /\ n \in Nat /\ clock \in Nat /\ clock \in 0 .. MaxClock /\ DOMAIN log[k] = 1 .. n
      /\ log[k] \in Times /\ \A i \in 1 .. n : log[k][i] \in Nat
  BY <1>0, LogType
<1>2. PICK m \in 0 .. n :
            /\ Kept(k) \in Times
            /\ Len(Kept(k)) = n - m
            /\ Len(Kept(k)) =< MaxRequests
            /\ \A j \in 1 .. n - m : Kept(k)[j] = log[k][m + j]
            /\ \A i \in 1 .. n : i =< m <=> Expired(log[k][i])
  BY <1>0, KeptIsLiveHistory
<1>3. /\ clock' = clock
      /\ \A x \in Keys \ {k} : log'[x] = log[x] /\ promise'[x] = promise[x]
      /\ DOMAIN log' = Keys /\ DOMAIN promise' = Keys
      /\ DOMAIN store' = DOMAIN Swept \cup {k}
      /\ DOMAIN Swept \subseteq DOMAIN store
      /\ \A x \in DOMAIN Swept \ {k} : store'[x] = store[x]
  BY <1>0, CallEffect
<1>4. CASE /\ Full(Kept(k))
           /\ store'[k] = Kept(k) /\ log' = log
           /\ promise' = [promise EXCEPT
                     ![k] = clock + RetryAfter(Kept(k)) * TicksPerSecond]
           /\ reply' = [key |-> k, limited |-> TRUE,
                        retryAfter |-> RetryAfter(Kept(k))]
  <2>1. log' = log
    BY <1>4
  <2>2. TypeOK'
    <3>1. /\ reply'.key \in Keys /\ reply'.limited
          /\ reply'.retryAfter \in 1 .. WindowSeconds + 1
      BY <1>0, <1>4, RetryAfterPlaced
    <3>2. promise' \in [Keys -> Nat]
      BY <1>0, <1>4, RetryAfterPlaced DEF TypeOK
    <3>3. DOMAIN store' \subseteq Keys
      BY <1>0, <1>3 DEF TypeOK
    <3>4. \A x \in DOMAIN store' : store'[x] \in Times /\ Len(store'[x]) =< MaxRequests
      BY <1>0, <1>2, <1>3, <1>4 DEF TypeOK
    <3> QED BY <1>0, <1>3, <2>1, <3>1, <3>2, <3>3, <3>4 DEF TypeOK
  <2>3. HistoryOrdered'
    BY <1>0, <1>3, <2>1 DEF HistoryOrdered
  <2>4. StoreIsRecentHistory'
    <3> SUFFICES ASSUME NEW x \in Keys
                 PROVE  RecentHistory(x)'
      BY DEF StoreIsRecentHistory
    <3>1. CASE x = k
      <4>1. Stored(x)' = Kept(k)
        BY <1>3, <1>4, <3>1 DEF Stored
      <4>2. Len(log'[x]) - Len(Stored(x)') = m
        <5> HIDE DEF n
        <5>1. Len(log'[x]) = n
          BY <2>1, <3>1 DEF n
        <5> QED BY <1>1, <1>2, <4>1, <5>1
      <4>3. DOMAIN Stored(x)' = 1 .. n - m
        BY <1>2, <4>1, SeqFacts DEF Times
      <4> QED BY <1>1, <1>2, <1>3, <2>1, <3>1, <4>1, <4>2, <4>3 DEF RecentHistory, Expired
    <3>2. CASE x # k /\ x \in DOMAIN Swept
      <4>1. Stored(x)' = Stored(x)
        BY <1>3, <3>2 DEF Stored
      <4> QED BY <1>0, <1>3, <2>1, <4>1 DEF StoreIsRecentHistory, RecentHistory, Expired
    <3>3. CASE x # k /\ x \notin DOMAIN Swept
      <4>1. Stored(x)' = <<>>
        BY <1>3, <3>3 DEF Stored
      <4>2. \A i \in 1 .. Len(log[x]) : Expired(log[x][i])
        BY <1>0, <3>3, SweptAwayExpired
      <4>3. Len(log[x]) \in Nat
        BY <1>0, LogType
      <4> QED BY <1>3, <2>1, <4>1, <4>2, <4>3 DEF RecentHistory, Expired
    <3> QED BY <3>1, <3>2, <3>3
  <2>5. SlidingWindowBound'
    BY <1>0, <2>1 DEF SlidingWindowBound
  <2>6. RetryAfterTight'
    <3> SUFFICES ASSUME NEW x \in Keys, promise'[x] > 0
                 PROVE  /\ Len(log[x]) >= MaxRequests
                        /\ SlotFree(x) < promise'[x]
                        /\ promise'[x] =< SlotFree(x) + TicksPerSecond
      BY <2>1 DEF RetryAfterTight, SlotFree
    <3>1. CASE x = k
      BY <1>0, <1>4, <3>1, RetryAfterPlaced DEF TypeOK
    <3>2. CASE x # k
      BY <1>0, <1>3, <3>2 DEF RetryAfterTight
    <3> QED BY <3>1, <3>2
  <2> QED BY <2>2, <2>3, <2>4, <2>5, <2>6 DEF IInv
<1>5. CASE /\ ~Full(Kept(k))
           /\ store'[k] = Append(Kept(k), clock)
           /\ log' = [log EXCEPT ![k] = Append(log[k], clock)]
           /\ promise' = [promise EXCEPT ![k] = 0]
           /\ reply' = [key |-> k, limited |-> FALSE, retryAfter |-> 0]
  <2>1. /\ log'[k] \in Times /\ Len(log'[k]) = n + 1
        /\ DOMAIN log'[k] = 1 .. n + 1
        /\ log'[k][n + 1] = clock
        /\ \A i \in 1 .. n : log'[k][i] = log[k][i]
    BY <1>0, <1>1, <1>5 DEF Times, TypeOK
  <2>2. /\ store'[k] \in Times /\ Len(store'[k]) = (n - m) + 1
        /\ Len(store'[k]) =< MaxRequests
        /\ DOMAIN store'[k] = 1 .. (n - m) + 1
        /\ store'[k][(n - m) + 1] = clock
        /\ \A i \in 1 .. n - m : store'[k][i] = log[k][m + i]
    <3>1. /\ store'[k] \in Times /\ Len(store'[k]) = Len(Kept(k)) + 1
          /\ DOMAIN store'[k] = 1 .. Len(Kept(k)) + 1
          /\ store'[k][Len(Kept(k)) + 1] = clock
          /\ \A i \in 1 .. Len(Kept(k)) : store'[k][i] = Kept(k)[i]
      BY <1>1, <1>2, <1>5 DEF Times
    <3>2. Len(Kept(k)) \in Nat /\ Len(Kept(k)) + 1 =< MaxRequests
      BY <1>2, <1>5, RateAssumption DEF Full, Times
    <3> QED BY <1>2, <3>1, <3>2
  <2>3. n - m < MaxRequests
    BY <1>2, <1>5, RateAssumption DEF Full, Times
  <2>4. TypeOK'
    <3>1. log' \in [Keys -> Times]
      BY <1>0, <1>5, <2>1 DEF TypeOK
    <3>2. promise' \in [Keys -> Nat]
      BY <1>0, <1>5 DEF TypeOK
    <3>3. DOMAIN store' \subseteq Keys
      BY <1>0, <1>3 DEF TypeOK
    <3>4. \A x \in DOMAIN store' : store'[x] \in Times /\ Len(store'[x]) =< MaxRequests
      BY <1>0, <1>3, <2>2 DEF TypeOK
    <3> QED BY <1>1, <1>3, <1>5, <3>1, <3>2, <3>3, <3>4 DEF TypeOK
  <2>5. HistoryOrdered'
    <3> SUFFICES ASSUME NEW x \in Keys, NEW j \in DOMAIN log'[x]
                 PROVE  /\ log'[x][j] =< clock
                        /\ \A i \in 1 .. j : log'[x][i] =< log'[x][j]
      BY <1>3 DEF HistoryOrdered
    <3>1. CASE x # k
      BY <1>0, <1>3, <3>1 DEF HistoryOrdered
    <3>2. CASE x = k /\ j \in 1 .. n
      <4>1. \A i \in 1 .. j : log'[k][i] = log[k][i]
        BY <1>1, <2>1, <3>2
      <4> QED BY <1>0, <1>1, <2>1, <3>2, <4>1 DEF HistoryOrdered
    <3>3. CASE x = k /\ j = n + 1
      <4>1. \A i \in 1 .. n : log'[k][i] =< clock
        BY <1>0, <1>1, <2>1 DEF HistoryOrdered
      <4> QED BY <1>1, <2>1, <3>3, <4>1
    <3>4. j \in 1 .. n \/ j = n + 1 \/ x # k
      BY <1>1, <2>1
    <3> QED BY <3>1, <3>2, <3>3, <3>4
  <2>6. StoreIsRecentHistory'
    <3> SUFFICES ASSUME NEW x \in Keys
                 PROVE  RecentHistory(x)'
      BY DEF StoreIsRecentHistory
    <3>1. CASE x = k
      <4>1. Stored(x)' = store'[k]
        BY <1>3, <3>1 DEF Stored
      <4>2. Len(log'[x]) - Len(Stored(x)') = m
        <5> HIDE DEF n
        <5> QED BY <1>1, <1>2, <2>1, <2>2, <3>1, <4>1
      <4>3. ASSUME NEW i \in DOMAIN Stored(x)'
            PROVE  Stored(x)'[i] = log'[x][m + i]
        <5>1. CASE i \in 1 .. n - m
          <6>1. m + i \in 1 .. n
            <7> HIDE DEF n
            <7> QED BY <1>1, <5>1
          <6> QED BY <2>1, <2>2, <3>1, <4>1, <5>1, <6>1
        <5>2. CASE i = (n - m) + 1
          <6>1. m + i = n + 1
            <7> HIDE DEF n
            <7> QED BY <1>1, <5>2
          <6> QED BY <2>1, <2>2, <3>1, <4>1, <5>2, <6>1
        <5>3. i \in 1 .. n - m \/ i = (n - m) + 1
          <6> HIDE DEF n
          <6> QED BY <1>1, <2>2, <4>1
        <5> QED BY <5>1, <5>2, <5>3
      <4>4. ASSUME NEW i \in 1 .. m
            PROVE  log'[x][i] + Window =< clock'
        <5>1. i \in 1 .. n
          <6> HIDE DEF n
          <6> QED BY <1>1
        <5>2. log'[x][i] = log[k][i] /\ Expired(log[k][i])
          BY <1>2, <2>1, <3>1, <5>1
        <5> QED BY <1>3, <5>2 DEF Expired
      <4> QED BY <1>1, <4>2, <4>3, <4>4 DEF RecentHistory, Expired
    <3>2. CASE x # k /\ x \in DOMAIN Swept
      <4>1. Stored(x)' = Stored(x) /\ log'[x] = log[x]
        BY <1>3, <3>2 DEF Stored
      <4> QED BY <1>0, <1>3, <4>1 DEF StoreIsRecentHistory, RecentHistory, Expired
    <3>3. CASE x # k /\ x \notin DOMAIN Swept
      <4>1. Stored(x)' = <<>> /\ log'[x] = log[x]
        BY <1>3, <3>3 DEF Stored
      <4>2. \A i \in 1 .. Len(log[x]) : Expired(log[x][i])
        BY <1>0, <3>3, SweptAwayExpired
      <4>3. Len(log[x]) \in Nat
        BY <1>0, LogType
      <4> QED BY <1>3, <4>1, <4>2, <4>3 DEF RecentHistory, Expired
    <3> QED BY <3>1, <3>2, <3>3
  <2>7. SlidingWindowBound'
    <3> SUFFICES ASSUME NEW x \in Keys, NEW i \in DOMAIN log'[x], i > MaxRequests
                 PROVE  log'[x][i - MaxRequests] + Window =< log'[x][i]
      BY DEF SlidingWindowBound, Window
    <3>1. CASE x # k
      BY <1>0, <1>3, <3>1 DEF SlidingWindowBound
    <3>2. CASE x = k /\ i \in 1 .. n
      <4>1. i - MaxRequests \in 1 .. n
        <5> HIDE DEF n
        <5> QED BY <1>1, <3>2, RateAssumption
      <4> QED BY <1>0, <1>1, <2>1, <3>2, <4>1 DEF SlidingWindowBound
    <3>3. CASE x = k /\ i = n + 1
      <4>1. i - MaxRequests \in 1 .. n /\ i - MaxRequests =< m
        <5> HIDE DEF n
        <5> QED BY <1>1, <2>3, <3>3, RateAssumption
      <4>2. Expired(log[k][i - MaxRequests])
        BY <1>2, <4>1
      <4> QED BY <2>1, <3>3, <4>1, <4>2 DEF Expired
    <3>4. i \in 1 .. n \/ i = n + 1 \/ x # k
      BY <1>1, <2>1
    <3> QED BY <3>1, <3>2, <3>3, <3>4
  <2>8. RetryAfterTight'
    <3> SUFFICES ASSUME NEW x \in Keys, promise'[x] > 0
                 PROVE  (/\ Len(log[x]) >= MaxRequests
                         /\ SlotFree(x) < promise[x]
                         /\ promise[x] =< SlotFree(x) + TicksPerSecond)'
      BY DEF RetryAfterTight
    <3>1. x # k
      BY <1>0, <1>5 DEF TypeOK
    <3>2. promise'[x] = promise[x] /\ log'[x] = log[x]
      BY <1>3, <3>1
    <3> QED BY <1>0, <3>2 DEF RetryAfterTight, SlotFree
  <2> QED BY <2>4, <2>5, <2>6, <2>7, <2>8 DEF IInv
<1> QED BY <1>0, <1>4, <1>5, CallEffect

\* The passing of time disturbs only what compares times with the clock, and
\* what has expired stays expired.
LEMMA TickPreserves ==
  ASSUME IInv, Tick
  PROVE  IInv'
<1> USE DEF Tick
<1>1. clock \in Nat /\ clock' \in 0 .. MaxClock /\ clock' = clock + 1
  BY RateAssumption DEF IInv, TypeOK
<1>2. TypeOK'
  BY <1>1 DEF IInv, TypeOK
<1>3. HistoryOrdered'
  <2> SUFFICES ASSUME NEW k \in Keys, NEW j \in DOMAIN log[k]
               PROVE  /\ log[k][j] =< clock'
                      /\ \A i \in 1 .. j : log[k][i] =< log[k][j]
    BY DEF HistoryOrdered
  <2>1. log[k][j] \in Nat
    BY LogType DEF IInv
  <2> QED BY <1>1, <2>1 DEF IInv, HistoryOrdered
<1>4. StoreIsRecentHistory'
  <2> SUFFICES ASSUME NEW k \in Keys PROVE RecentHistory(k)'
    BY DEF StoreIsRecentHistory
  <2> DEFINE m == Len(log[k]) - Len(Stored(k))
  <2>1. /\ m >= 0
        /\ \A i \in DOMAIN Stored(k) : Stored(k)[i] = log[k][m + i]
        /\ \A i \in 1 .. m : Expired(log[k][i])
    BY DEF IInv, StoreIsRecentHistory, RecentHistory
  <2>2. Stored(k)' = Stored(k)
    BY DEF Stored
  <2>3. Len(Stored(k)) \in Nat
    BY SeqFacts DEF IInv, TypeOK, Stored, Times
  <2>4. Len(log[k]) \in Nat /\ \A i \in 1 .. Len(log[k]) : log[k][i] \in Nat
    BY LogType DEF IInv
  <2>5. ASSUME NEW i \in 1 .. m PROVE log[k][i] + Window =< clock'
    <3>1. log[k][i] + Window =< clock
      BY <2>1 DEF Expired
    <3>2. i \in 1 .. Len(log[k])
      BY <2>3, <2>4
    <3> QED BY <1>1, <2>4, <3>1, <3>2, WindowType
  <2> QED BY <2>1, <2>2, <2>5 DEF RecentHistory, Expired
<1>5. SlidingWindowBound'
  BY DEF IInv, SlidingWindowBound
<1>6. RetryAfterTight'
  BY DEF IInv, RetryAfterTight, SlotFree
<1> QED BY <1>2, <1>3, <1>4, <1>5, <1>6 DEF IInv

LEMMA InitEstablishes == Init => IInv
<1> SUFFICES ASSUME Init PROVE IInv
  OBVIOUS
<1> USE DEF Init
<1>1. TypeOK
  <2>1. <<>> \in Times
    BY DEF Times
  <2> QED BY <2>1, RateAssumption DEF TypeOK
<1>2. \A k \in Keys : Stored(k) = <<>> /\ log[k] = <<>> /\ promise[k] = 0
  BY DEF Stored
<1>3. HistoryOrdered /\ SlidingWindowBound /\ RetryAfterTight
  BY <1>2 DEF HistoryOrdered, SlidingWindowBound, RetryAfterTight
<1>4. StoreIsRecentHistory
  BY <1>2 DEF StoreIsRecentHistory, RecentHistory
<1> QED BY <1>1, <1>3, <1>4 DEF IInv

LEMMA StutterPreserves ==
  ASSUME IInv, UNCHANGED vars
  PROVE  IInv'
<1> USE DEF vars
<1>1. TypeOK'
  BY DEF IInv, TypeOK
<1>2. HistoryOrdered' /\ SlidingWindowBound' /\ RetryAfterTight'
  BY DEF IInv, HistoryOrdered, SlidingWindowBound, RetryAfterTight, SlotFree
<1>3. StoreIsRecentHistory'
  BY DEF IInv, StoreIsRecentHistory, RecentHistory, Stored, Expired
<1> QED BY <1>1, <1>2, <1>3 DEF IInv

\* A call, by whichever of the two kinds of client, is a call of some key.
LEMMA CallOfSomeKey ==
  ASSUME IInv, \/ \E ip \in Ips : ExecuteFrom(ip)
               \/ \E t \in Tokens : ExecuteAnon(t)
  PROVE  \E k \in Keys : IsRateLimited(k) /\ used' \in SUBSET Tokens
BY DEF IInv, TypeOK, ExecuteFrom, ExecuteAnon, Keys

LEMMA NextPreserves == IInv /\ [Next]_vars => IInv'
<1> SUFFICES ASSUME IInv, [Next]_vars PROVE IInv'
  OBVIOUS
<1>1. CASE Tick
  BY <1>1, TickPreserves
<1>2. CASE (\E ip \in Ips : ExecuteFrom(ip)) \/ (\E t \in Tokens : ExecuteAnon(t))
  BY <1>2, CallOfSomeKey, CallPreserves
<1>3. CASE UNCHANGED vars
  BY <1>3, StutterPreserves
<1> QED BY <1>1, <1>2, <1>3 DEF Next
-----------------------------------------------------------------------------
\* Every reachable state satisfies the inductive invariant.
THEOREM Invariance == Spec => []IInv
BY InitEstablishes, NextPreserves, PTL DEF Spec

\* Type correctness: the stored lists stay short, Retry-After stays in range.
THEOREM TypeCorrect == Spec => []TypeOK
<1>1. IInv => TypeOK
  BY DEF IInv
<1> QED BY <1>1, Invariance, PTL

\* No window of WindowSeconds ever holds more than MaxRequests admitted
\* requests of one client (execute.py's limit, for any limit and any window).
THEOREM LimitHolds == Spec => []SlidingWindowBound
<1>1. IInv => SlidingWindowBound
  BY DEF IInv
<1> QED BY <1>1, Invariance, PTL

\* Eviction and pruning forget only expired requests.
THEOREM ForgetsOnlyExpired == Spec => []StoreIsRecentHistory
<1>1. IInv => StoreIsRecentHistory
  BY DEF IInv
<1> QED BY <1>1, Invariance, PTL

\* Retry-After points past the moment a slot is free, by at most one second.
THEOREM RetryAfterIsTight == Spec => []RetryAfterTight
<1>1. IInv => RetryAfterTight
  BY DEF IInv
<1> QED BY <1>1, Invariance, PTL

\* A denied client that comes back when it was told to finds a slot.
THEOREM RetryAfterIsEnough == Spec => []RetryAfterSuffices
<1>1. IInv => RetryAfterSuffices
  <2> SUFFICES ASSUME IInv, NEW k \in Keys, promise[k] > 0, clock >= promise[k]
               PROVE  ~Full(Kept(k))
    BY DEF RetryAfterSuffices
  <2> DEFINE n == Len(log[k])
             j == n - MaxRequests + 1
  <2>1. /\ n \in Nat /\ clock \in Nat /\ DOMAIN log[k] = 1 .. n
        /\ \A i \in 1 .. n : log[k][i] \in Nat
    BY LogType DEF IInv
  <2>2. n >= MaxRequests /\ log[k][j] + Window < promise[k] /\ promise[k] \in Nat
    BY DEF IInv, RetryAfterTight, SlotFree, TypeOK
  <2>3. j \in 1 .. n
    <3> HIDE DEF n
    <3> QED BY <2>1, <2>2, RateAssumption
  <2>4. PICK m \in 0 .. n :
            /\ Len(Kept(k)) = n - m
            /\ \A i \in 1 .. n : i =< m <=> Expired(log[k][i])
    BY KeptIsLiveHistory DEF IInv
  <2>5. Expired(log[k][j])
    BY <2>1, <2>2, <2>3, WindowType DEF Expired
  <2>6. j =< m
    BY <2>3, <2>4, <2>5
  <2>7. n - m < MaxRequests
    <3> HIDE DEF n
    <3> QED BY <2>1, <2>6, RateAssumption
  <2> QED BY <2>1, <2>4, <2>7, RateAssumption DEF Full
<1> QED BY <1>1, Invariance, PTL

\* A key that was not drawn yet has no history.
Undrawn == \A t \in Tokens \ used : Len(log[t]) = 0

\* A client without an address is never denied.
THEOREM AnonAreAdmitted == Spec => []AnonNeverLimited
<1> DEFINE AnonInv == Undrawn /\ AnonNeverLimited
<1>1. Init => AnonInv
  BY DEF Init, Undrawn, AnonNeverLimited, NoReply, Keys
<1>2. IInv /\ AnonInv /\ [Next]_vars => AnonInv'
  <2> SUFFICES ASSUME IInv, AnonInv, [Next]_vars PROVE AnonInv'
    OBVIOUS
  <2>1. CASE Tick \/ UNCHANGED vars
    BY <2>1 DEF Tick, vars, Undrawn, AnonNeverLimited
  <2>2. ASSUME NEW ip \in Ips, ExecuteFrom(ip) PROVE AnonInv'
    <3>1. ip \in Keys /\ ip \notin Tokens
      BY RateAssumption DEF Keys
    <3>2. reply'.key = ip /\ used' = used /\ \A x \in Keys \ {ip} : log'[x] = log[x]
      <4>1. IsRateLimited(ip) /\ used' = used
        BY <2>2 DEF ExecuteFrom
      <4>2. reply'.key = ip
        BY <4>1 DEF IsRateLimited, Deny, Admit
      <4>3. \A x \in Keys \ {ip} : log'[x] = log[x]
        BY <3>1, <4>1, CallEffect DEF IInv
      <4> QED BY <4>1, <4>2, <4>3
    <3> QED BY <3>1, <3>2 DEF Undrawn, AnonNeverLimited, Keys
  <2>3. ASSUME NEW t \in Tokens, ExecuteAnon(t) PROVE AnonInv'
    <3>1. t \in Keys /\ Len(log[t]) = 0 /\ IsRateLimited(t) /\ used' = used \cup {t}
      BY <2>3 DEF ExecuteAnon, Fresh, Undrawn, Keys
    <3>2. Len(Kept(t)) = 0
      BY <3>1, KeptIsLiveHistory DEF IInv
    <3>3. ~Full(Kept(t))
      BY <3>2, RateAssumption DEF Full
    <3>4. /\ reply' = [key |-> t, limited |-> FALSE, retryAfter |-> 0]
          /\ \A x \in Keys \ {t} : log'[x] = log[x]
      BY <3>1, <3>3, CallEffect DEF IInv
    <3> QED BY <3>1, <3>4 DEF Undrawn, AnonNeverLimited, Keys
  <2> QED BY <2>1, <2>2, <2>3 DEF Next
<1> QED BY <1>1, <1>2, Invariance, PTL DEF Spec

\* A call's effect, for the action properties: which call it was, and that time
\* stood still.
LEMMA StepIsTickOrCall ==
  ASSUME IInv, [Next]_vars
  PROVE  \/ clock' = clock + 1 /\ Tick
         \/ UNCHANGED vars
         \/ \E k \in Keys : IsRateLimited(k)
BY CallOfSomeKey DEF Next, Tick

\* A call of one client leaves every other client's budget as it was.
THEOREM ClientsAreIsolated == Spec => ClientsIsolated
<1>1. ASSUME IInv, [Next]_vars, clock' = clock, NEW x \in Keys \ {reply'.key}
      PROVE  Kept(x)' = Kept(x)
  <2>1. CASE UNCHANGED vars
    BY <2>1 DEF vars, Kept, Swept, Stale, Prune
  <2>2. CASE \E k \in Keys : IsRateLimited(k)
    <3>1. PICK k \in Keys : IsRateLimited(k)
      BY <2>2
    <3>2. reply'.key = k
      BY <3>1 DEF IsRateLimited, Deny, Admit
    <3>3. /\ DOMAIN store' = DOMAIN Swept \cup {k}
          /\ DOMAIN Swept \subseteq DOMAIN store
          /\ \A y \in DOMAIN Swept \ {k} : store'[y] = store[y]
      BY <1>1, <3>1, CallEffect DEF IInv
    <3>4. CASE x \in DOMAIN Swept
      <4>1. ~Stale(store[x]) /\ Swept[x] = store[x]
        BY <3>4 DEF Swept
      <4>2. store'[x] = store[x] /\ x \in DOMAIN store'
        BY <1>1, <3>2, <3>3, <3>4
      <4>3. x \in DOMAIN Swept' /\ Swept'[x] = store[x]
        BY <1>1, <4>1, <4>2 DEF Swept, Stale
      <4> QED BY <1>1, <3>4, <4>1, <4>3 DEF Kept, Prune
    <3>5. CASE x \notin DOMAIN Swept
      <4>1. x \notin DOMAIN store'
        BY <1>1, <3>2, <3>3, <3>5
      <4>2. x \notin DOMAIN Swept'
        BY <4>1 DEF Swept
      <4> QED BY <3>5, <4>2 DEF Kept
    <3> QED BY <3>4, <3>5
  <2>3. ~(clock' = clock + 1)
    BY <1>1 DEF IInv, TypeOK
  <2> QED BY <1>1, <2>1, <2>2, <2>3, StepIsTickOrCall
<1>2. IInv /\ [Next]_vars => [OthersKeepBudget]_vars
  BY <1>1 DEF OthersKeepBudget
<1> QED BY <1>2, Invariance, PTL DEF Spec, ClientsIsolated

\* After every call the dict holds recent clients only.
THEOREM DictIsSwept == Spec => StoreSwept
<1> DEFINE Recent == \A k \in DOMAIN store' :
                        /\ store'[k] # <<>>
                        /\ store'[k][Len(store'[k])] >= clock - Eviction
<1>1. ASSUME IInv, NEW k \in Keys, IsRateLimited(k)
      PROVE  Recent
  <2> SUFFICES ASSUME NEW x \in DOMAIN store'
               PROVE  store'[x] # <<>> /\ store'[x][Len(store'[x])] >= clock - Eviction
    OBVIOUS
  <2> DEFINE n == Len(log[k])
  <2>1. /\ DOMAIN store' = DOMAIN Swept \cup {k}
        /\ DOMAIN Swept \subseteq DOMAIN store
        /\ \A y \in DOMAIN Swept \ {k} : store'[y] = store[y]
        /\ \/ Full(Kept(k)) /\ store'[k] = Kept(k)
           \/ store'[k] = Append(Kept(k), clock)
    BY <1>1, CallEffect DEF IInv
  <2>2. CASE x # k
    <3>1. x \in DOMAIN Swept /\ store'[x] = store[x] /\ ~Stale(store[x])
      BY <2>1, <2>2 DEF Swept
    <3>2. store[x] \in Seq(0 .. MaxClock) /\ x \in DOMAIN store
      BY <1>1, <2>1, <3>1 DEF IInv, TypeOK, Times
    <3>3. store[x] # <<>> /\ ~(store[x][Len(store[x])] < clock - Eviction)
      BY <3>1 DEF Stale
    <3>4. store[x][Len(store[x])] \in 0 .. MaxClock
      <4>1. Len(store[x]) \in 1 .. Len(store[x])
        BY <3>2, <3>3
      <4> QED BY <3>2, <4>1, SeqFacts
    <3> QED BY <1>1, <3>1, <3>3, <3>4, WindowType, RateAssumption DEF IInv, TypeOK
  <2>3. CASE x = k
    <3>1. /\ n \in Nat /\ clock \in Nat /\ DOMAIN log[k] = 1 .. n
          /\ \A i \in 1 .. n : log[k][i] \in Nat
      BY <1>1, LogType DEF IInv
    <3>2. PICK m \in 0 .. n :
            /\ Kept(k) \in Times
            /\ Len(Kept(k)) = n - m
            /\ \A j \in 1 .. n - m : Kept(k)[j] = log[k][m + j]
            /\ \A i \in 1 .. n : i =< m <=> Expired(log[k][i])
      BY <1>1, KeptIsLiveHistory DEF IInv
    <3>3. CASE store'[k] = Append(Kept(k), clock)
      <4>1. store'[k] # <<>> /\ store'[k][Len(store'[k])] = clock
        <5>1. Kept(k) \in Seq(0 .. MaxClock) /\ clock \in 0 .. MaxClock
          BY <1>1, <3>2 DEF Times, IInv, TypeOK
        <5> QED BY <3>3, <5>1
      <4> QED BY <2>3, <3>1, <4>1, WindowType
    <3>4. CASE Full(Kept(k)) /\ store'[k] = Kept(k)
      <4>1. Len(Kept(k)) \in 1 .. n - m
        BY <3>1, <3>2, <3>4, RateAssumption DEF Full
      <4>2. m + Len(Kept(k)) = n /\ n \in 1 .. n /\ ~(n =< m)
        <5> HIDE DEF n
        <5> QED BY <3>1, <3>2, <4>1
      <4>3. Kept(k)[Len(Kept(k))] = log[k][n]
        BY <3>2, <4>1, <4>2
      <4>4. ~Expired(log[k][n])
        BY <3>2, <4>2
      <4>5. log[k][n] >= clock - Eviction
        BY <3>1, <4>2, <4>4, WindowType DEF Expired
      <4> QED BY <2>3, <3>2, <3>4, <4>1, <4>3, <4>5 DEF Times
    <3> QED BY <2>1, <3>3, <3>4
  <2> QED BY <2>2, <2>3
<1>2. ASSUME IInv, [Next]_vars
      PROVE  [clock' = clock => Recent]_vars
  <2>1. CASE clock' = clock + 1
    BY <1>2, <2>1 DEF IInv, TypeOK
  <2> QED BY <1>1, <1>2, <2>1, StepIsTickOrCall
<1> QED BY <1>2, Invariance, PTL DEF Spec, StoreSwept
-----------------------------------------------------------------------------
\* A caller's list is full exactly when the abstract window is.
LEMMA FullAsCounted ==
  ASSUME IInv, NEW k \in Keys
  PROVE  Full(Kept(k)) <=> Cardinality(SW!InWindow(k)) >= MaxRequests
<1> DEFINE n == Len(log[k])
<1>1. /\ n \in Nat /\ clock \in Nat /\ DOMAIN log[k] = 1 .. n
      /\ \A i \in 1 .. n : log[k][i] \in Nat
  BY LogType DEF IInv
<1>2. PICK m \in 0 .. n :
          /\ Len(Kept(k)) = n - m
          /\ \A i \in 1 .. n : i =< m <=> Expired(log[k][i])
  BY KeptIsLiveHistory DEF IInv
<1>3. SW!InWindow(k) = (m + 1) .. n
  <2>1. \A i \in 1 .. n : log[k][i] > clock - Window <=> ~(i =< m)
    BY <1>1, <1>2, WindowType DEF Expired
  <2>2. SW!InWindow(k) = {i \in 1 .. n : ~(i =< m)}
    BY <1>1, <2>1 DEF SW!InWindow
  <2> HIDE DEF n
  <2> QED BY <1>1, <2>2
<1>4. Cardinality((m + 1) .. n) = n - m
  <2> HIDE DEF n
  <2>1. m + 1 \in Int /\ n \in Int /\ m =< n
    BY <1>1
  <2>2. Cardinality((m + 1) .. n) = IF m + 1 > n THEN 0 ELSE n - (m + 1) + 1
    BY <2>1, FS_Interval
  <2> QED BY <2>1, <2>2
<1> QED BY <1>2, <1>3, <1>4 DEF Full

\* FiniteSets is instantiated along with SlidingWindow.
LEMMA SameCardinality == \A S : SW!Cardinality(S) = Cardinality(S)
BY DEF SW!Cardinality, Cardinality

\* The limiter with its pruned, evicted dictionary implements the sliding
\* window over the full history.
THEOREM Refinement == Spec => ImplementsSlidingWindow
<1>1. Init => SW!Init
  BY DEF Init, SW!Init, NoReply, SW!NoReply
<1>2. ASSUME IInv, [Next]_vars
      PROVE  [SW!Next]_(SW!vars)
  <2>1. CASE Tick
    BY <2>1 DEF Tick, SW!Tick, SW!Next
  <2>2. CASE UNCHANGED vars
    BY <2>2 DEF vars, SW!vars
  <2>3. ASSUME NEW k \in Keys, Deny(k)
        PROVE  SW!Refuse(k)
    BY <1>2, <2>3, FullAsCounted, SameCardinality DEF Deny, SW!Refuse
  <2>4. ASSUME NEW k \in Keys, Admit(k)
        PROVE  SW!Admit(k)
    <3>1. ~(Cardinality(SW!InWindow(k)) >= MaxRequests)
      BY <1>2, <2>4, FullAsCounted DEF Admit
    <3>2. Cardinality(SW!InWindow(k)) \in Nat
      <4>1. IsFiniteSet(DOMAIN log[k]) /\ SW!InWindow(k) \in SUBSET (DOMAIN log[k])
        BY <1>2, LogType, FS_Interval DEF IInv, SW!InWindow
      <4> QED BY <4>1, FS_Subset, FS_CardinalityType
    <3>3. Cardinality(SW!InWindow(k)) < MaxRequests
      BY <3>1, <3>2, RateAssumption
    <3> QED BY <2>4, <3>3, SameCardinality DEF Admit, SW!Admit
  <2> QED BY <1>2, <2>1, <2>2, <2>3, <2>4, StepIsTickOrCall DEF IsRateLimited, SW!Next
<1> QED BY <1>1, <1>2, Invariance, PTL DEF Spec, ImplementsSlidingWindow, SW!Spec
=============================================================================
