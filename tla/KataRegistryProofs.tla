-------------------------- MODULE KataRegistryProofs --------------------------
(***************************************************************************)
(* The safety of the catalogue cache for any finite set of threads.        *)
(*                                                                         *)
(* The lock gives the facts that hold with reset_cache as well: a thread   *)
(* about to load sees no cache and keeps it so, and the catalogues built   *)
(* are paid for by resets (ResetBudget).  The unlocked fast path has its   *)
(* own fact (FastView): a thread that passed its test can lose the dict    *)
(* only to a reset that overlaps its call.  Together they give the         *)
(* refinement of CatalogueCell, with resets and failures.  Where nothing   *)
(* calls reset_cache, as in the running server, all calls moreover share   *)
(* one catalogue.                                                          *)
(***************************************************************************)
EXTENDS KataRegistry, FiniteSetTheorems, TLAPS

\* Threads whose reset is still to come.
Clearing == {t \in Threads : pc[t] \in {"clearAcquire", "clear"}}

\* Every catalogue after the first was asked for by a reset that is over.
ResetBudget ==
    built + (IF cache = None THEN 1 ELSE 0) + Cardinality(Clearing) =< resets + 1

\* What the lock's holder knows of the cache.
LockedView ==
    \A t \in Threads : /\ pc[t] = "load" => cache = None
                       /\ pc[t] = "slowReturn" => cache # None

\* What a thread on the fast path knows of the cache it saw.
FastView ==
    \A t \in Threads : pc[t] = "fastReturn" => cache # None \/ t \in overlapped

IInv == /\ TypeOK
        /\ LockIsExclusive
        /\ LockedView
        /\ FastView
        /\ SlowPathReturnsCatalogue
        /\ ResetBudget

-----------------------------------------------------------------------------
LEMMA ClearingFinite == IsFiniteSet(Clearing) /\ Cardinality(Clearing) \in Nat
<1>1. Clearing \in SUBSET Threads
  BY DEF Clearing
<1> QED BY <1>1, FS_Subset, FS_CardinalityType, RegistryAssumption

\* A thread moves and the others stay where they are.
LEMMA StepEffect ==
  ASSUME TypeOK, NEW t \in Threads, NEW from \in Positions, NEW to \in Positions,
         Step(t, from, to)
  PROVE  /\ pc[t] = from
         /\ pc' \in [Threads -> Positions]
         /\ pc'[t] = to
         /\ \A x \in Threads \ {t} : pc'[x] = pc[x]
BY DEF TypeOK, Step

LEMMA ClearingStep ==
  ASSUME TypeOK, NEW t \in Threads, NEW from \in Positions, NEW to \in Positions,
         Step(t, from, to)
  PROVE  Cardinality(Clearing') =
           IF to \in {"clearAcquire", "clear"}
           THEN IF t \in Clearing THEN Cardinality(Clearing) ELSE Cardinality(Clearing) + 1
           ELSE IF t \in Clearing THEN Cardinality(Clearing) - 1 ELSE Cardinality(Clearing)
<1>1. CASE to \in {"clearAcquire", "clear"}
  <2>1. Clearing' = Clearing \cup {t}
    BY <1>1, StepEffect DEF Clearing
  <2> QED BY <1>1, <2>1, ClearingFinite, FS_AddElement
<1>2. CASE to \notin {"clearAcquire", "clear"}
  <2>1. Clearing' = Clearing \ {t}
    BY <1>2, StepEffect DEF Clearing
  <2> QED BY <1>2, <2>1, ClearingFinite, FS_RemoveElement
<1> QED BY <1>1, <1>2

LEMMA TypeStep ==
  ASSUME TypeOK, [Next]_vars
  PROVE  TypeOK'
<1>1. ASSUME NEW t \in Threads, NEW from \in Positions, NEW to \in Positions,
             Step(t, from, to),
             lock' \in {lock, t, Nobody}, built' \in {built, built + 1},
             cache' \in 0 .. built', failures' \in 0 .. MaxFailures,
             resets' \in 0 .. MaxResets, overlapped' \subseteq Threads,
             \/ result' = result
             \/ \E v \in {Raised} \cup 0 .. built : result' = [result EXCEPT ![t] = v]
      PROVE  TypeOK'
  <2>1. pc' \in [Threads -> Positions]
    BY <1>1, StepEffect
  <2>2. /\ result' \in [Threads -> Int]
        /\ \A x \in Threads : result'[x] \in {Raised} \cup 0 .. built
    BY <1>1 DEF TypeOK, Raised
  <2>3. built' \in Nat /\ \A v \in {Raised} \cup 0 .. built : v \in {Raised} \cup 0 .. built'
    BY <1>1 DEF TypeOK
  <2>4. \A x \in Threads : result'[x] \in {Raised} \cup 0 .. built'
    BY <2>2, <2>3
  <2> QED BY <1>1, <2>1, <2>2, <2>3, <2>4 DEF TypeOK
<1> USE DEF Positions, InLock
<1>2. /\ cache \in 0 .. built /\ built \in Nat /\ failures \in 0 .. MaxFailures
      /\ resets \in 0 .. MaxResets /\ overlapped \subseteq Threads
  BY DEF TypeOK
<1>3. ASSUME NEW t \in Threads, Call(t) \/ Return(t) \/ FastCheck(t) \/ SlowCheck(t)
      PROVE  TypeOK'
  BY <1>1, <1>2, <1>3 DEF Call, Return, FastCheck, SlowCheck
<1>4. ASSUME NEW t \in Threads, FastReturn(t) \/ SlowReturn(t) PROVE TypeOK'
  BY <1>1, <1>2, <1>4 DEF FastReturn, SlowReturn
<1>5. ASSUME NEW t \in Threads, Acquire(t) \/ Release(t) \/ ClearAcquire(t) \/ ClearRelease(t)
      PROVE  TypeOK'
  BY <1>1, <1>2, <1>5 DEF Acquire, Release, ClearAcquire, ClearRelease, Take, Drop
<1>6. ASSUME NEW t \in Threads, Load(t) PROVE TypeOK'
  BY <1>1, <1>2, <1>6 DEF Load
<1>7. ASSUME NEW t \in Threads, LoadFails(t) PROVE TypeOK'
  <2>1. failures' \in 0 .. MaxFailures
    BY <1>2, <1>7, RegistryAssumption DEF LoadFails
  <2> QED BY <1>1, <1>2, <1>7, <2>1 DEF LoadFails
<1>8. ASSUME NEW t \in Threads, Reset(t) PROVE TypeOK'
  <2>1. resets' \in 0 .. MaxResets
    BY <1>2, <1>8, RegistryAssumption DEF Reset
  <2> QED BY <1>1, <1>2, <1>8, <2>1 DEF Reset
<1>9. ASSUME NEW t \in Threads, Clear(t) PROVE TypeOK'
  BY <1>1, <1>2, <1>9 DEF Clear, None
<1>10. ASSUME UNCHANGED vars PROVE TypeOK'
  BY <1>10 DEF TypeOK, vars
<1> QED BY <1>3, <1>4, <1>5, <1>6, <1>7, <1>8, <1>9, <1>10 DEF Next, Inside

LEMMA LockStep ==
  ASSUME TypeOK, LockIsExclusive, [Next]_vars
  PROVE  LockIsExclusive'
<1> USE DEF LockIsExclusive, Positions, InLock
<1>1. ASSUME NEW t \in Threads, NEW from \in Positions, NEW to \in Positions,
             Step(t, from, to),
             \/ lock' = lock /\ (from \in InLock <=> to \in InLock)
             \/ Take(t) /\ to \in InLock
             \/ Drop(t) /\ from \in InLock /\ to \notin InLock
      PROVE  LockIsExclusive'
  BY <1>1, StepEffect, RegistryAssumption DEF Take, Drop
<1>2. ASSUME NEW t \in Threads,
             Call(t) \/ Return(t) \/ FastCheck(t) \/ FastReturn(t) \/ Reset(t)
      PROVE  LockIsExclusive'
  BY <1>1, <1>2 DEF Call, Return, FastCheck, FastReturn, Reset
<1>3. ASSUME NEW t \in Threads,
             SlowCheck(t) \/ SlowReturn(t) \/ Load(t) \/ LoadFails(t) \/ Clear(t)
      PROVE  LockIsExclusive'
  BY <1>1, <1>3 DEF SlowCheck, SlowReturn, Load, LoadFails, Clear
<1>4. ASSUME NEW t \in Threads, Acquire(t) \/ Release(t) \/ ClearAcquire(t) \/ ClearRelease(t)
      PROVE  LockIsExclusive'
  BY <1>1, <1>4 DEF Acquire, Release, ClearAcquire, ClearRelease
<1>5. ASSUME UNCHANGED vars PROVE LockIsExclusive'
  BY <1>5 DEF vars
<1> QED BY <1>2, <1>3, <1>4, <1>5 DEF Next, Inside

\* Only the holder of the lock changes the cache, so what it saw stays true.
LEMMA ViewStep ==
  ASSUME TypeOK, LockIsExclusive, LockedView, SlowPathReturnsCatalogue, [Next]_vars
  PROVE  LockedView' /\ SlowPathReturnsCatalogue'
<1> DEFINE Goal == LockedView' /\ SlowPathReturnsCatalogue'
<1> USE DEF Positions, InLock, LockedView, SlowPathReturnsCatalogue
<1>1. ASSUME NEW t \in Threads, NEW from \in Positions, NEW to \in Positions,
             Step(t, from, to),
             cache' = cache \/ from \in InLock,
             to = "load" => cache' = None,
             to = "slowReturn" => cache' # None,
             \/ result' = result /\ to # "release"
             \/ \E v \in Int : /\ result' = [result EXCEPT ![t] = v]
                               /\ to = "release" => v # None
      PROVE  Goal
  <2>1. \A x \in Threads \ {t} : result'[x] = result[x]
    BY <1>1 DEF TypeOK
  <2>2. to = "release" => result'[t] # None
    BY <1>1 DEF TypeOK
  <2>3. from \in InLock => \A x \in Threads \ {t} : pc[x] \notin InLock
    BY <1>1, StepEffect DEF LockIsExclusive
  <2> QED BY <1>1, <2>1, <2>2, <2>3, StepEffect
<1>2. ASSUME NEW t \in Threads,
             \/ Call(t) \/ Return(t) \/ FastCheck(t) \/ Reset(t) \/ Acquire(t)
             \/ Release(t) \/ ClearAcquire(t) \/ Clear(t) \/ ClearRelease(t)
      PROVE  Goal
  BY <1>1, <1>2 DEF Call, Return, FastCheck, Reset, Acquire, Release, ClearAcquire,
                    Clear, ClearRelease
<1>3. ASSUME NEW t \in Threads, SlowCheck(t) PROVE Goal
  BY <1>1, <1>3 DEF SlowCheck, MustLoad
<1>4. ASSUME NEW t \in Threads, Load(t) PROVE Goal
  <2>1. cache' # None
    BY <1>4 DEF Load, None, TypeOK
  <2> QED BY <1>1, <1>4, <2>1 DEF Load
<1>5. ASSUME NEW t \in Threads, LoadFails(t) PROVE Goal
  <2>1. Raised \in Int /\ Raised # None
    BY DEF Raised, None
  <2> QED BY <1>1, <1>5, <2>1 DEF LoadFails
<1>6. ASSUME NEW t \in Threads, SlowReturn(t) PROVE Goal
  <2>1. cache \in Int /\ cache # None
    BY <1>6, StepEffect DEF SlowReturn, TypeOK
  <2> QED BY <1>1, <1>6, <2>1 DEF SlowReturn
<1>7. ASSUME NEW t \in Threads, FastReturn(t) PROVE Goal
  <2>1. cache \in Int
    BY DEF TypeOK
  <2> QED BY <1>1, <1>7, <2>1 DEF FastReturn
<1>8. ASSUME UNCHANGED vars PROVE Goal
  BY <1>8 DEF vars
<1> QED BY <1>2, <1>3, <1>4, <1>5, <1>6, <1>7, <1>8 DEF Next, Inside

\* Only reset_cache empties the cache, and it marks the calls under way.
LEMMA FastStep ==
  ASSUME TypeOK, FastView, [Next]_vars
  PROVE  FastView'
<1> USE DEF Positions, InLock, FastView
<1>1. ASSUME NEW t \in Threads, NEW from \in Positions, NEW to \in Positions,
             Step(t, from, to),
             cache' = cache \/ cache' # None,
             overlapped \ {t} \subseteq overlapped',
             to = "fastReturn" => cache' # None
      PROVE  FastView'
  BY <1>1, StepEffect
<1>2. ASSUME NEW t \in Threads,
             \/ Call(t) \/ Return(t) \/ FastCheck(t) \/ FastReturn(t) \/ Acquire(t)
             \/ SlowCheck(t) \/ LoadFails(t) \/ SlowReturn(t) \/ Release(t) \/ Reset(t)
             \/ ClearAcquire(t) \/ ClearRelease(t)
      PROVE  FastView'
  BY <1>1, <1>2 DEF Call, Return, FastCheck, FastReturn, Acquire, SlowCheck, LoadFails,
                    SlowReturn, Release, Reset, ClearAcquire, ClearRelease
<1>3. ASSUME NEW t \in Threads, Load(t) PROVE FastView'
  <2>1. cache' # None
    BY <1>3 DEF Load, None, TypeOK
  <2> QED BY <1>1, <1>3, <2>1 DEF Load
<1>4. ASSUME NEW t \in Threads, Clear(t) PROVE FastView'
  <2>1. \A x \in Threads : pc'[x] = "fastReturn" => pc[x] = "fastReturn"
    BY <1>4, StepEffect DEF Clear
  <2>2. \A x \in Threads : pc[x] = "fastReturn" => x \in overlapped'
    BY <1>4 DEF Clear, CallState
  <2> QED BY <2>1, <2>2
<1>5. ASSUME UNCHANGED vars PROVE FastView'
  BY <1>5 DEF vars
<1> QED BY <1>2, <1>3, <1>4, <1>5 DEF Next, Inside

LEMMA BudgetStep ==
  ASSUME TypeOK, LockedView, ResetBudget, [Next]_vars
  PROVE  ResetBudget'
<1> USE DEF Positions, InLock
<1> DEFINE n == Cardinality(Clearing)
<1>0. /\ n \in Nat /\ built \in Nat /\ resets \in Nat
      /\ built + (IF cache = None THEN 1 ELSE 0) + n =< resets + 1
  BY ClearingFinite, RegistryAssumption DEF TypeOK, ResetBudget
<1>1. ASSUME NEW t \in Threads, NEW from \in Positions, NEW to \in Positions,
             Step(t, from, to), cache' = cache, built' = built, resets' = resets,
             from \in {"clearAcquire", "clear"} <=> to \in {"clearAcquire", "clear"}
      PROVE  ResetBudget'
  <2>1. Cardinality(Clearing') = n
    BY <1>1, ClearingStep, StepEffect DEF Clearing
  <2> HIDE DEF n
  <2> QED BY <1>0, <1>1, <2>1 DEF ResetBudget
<1>2. ASSUME NEW t \in Threads,
             \/ Call(t) \/ Return(t) \/ FastCheck(t) \/ FastReturn(t) \/ Acquire(t)
             \/ SlowCheck(t) \/ LoadFails(t) \/ SlowReturn(t) \/ Release(t)
             \/ ClearAcquire(t) \/ ClearRelease(t)
      PROVE  ResetBudget'
  BY <1>1, <1>2 DEF Call, Return, FastCheck, FastReturn, Acquire, SlowCheck, LoadFails,
                    SlowReturn, Release, ClearAcquire, ClearRelease
<1>3. ASSUME NEW t \in Threads, Load(t) PROVE ResetBudget'
  <2>1. Cardinality(Clearing') = n
    BY <1>3, ClearingStep, StepEffect DEF Load, Clearing
  <2>2. cache = None
    BY <1>3, StepEffect DEF Load, LockedView
  <2>3. built' = built + 1 /\ cache' = built + 1 /\ resets' = resets
    BY <1>3 DEF Load
  <2> HIDE DEF n
  <2> QED BY <1>0, <2>1, <2>2, <2>3 DEF ResetBudget, None
<1>4. ASSUME NEW t \in Threads, Reset(t) PROVE ResetBudget'
  <2>1. Cardinality(Clearing') = n + 1
    BY <1>4, ClearingStep, StepEffect DEF Reset, Clearing
  <2>2. built' = built /\ cache' = cache /\ resets' = resets + 1
    BY <1>4 DEF Reset
  <2> HIDE DEF n
  <2> QED BY <1>0, <2>1, <2>2 DEF ResetBudget
<1>5. ASSUME NEW t \in Threads, Clear(t) PROVE ResetBudget'
  <2>1. Cardinality(Clearing') = n - 1
    BY <1>5, ClearingStep, StepEffect DEF Clear, Clearing
  <2>2. built' = built /\ cache' = None /\ resets' = resets
    BY <1>5 DEF Clear
  <2> HIDE DEF n
  <2> QED BY <1>0, <2>1, <2>2 DEF ResetBudget
<1>6. ASSUME UNCHANGED vars PROVE ResetBudget'
  BY <1>6 DEF vars, ResetBudget, Clearing
<1> QED BY <1>2, <1>3, <1>4, <1>5, <1>6 DEF Next, Inside

LEMMA InitEstablishes == Init => IInv
<1> SUFFICES ASSUME Init PROVE IInv
  OBVIOUS
<1> USE DEF Init
<1>1. TypeOK
  BY RegistryAssumption DEF TypeOK, Positions, InLock, None, Raised
<1>2. Clearing = {}
  BY DEF Clearing
<1>3. ResetBudget
  BY <1>2, FS_EmptySet DEF ResetBudget
<1>4. LockIsExclusive /\ LockedView /\ FastView /\ SlowPathReturnsCatalogue
  BY RegistryAssumption
     DEF LockIsExclusive, LockedView, FastView, SlowPathReturnsCatalogue, InLock
<1> QED BY <1>1, <1>3, <1>4 DEF IInv

LEMMA NextPreserves == IInv /\ [Next]_vars => IInv'
BY TypeStep, LockStep, ViewStep, FastStep, BudgetStep DEF IInv
-----------------------------------------------------------------------------
\* Every reachable state satisfies the inductive invariant.
THEOREM Invariance == Spec => []IInv
BY InitEstablishes, NextPreserves, PTL DEF Spec

\* Type correctness.
THEOREM TypeCorrect == Spec => []TypeOK
<1>1. IInv => TypeOK
  BY DEF IInv
<1> QED BY <1>1, Invariance, PTL

\* The with blocks exclude each other and are always left with the lock free,
\* whether or not the loader raised.
THEOREM LockExcludes == Spec => []LockIsExclusive
<1>1. IInv => LockIsExclusive
  BY DEF IInv
<1> QED BY <1>1, Invariance, PTL

\* The catalogue is built at most once, and once more for each reset.
THEOREM BuiltOnce == Spec => []BuiltAtMostOncePerReset
<1>1. IInv => BuiltAtMostOncePerReset
  BY ClearingFinite, RegistryAssumption
     DEF IInv, TypeOK, ResetBudget, BuiltAtMostOncePerReset
<1> QED BY <1>1, Invariance, PTL

\* The locked path never returns None, resets or not.
THEOREM SlowPathSafe == Spec => []SlowPathReturnsCatalogue
<1>1. IInv => SlowPathReturnsCatalogue
  BY DEF IInv
<1> QED BY <1>1, Invariance, PTL
-----------------------------------------------------------------------------
(***************************************************************************)
(* The running server, in which nothing calls reset_cache.                 *)
(***************************************************************************)
Served == /\ resets = 0
          /\ \A t \in Threads :
                /\ pc[t] \notin {"clearAcquire", "clear", "clearRelease"}
                /\ pc[t] = "fastReturn" => cache # None
                /\ pc[t] \in {"release", "return"} => result[t] \in {Raised, 1}
          /\ cache \in {None, 1}

\* Every answer is the one catalogue, or the exception of the call's own load.
OneCatalogue ==
    \A t \in Threads : pc[t] = "return" => result[t] \in {Raised, 1}

LEMMA ServedInit == Init => Served
BY DEF Init, Served, None

LEMMA ServedStep ==
  ASSUME Resetters = {}, IInv, BuiltAtMostOncePerReset', Served, [Next]_vars
  PROVE  Served'
<1> USE DEF Positions, InLock
<1>0. TypeOK /\ LockedView /\ result \in [Threads -> Int]
  BY DEF IInv, TypeOK
<1>1. ASSUME NEW t \in Threads, NEW from \in Positions, NEW to \in Positions,
             Step(t, from, to), resets' = resets,
             to \notin {"clearAcquire", "clear", "clearRelease"},
             cache' = cache \/ cache' = 1,
             to = "fastReturn" => cache # None,
             \/ result' = result /\ (to \in {"release", "return"} => from = "release")
             \/ \E v \in {Raised, 1} : result' = [result EXCEPT ![t] = v]
      PROVE  Served'
  <2>1. /\ pc'[t] = to /\ pc[t] = from
        /\ \A x \in Threads \ {t} : pc'[x] = pc[x] /\ result'[x] = result[x]
    BY <1>0, <1>1, StepEffect
  <2>2. to \in {"release", "return"} => result'[t] \in {Raised, 1}
    BY <1>0, <1>1, <2>1 DEF Served
  <2>3. cache' \in {None, 1} /\ (cache # None => cache' # None)
    BY <1>1 DEF Served, None
  <2> QED BY <1>1, <2>1, <2>2, <2>3 DEF Served
<1>2. ASSUME NEW t \in Threads,
             \/ Call(t) \/ Return(t) \/ FastCheck(t) \/ Acquire(t) \/ Release(t)
             \/ SlowCheck(t)
      PROVE  Served'
  BY <1>1, <1>2 DEF Call, Return, FastCheck, Acquire, Release, SlowCheck
<1>3. ASSUME NEW t \in Threads, FastReturn(t) \/ SlowReturn(t) PROVE Served'
  <2>1. pc[t] \in {"fastReturn", "slowReturn"}
    BY <1>3 DEF FastReturn, SlowReturn, Step
  <2>2. cache = 1
    BY <1>0, <2>1 DEF LockedView, Served
  <2> QED BY <1>1, <1>3, <2>2 DEF FastReturn, SlowReturn
<1>4. ASSUME NEW t \in Threads, Load(t) PROVE Served'
  <2>1. built' =< resets' + 1 /\ built \in Nat /\ built' = built + 1 /\ resets' = 0
    BY <1>0, <1>4 DEF Load, TypeOK, Served, BuiltAtMostOncePerReset
  <2>2. cache' = 1
    BY <1>4, <2>1 DEF Load
  <2> QED BY <1>1, <1>4, <2>2 DEF Load
<1>5. ASSUME NEW t \in Threads, LoadFails(t) PROVE Served'
  BY <1>1, <1>5 DEF LoadFails
<1>6. ASSUME NEW t \in Threads, Reset(t) \/ ClearAcquire(t) \/ Clear(t) \/ ClearRelease(t)
      PROVE  FALSE
  BY <1>6 DEF Reset, ClearAcquire, Clear, ClearRelease, Step, Served
<1>7. ASSUME UNCHANGED vars PROVE Served'
  BY <1>7 DEF vars, Served
<1> QED BY <1>2, <1>3, <1>4, <1>5, <1>6, <1>7 DEF Next, Inside

LEMMA ServedInvariance ==
  ASSUME Resetters = {}
  PROVE  Spec => [](IInv /\ Served)
<1>1. IInv /\ BuiltAtMostOncePerReset' /\ Served /\ [Next]_vars => Served'
  BY ServedStep
<1> QED BY <1>1, ServedInit, Invariance, BuiltOnce, PTL DEF Spec

\* All calls of one process that never resets share one catalogue.
THEOREM OneForAll ==
  ASSUME Resetters = {}
  PROVE  Spec => []OneCatalogue
<1>1. Served => OneCatalogue
  BY DEF Served, OneCatalogue
<1> QED BY <1>1, ServedInvariance, PTL

-----------------------------------------------------------------------------
LEMMA CellInit == Init => CC!Init
BY DEF Init, CC!Init, CC!Empty, None, CallState

\* What a move of one thread shows outside.
LEMMA CallStateStep ==
  ASSUME TypeOK, NEW t \in Threads, NEW from \in Positions, NEW to \in Positions,
         Step(t, from, to)
  PROVE  /\ CallState(t) = IF from \in {"idle", "clearAcquire", "clear", "clearRelease"}
                           THEN "idle"
                           ELSE IF from \in {"release", "return"} THEN "done" ELSE "pending"
         /\ CallState(t)' = IF to \in {"idle", "clearAcquire", "clear", "clearRelease"}
                            THEN "idle"
                            ELSE IF to \in {"release", "return"} THEN "done" ELSE "pending"
         /\ \A x \in Threads \ {t} : CallState(x)' = CallState(x)
BY StepEffect DEF CallState

LEMMA CallMoves ==
  ASSUME NEW t \in Threads, NEW s, CallState(t)' = s,
         \A x \in Threads \ {t} : CallState(x)' = CallState(x)
  PROVE  [x \in Threads |-> CallState(x)]'
           = [[x \in Threads |-> CallState(x)] EXCEPT ![t] = s]
OBVIOUS

LEMMA CallRests ==
  ASSUME NEW t \in Threads, CallState(t)' = CallState(t),
         \A x \in Threads \ {t} : CallState(x)' = CallState(x)
  PROVE  [x \in Threads |-> CallState(x)]' = [x \in Threads |-> CallState(x)]
<1>1. \A x \in Threads : CallState(x)' = CallState(x)
  OBVIOUS
<1> QED BY <1>1

\* Every step of a thread is a step of the cell or none.
LEMMA CellStep ==
  ASSUME IInv, [Next]_vars
  PROVE  [CC!Next]_(CC!vars)
<1> USE DEF Positions, InLock
<1>0. TypeOK /\ LockedView /\ FastView
  BY DEF IInv
<1>1. ASSUME NEW t \in Threads, Call(t) PROVE CC!Invoke(t)
  <2>1. CallState(t) = "idle" /\ CallState(t)' = "pending"
        /\ \A x \in Threads \ {t} : CallState(x)' = CallState(x)
    BY <1>0, <1>1, CallStateStep DEF Call
  <2> QED BY <1>1, <2>1, CallMoves DEF Call, CC!Invoke
<1>2. ASSUME NEW t \in Threads,
             \/ FastCheck(t) \/ Acquire(t) \/ SlowCheck(t) \/ Release(t)
             \/ Reset(t) \/ ClearAcquire(t) \/ ClearRelease(t)
      PROVE  UNCHANGED CC!vars
  <2>1. CallState(t)' = CallState(t)
        /\ \A x \in Threads \ {t} : CallState(x)' = CallState(x)
    BY <1>0, <1>2, CallStateStep
       DEF FastCheck, Acquire, SlowCheck, Release, Reset, ClearAcquire, ClearRelease
  <2>2. UNCHANGED <<cache, built, result, overlapped>>
    BY <1>2 DEF FastCheck, Acquire, SlowCheck, Release, Reset, ClearAcquire, ClearRelease
  <2> QED BY <2>1, <2>2, CallRests DEF CC!vars
<1>3. ASSUME NEW t \in Threads, FastReturn(t) \/ SlowReturn(t) PROVE CC!Get(t)
  <2>1. cache # None \/ t \in overlapped
    BY <1>0, <1>3 DEF FastReturn, SlowReturn, Step, LockedView, FastView
  <2>2. CallState(t) = "pending" /\ CallState(t)' = "done"
        /\ \A x \in Threads \ {t} : CallState(x)' = CallState(x)
    BY <1>0, <1>3, CallStateStep DEF FastReturn, SlowReturn
  <2> QED BY <1>3, <2>1, <2>2, CallMoves
          DEF FastReturn, SlowReturn, CC!Get, CC!Finish, CC!Empty, None
<1>4. ASSUME NEW t \in Threads, Load(t) PROVE CC!Build(t)
  <2>1. cache = None
    BY <1>0, <1>4 DEF Load, Step, LockedView
  <2>2. CallState(t) = "pending" /\ CallState(t)' = CallState(t)
        /\ \A x \in Threads \ {t} : CallState(x)' = CallState(x)
    BY <1>0, <1>4, CallStateStep DEF Load
  <2> QED BY <1>4, <2>1, <2>2, CallRests DEF Load, CC!Build, CC!Empty, None
<1>5. ASSUME NEW t \in Threads, LoadFails(t) PROVE CC!Fail(t)
  <2>1. cache = None
    BY <1>0, <1>5 DEF LoadFails, Step, LockedView
  <2>2. CallState(t) = "pending" /\ CallState(t)' = "done"
        /\ \A x \in Threads \ {t} : CallState(x)' = CallState(x)
    BY <1>0, <1>5, CallStateStep DEF LoadFails
  <2> QED BY <1>5, <2>1, <2>2, CallMoves
          DEF LoadFails, CC!Fail, CC!Finish, CC!Empty, CC!Failed, None, Raised
<1>6. ASSUME NEW t \in Threads, Return(t) PROVE CC!Return(t)
  <2>1. CallState(t) = "done" /\ CallState(t)' = "idle"
        /\ \A x \in Threads \ {t} : CallState(x)' = CallState(x)
    BY <1>0, <1>6, CallStateStep DEF Return
  <2> QED BY <1>6, <2>1, CallMoves DEF Return, CC!Return
<1>7. ASSUME NEW t \in Threads, Clear(t) PROVE CC!Clear
  <2>1. CallState(t)' = CallState(t)
        /\ \A x \in Threads \ {t} : CallState(x)' = CallState(x)
    BY <1>0, <1>7, CallStateStep DEF Clear
  <2> QED BY <1>7, <2>1, CallRests DEF Clear, CC!Clear, CC!Empty, None
<1>8. ASSUME UNCHANGED vars PROVE UNCHANGED CC!vars
  BY <1>8 DEF vars, CC!vars, CallState
<1> QED BY <1>1, <1>2, <1>3, <1>4, <1>5, <1>6, <1>7, <1>8 DEF Next, Inside, CC!Next

\* Double-checked locking implements the cell, resets and failed loads included.
THEOREM Refinement == Spec => ImplementsCatalogueCell
BY CellInit, CellStep, Invariance, PTL DEF Spec, ImplementsCatalogueCell, CC!Spec
=============================================================================
