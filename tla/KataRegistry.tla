----------------------------- MODULE KataRegistry -----------------------------
(***************************************************************************)
(* The catalogue cache of services/kata_registry.py: _get_cache with its   *)
(* double-checked locking, and reset_cache.  The event loop's thread (list *)
(* and detail endpoints) and the pool's worker threads (validate) call it  *)
(* concurrently; a step is what one thread does between two places where   *)
(* another thread can run, in particular each read of the global.          *)
(*                                                                         *)
(* A dict is its number: the n-th one that _load_katas built.              *)
(***************************************************************************)
EXTENDS Integers, FiniteSets

CONSTANTS Threads,      \* threads that call _get_cache
          Resetters,    \* those of them that also call reset_cache
          Nobody,       \* stands for the owner of a free lock
          MaxFailures,  \* bound: how often loading may raise (unreadable YAML)
          MaxResets     \* bound: how often reset_cache is called

ASSUME RegistryAssumption ==
    /\ IsFiniteSet(Threads)
    /\ Resetters \subseteq Threads
    /\ Nobody \notin Threads
    /\ MaxFailures \in Nat
    /\ MaxResets \in Nat

None == 0      \* _kata_cache is None
Raised == -1   \* the call ends with the loader's exception

VARIABLES cache,     \* _kata_cache
          lock,      \* the owner of _cache_lock
          pc,        \* where each thread is
          result,    \* what its call is about to return
          built,     \* dicts built so far
          failures,  \* loads that raised so far
          resets,    \* reset_cache calls so far
          overlapped \* history: calls under way when reset_cache dropped the dict

vars == <<cache, lock, pc, result, built, failures, resets, overlapped>>

\* Positions inside "with _cache_lock".
InLock == {"slowCheck", "load", "slowReturn", "release", "clear", "clearRelease"}

Positions == InLock \cup
             {"idle", "fastCheck", "fastReturn", "acquire", "return", "clearAcquire"}

\* Where the call of a thread is, seen from outside; a reset is not a call.
CallState(t) ==
    IF pc[t] \in {"idle", "clearAcquire", "clear", "clearRelease"} THEN "idle"
    ELSE IF pc[t] \in {"release", "return"} THEN "done" ELSE "pending"

Init == /\ cache = None
        /\ lock = Nobody
        /\ pc = [t \in Threads |-> "idle"]
        /\ result = [t \in Threads |-> None]
        /\ built = 0
        /\ failures = 0
        /\ resets = 0
        /\ overlapped = {}

Step(t, from, to) == /\ pc[t] = from
                     /\ pc' = [pc EXCEPT ![t] = to]
-----------------------------------------------------------------------------
\* get_all_katas, get_kata_by_id or get_kata_raw calls _get_cache.
Call(t) == /\ Step(t, "idle", "fastCheck")
           /\ UNCHANGED <<cache, lock, result, built, failures, resets, overlapped>>

\* (mutant) A thread that finds no dict waits for another one to build it.
FastCheck_Waits(t) ==
    /\ \/ cache # None /\ Step(t, "fastCheck", "fastReturn")
       \/ cache = None /\ Step(t, "fastCheck", "fastCheck")
    /\ UNCHANGED <<cache, lock, result, built, failures, resets, overlapped>>

\* The fast path's test, without the lock.
FastCheck(t) ==
    /\ \/ cache # None /\ Step(t, "fastCheck", "fastReturn")
       \/ cache = None /\ Step(t, "fastCheck", "acquire")
    /\ UNCHANGED <<cache, lock, result, built, failures, resets, overlapped>>

\* The fast path's return statement reads the global again.
FastReturn(t) ==
    /\ Step(t, "fastReturn", "return")
    /\ result' = [result EXCEPT ![t] = cache]
    /\ UNCHANGED <<cache, lock, built, failures, resets, overlapped>>

Take(t) == lock = Nobody /\ lock' = t
Drop(t) == lock' = Nobody

Acquire(t) ==
    /\ Step(t, "acquire", "slowCheck")
    /\ Take(t)
    /\ UNCHANGED <<cache, result, built, failures, resets, overlapped>>

\* (mutant) Locking without the second test.
MustLoad_Unchecked == TRUE

\* The second test, with the lock.
MustLoad == cache = None

SlowCheck(t) ==
    /\ \/ MustLoad /\ Step(t, "slowCheck", "load")
       \/ ~MustLoad /\ Step(t, "slowCheck", "slowReturn")
    /\ UNCHANGED <<cache, lock, result, built, failures, resets, overlapped>>

\* _load_katas returns a new dict, which becomes the cache.
Load(t) ==
    /\ Step(t, "load", "slowReturn")
    /\ built' = built + 1
    /\ cache' = built + 1
    /\ UNCHANGED <<lock, result, failures, resets, overlapped>>

\* (mutant) The lock is not released when the loader raises.
LoadFails_KeepsLock(t) ==
    /\ failures < MaxFailures
    /\ Step(t, "load", "return")
    /\ failures' = failures + 1
    /\ result' = [result EXCEPT ![t] = Raised]
    /\ UNCHANGED <<cache, lock, built, resets, overlapped>>

\* _load_katas raises; the with statement still releases the lock.
LoadFails(t) ==
    /\ failures < MaxFailures
    /\ Step(t, "load", "release")
    /\ failures' = failures + 1
    /\ result' = [result EXCEPT ![t] = Raised]
    /\ UNCHANGED <<cache, lock, built, resets, overlapped>>

SlowReturn(t) ==
    /\ Step(t, "slowReturn", "release")
    /\ result' = [result EXCEPT ![t] = cache]
    /\ UNCHANGED <<cache, lock, built, failures, resets, overlapped>>

Release(t) ==
    /\ Step(t, "release", "return")
    /\ Drop(t)
    /\ UNCHANGED <<cache, result, built, failures, resets, overlapped>>

Return(t) == /\ Step(t, "return", "idle")
             /\ overlapped' = overlapped \ {t}
             /\ UNCHANGED <<cache, lock, result, built, failures, resets>>

\* reset_cache is called.
Reset(t) == /\ t \in Resetters
            /\ resets < MaxResets
            /\ Step(t, "idle", "clearAcquire")
            /\ resets' = resets + 1
            /\ UNCHANGED <<cache, lock, result, built, failures, overlapped>>

\* (mutant) reset_cache does not take the lock.
ClearAcquire_Unlocked(t) == /\ Step(t, "clearAcquire", "clear")
                            /\ UNCHANGED <<cache, lock, result, built, failures, resets, overlapped>>

ClearAcquire(t) == /\ Step(t, "clearAcquire", "clear")
                   /\ Take(t)
                   /\ UNCHANGED <<cache, result, built, failures, resets, overlapped>>

\* It drops the dict under the lock ...
Clear(t) == /\ Step(t, "clear", "clearRelease")
            /\ cache' = None
            /\ overlapped' = overlapped \cup {x \in Threads : CallState(x) = "pending"}
            /\ UNCHANGED <<lock, result, built, failures, resets>>

\* ... and returns.
ClearRelease(t) == /\ Step(t, "clearRelease", "idle")
                   /\ Drop(t)
                   /\ UNCHANGED <<cache, result, built, failures, resets, overlapped>>

\* What a thread does once it is inside _get_cache or reset_cache.
Inside(t) == \/ FastCheck(t) \/ FastReturn(t) \/ Acquire(t) \/ SlowCheck(t)
             \/ Load(t) \/ LoadFails(t) \/ SlowReturn(t) \/ Release(t) \/ Return(t)
             \/ ClearAcquire(t) \/ Clear(t) \/ ClearRelease(t)

Next == \E t \in Threads : Call(t) \/ Reset(t) \/ Inside(t)

\* Threads inside a call keep running.  The lock is not fair, so only weak
\* fairness is assumed of a thread that waits for it.
Spec == Init /\ [][Next]_vars /\ \A t \in Threads : WF_vars(Inside(t))
-----------------------------------------------------------------------------
\* The state's shape.
TypeOK ==
    /\ cache \in 0 .. built
    /\ lock \in Threads \cup {Nobody}
    /\ pc \in [Threads -> Positions]
    /\ result \in [Threads -> Int]
    /\ \A t \in Threads : result[t] \in {Raised} \cup 0 .. built
    /\ built \in Nat
    /\ failures \in 0 .. MaxFailures
    /\ resets \in 0 .. MaxResets
    /\ overlapped \subseteq Threads

\* The lock is held by exactly the thread that is inside the with block, also
\* after the loader raised.
LockIsExclusive == \A t \in Threads : pc[t] \in InLock <=> lock = t

\* A dict is only built while there is none, so no two threads build for the
\* same emptiness: without resets the catalogue is loaded at most once.
BuiltAtMostOncePerReset == built =< resets + 1

\* A call that took the lock returns a catalogue or the loader's exception,
\* even if others reset the cache meanwhile.
SlowPathReturnsCatalogue ==
    \A t \in Threads : pc[t] = "release" => result[t] # None

\* Every call ends, with a catalogue or an exception: in particular a loader
\* that raises does not leave the lock behind.
EveryCallEnds == \A t \in Threads : pc[t] = "fastCheck" ~> pc[t] = "idle"

\* With resets and failures, at every interleaving, the registry is a cell: a
\* call answers with what the cell held at one moment of the call, and only a
\* call that a reset overlapped can come back with None.
CC == INSTANCE CatalogueCell
        WITH Callers <- Threads, cell <- cache, made <- built, answer <- result,
             call <- [t \in Threads |-> CallState(t)]

ImplementsCatalogueCell == CC!Spec
=============================================================================
