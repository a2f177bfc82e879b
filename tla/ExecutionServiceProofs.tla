------------------------ MODULE ExecutionServiceProofs ------------------------
(***************************************************************************)
(* The safety of ExecutionService for every finite set of requests, every  *)
(* number of permits and every size of the thread pool.                    *)
(*                                                                         *)
(* The permits are not independent of the threads' positions: their number *)
(* and the number of threads between acquire and release add up to         *)
(* MaxConcurrent.  That equation, with the fact that a live child belongs  *)
(* to one of those threads and that code past the checks is clean, is      *)
(* inductive (IInv) and gives every other result here.                     *)
(***************************************************************************)
EXTENDS ExecutionService, FiniteSetTheorems, SequenceTheorems, TLAPS

\* Who has come past the static checks, and past the kata lookup, which only a
\* submission for a kata makes.
Checked == In({"acquiring", "spawning", "running", "killing"})
LookedUp == In({"checking"}) \cup Checked

CheckedIsClean == /\ \A r \in Checked : request[r].program = "clean"
                  /\ \A r \in LookedUp : request[r].target # "noKata"
                  /\ \A r \in In({"lookup"}) : request[r].target # "execute"

\* A thread's result is fixed when it leaves the try block or settles.
OutcomeComesLast ==
    \A r \in Requests :
        outcome[r] # "none" => phase[r] \in {"ended", "replying", "answered"}

\* A request that was submitted says what it asks for.
Submitted ==
    \A r \in Requests :
        phase[r] # "new" => request[r] \in [target : Targets, program : Programs]

\* A result that is fixed is one that the request deserves.
SettledIsDue ==
    \A r \in Requests :
        phase[r] \in {"ended", "replying", "answered"} => outcome[r] \in Due(request[r])

IInv == /\ TypeOK
        /\ PermitsAccountedFor
        /\ ChildrenHoldPermits
        /\ children \subseteq In({"running", "killing"})
        /\ CheckedIsClean
        /\ OutcomeComesLast
        /\ Submitted
        /\ SettledIsDue

-----------------------------------------------------------------------------
\* Holders is finite, so it can be counted.
LEMMA HoldersFinite == IsFiniteSet(Holders) /\ Cardinality(Holders) \in Nat
<1>1. Holders \in SUBSET Requests
  BY DEF Holders, In
<1> QED BY <1>1, FS_Subset, FS_CardinalityType, ServiceAssumption

\* A permit is left exactly while fewer than MaxConcurrent threads hold one.
LEMMA PermitLeft ==
  ASSUME TypeOK, PermitsAccountedFor
  PROVE  /\ permits > 0 <=> Cardinality(Holders) < MaxConcurrent
         /\ NoPermit <=> Cardinality(Holders) = MaxConcurrent
BY HoldersFinite, ServiceAssumption DEF TypeOK, PermitsAccountedFor, NoPermit

\* A step that moves one request to another phase.
LEMMA GotoEffect ==
  ASSUME TypeOK, NEW r \in Requests, NEW p \in Phases, Goto(r, p)
  PROVE  /\ phase' \in [Requests -> Phases]
         /\ phase'[r] = p
         /\ \A x \in Requests \ {r} : phase'[x] = phase[x]
BY DEF TypeOK, Goto

\* ... leaves the queue as it is if it is not the queue's business.
LEMMA QueueKept ==
  ASSUME TypeOK, NEW r \in Requests, NEW p \in Phases, Goto(r, p),
         phase[r] # "queued", queue' = queue
  PROVE  queue' \in Seq(In({"queued"})')
<1>1. In({"queued"}) \subseteq In({"queued"})'
  BY GotoEffect DEF In
<1> QED BY <1>1 DEF TypeOK

\* ... and changes the number of holders by what it says.
LEMMA HoldersStep ==
  ASSUME TypeOK, NEW r \in Requests, NEW p \in Phases, Goto(r, p)
  PROVE  Cardinality(Holders') =
           IF p \in {"spawning", "running", "killing", "ended"}
           THEN IF r \in Holders THEN Cardinality(Holders) ELSE Cardinality(Holders) + 1
           ELSE IF r \in Holders THEN Cardinality(Holders) - 1 ELSE Cardinality(Holders)
<1>1. CASE p \in {"spawning", "running", "killing", "ended"}
  <2>1. Holders' = Holders \cup {r}
    BY <1>1, GotoEffect DEF Holders, In
  <2> QED BY <1>1, <2>1, HoldersFinite, FS_AddElement
<1>2. CASE p \notin {"spawning", "running", "killing", "ended"}
  <2>1. Holders' = Holders \ {r}
    BY <1>2, GotoEffect DEF Holders, In
  <2> QED BY <1>2, <2>1, HoldersFinite, FS_RemoveElement
<1> QED BY <1>1, <1>2

-----------------------------------------------------------------------------
\* A sequence is one over any set that has its elements.
LEMMA SeqOverSet ==
  ASSUME NEW S, NEW T, NEW s \in Seq(S), \A i \in 1 .. Len(s) : s[i] \in T
  PROVE  s \in Seq(T)
<1>1. PICK n \in Nat : s \in [1 .. n -> S]
  BY SeqDef
<1>2. Len(s) = n /\ DOMAIN s = 1 .. n
  <2>1. DOMAIN s = 1 .. n /\ DOMAIN s = 1 .. Len(s) /\ Len(s) \in Nat
    BY <1>1
  <2> QED BY <2>1
<1>3. s \in [1 .. n -> T]
  BY <1>1, <1>2
<1> QED BY <1>3, SeqDef

\* Type correctness is inductive by itself.
LEMMA TypeStep ==
  ASSUME TypeOK, PermitsAccountedFor, [Next]_vars
  PROVE  TypeOK'
<1> USE DEF Phases, Outcomes, Statuses
<1>1. ASSUME NEW r \in Requests, NEW target \in Targets, NEW program \in Programs,
             Submit(r, target, program)
      PROVE  TypeOK'
  <2>1. /\ phase' \in [Requests -> Phases] /\ phase'[r] = "queued"
        /\ \A x \in Requests \ {r} : phase'[x] = phase[x]
    BY <1>1, GotoEffect DEF Submit
  <2>2. queue' \in Seq(In({"queued"})')
    <3>1. In({"queued"}) \subseteq In({"queued"})' /\ r \in In({"queued"})'
      BY <2>1 DEF In
    <3>2. queue \in Seq(In({"queued"})')
      BY <3>1 DEF TypeOK
    <3> HIDE DEF Phases
    <3> QED BY <1>1, <3>1, <3>2 DEF Submit
  <2>3. \A i, j \in DOMAIN queue' : queue'[i] = queue'[j] => i = j
    <3>1. queue \in Seq(In({"queued"})) /\ r \notin In({"queued"})
      BY <1>1 DEF TypeOK, Submit, In
    <3>2. \A i \in DOMAIN queue : queue[i] # r
      BY <3>1
    <3>3. /\ DOMAIN queue' = DOMAIN queue \cup {Len(queue) + 1}
          /\ queue'[Len(queue) + 1] = r
          /\ \A i \in DOMAIN queue : queue'[i] = queue[i]
      BY <1>1, <3>1 DEF Submit
    <3> QED BY <3>2, <3>3 DEF TypeOK
  <2>4. request' \in [Requests -> [target : Targets, program : Programs] \cup {NoRequest}]
    BY <1>1 DEF TypeOK, Submit
  <2> QED BY <1>1, <2>1, <2>2, <2>3, <2>4 DEF TypeOK, Submit
<1>2. ASSUME PickUp PROVE TypeOK'
  <2> DEFINE r == Head(queue)
  <2>1. /\ queue \in Seq(In({"queued"})) /\ queue # <<>>
        /\ r \in Requests /\ r = queue[1]
        /\ Len(queue) \in Nat /\ DOMAIN queue = 1 .. Len(queue) /\ 1 \in DOMAIN queue
    BY <1>2 DEF TypeOK, PickUp, In
  <2>2. Goto(r, "checking") \/ Goto(r, "lookup")
    BY <1>2 DEF PickUp
  <2> HIDE DEF r
  <2>3. /\ phase' \in [Requests -> Phases]
        /\ \A x \in Requests \ {r} : phase'[x] = phase[x]
    BY <2>1, <2>2, GotoEffect
  <2>4. /\ Len(Tail(queue)) = Len(queue) - 1
        /\ DOMAIN Tail(queue) = 1 .. Len(queue) - 1
        /\ \A i \in 1 .. Len(queue) - 1 : Tail(queue)[i] = queue[i + 1]
    BY <2>1
  <2>5. \A i \in 1 .. Len(queue) - 1 :
           i + 1 \in DOMAIN queue /\ i + 1 # 1 /\ queue[i + 1] \in In({"queued"})
    BY <2>1
  <2>6. \A i \in 1 .. Len(queue) - 1 : Tail(queue)[i] \in In({"queued"})'
    <3>1. \A i \in 1 .. Len(queue) - 1 : queue[i + 1] # r
      BY <2>1, <2>5 DEF TypeOK
    <3> QED BY <2>3, <2>4, <2>5, <3>1 DEF In
  <2>7. Tail(queue) \in Seq(In({"queued"})')
    <3> DEFINE S == In({"queued"})
               T == In({"queued"})'
    <3>1. Tail(queue) \in Seq(S)
      BY <2>1
    <3> HIDE DEF S, T
    <3>2. \A i \in 1 .. Len(Tail(queue)) : Tail(queue)[i] \in T
      BY <2>4, <2>6 DEF T
    <3>3. Tail(queue) \in Seq(T)
      BY <3>1, <3>2, SeqOverSet
    <3> QED BY <3>3 DEF T
  <2>8. \A i, j \in DOMAIN Tail(queue) : Tail(queue)[i] = Tail(queue)[j] => i = j
    <3>1. \A i, j \in 1 .. Len(queue) - 1 : queue[i + 1] = queue[j + 1] => i + 1 = j + 1
      BY <2>5 DEF TypeOK
    <3> QED BY <2>1, <2>4, <3>1
  <2> QED BY <1>2, <2>3, <2>7, <2>8 DEF TypeOK, PickUp
<1>3. ASSUME NEW r \in Requests, NEW p \in Phases, Goto(r, p), phase[r] # "queued",
             request' = request, queue' = queue, permits' \in 0 .. MaxConcurrent,
             children' \subseteq Requests,
             \/ outcome' = outcome
             \/ \E o \in Outcomes : outcome' = [outcome EXCEPT ![r] = o]
      PROVE  TypeOK'
  <2>1. phase' \in [Requests -> Phases] /\ queue' \in Seq(In({"queued"})')
    BY <1>3, GotoEffect, QueueKept
  <2>2. outcome' \in [Requests -> Outcomes]
    BY <1>3 DEF TypeOK
  <2> HIDE DEF Phases, Outcomes
  <2> QED BY <1>3, <2>1, <2>2 DEF TypeOK
<1>4. permits \in 0 .. MaxConcurrent /\ children \subseteq Requests
  BY DEF TypeOK
<1>5. ASSUME NEW r \in Requests, Lookup(r) PROVE TypeOK'
  BY <1>3, <1>4, <1>5 DEF Lookup, Settle
<1>6. ASSUME NEW r \in Requests, Check(r) PROVE TypeOK'
  BY <1>3, <1>4, <1>6 DEF Check, Settle
<1>7. ASSUME NEW r \in Requests, Wait(r) PROVE TypeOK'
  BY <1>3, <1>4, <1>7, ServiceAssumption DEF Wait, Acquire, GiveUp, Settle
<1>8. ASSUME NEW r \in Requests, Start(r) PROVE TypeOK'
  BY <1>3, <1>4, <1>8 DEF Start, Spawn, SpawnFails, Leave
<1>9. ASSUME NEW r \in Requests, Expire(r) \/ Reap(r) PROVE TypeOK'
  BY <1>3, <1>4, <1>9 DEF Expire, Reap, Leave
<1>10. ASSUME NEW r \in Requests, Release(r) PROVE TypeOK'
  <2>1. r \in Holders
    BY <1>10 DEF Release, Holders, In
  <2>2. Cardinality(Holders) # 0
    BY <2>1, HoldersFinite, FS_EmptySet
  <2>3. permits' \in 0 .. MaxConcurrent
    BY <1>4, <1>10, <2>2, HoldersFinite, ServiceAssumption DEF PermitsAccountedFor, Release
  <2> QED BY <1>3, <1>4, <1>10, <2>3 DEF Release
<1>11. ASSUME NEW r \in Requests, Reply(r) PROVE TypeOK'
  BY <1>3, <1>4, <1>11 DEF Reply
<1>12. ASSUME NEW r \in Requests, NEW status \in Statuses, ChildExits(r, status)
       PROVE  TypeOK'
  BY <1>3, <1>4, <1>12 DEF ChildExits, Leave
<1>13. ASSUME UNCHANGED vars PROVE TypeOK'
  BY <1>13 DEF TypeOK, vars, In
<1> QED BY <1>1, <1>2, <1>5, <1>6, <1>7, <1>8, <1>9, <1>10, <1>11, <1>12, <1>13
        DEF Next, Thread, Done
-----------------------------------------------------------------------------
\* The equation of permits and holders survives every step: only Acquire and
\* Release change either side.
LEMMA PermitStep ==
  ASSUME TypeOK, PermitsAccountedFor, [Next]_vars
  PROVE  PermitsAccountedFor'
<1> USE DEF Phases, PermitsAccountedFor
<1>1. ASSUME NEW r \in Requests, NEW p \in Phases, Goto(r, p), permits' = permits,
             r \in Holders <=> p \in {"spawning", "running", "killing", "ended"}
      PROVE  PermitsAccountedFor'
  BY <1>1, HoldersStep
<1>2. ASSUME NEW r \in Requests, NEW target \in Targets, NEW program \in Programs,
             Submit(r, target, program)
      PROVE  PermitsAccountedFor'
  BY <1>1, <1>2 DEF Submit, Holders, In
<1>3. ASSUME PickUp PROVE PermitsAccountedFor'
  <2> DEFINE r == Head(queue)
  <2>1. r \in Requests /\ phase[r] = "queued"
    BY <1>3 DEF PickUp, TypeOK, In
  <2>2. (Goto(r, "checking") \/ Goto(r, "lookup")) /\ permits' = permits
    BY <1>3 DEF PickUp
  <2> HIDE DEF r
  <2> QED BY <1>1, <2>1, <2>2 DEF Holders, In
<1>4. ASSUME NEW r \in Requests, Lookup(r) \/ Check(r) \/ Reply(r) \/ GiveUp(r)
      PROVE  PermitsAccountedFor'
  BY <1>1, <1>4 DEF Lookup, Check, Reply, GiveUp, Settle, Holders, In
<1>5. ASSUME NEW r \in Requests, Start(r) \/ Expire(r) \/ Reap(r)
      PROVE  PermitsAccountedFor'
  BY <1>1, <1>5 DEF Start, Spawn, SpawnFails, Expire, Reap, Leave, Holders, In
<1>6. ASSUME NEW r \in Requests, NEW status \in Statuses, ChildExits(r, status)
      PROVE  PermitsAccountedFor'
  BY <1>1, <1>6 DEF ChildExits, Leave, Holders, In
<1>7. ASSUME NEW r \in Requests, Acquire(r) PROVE PermitsAccountedFor'
  <2>1. Cardinality(Holders') = Cardinality(Holders) + 1
    BY <1>7, HoldersStep DEF Acquire, Holders, In
  <2> QED BY <1>7, <2>1, HoldersFinite, ServiceAssumption DEF Acquire, TypeOK
<1>8. ASSUME NEW r \in Requests, Release(r) PROVE PermitsAccountedFor'
  <2>1. Cardinality(Holders') = Cardinality(Holders) - 1
    BY <1>8, HoldersStep DEF Release, Holders, In
  <2> QED BY <1>8, <2>1, HoldersFinite, ServiceAssumption DEF Release, TypeOK
<1>9. ASSUME UNCHANGED vars PROVE PermitsAccountedFor'
  BY <1>9 DEF vars, Holders, In
<1> QED BY <1>2, <1>3, <1>4, <1>5, <1>6, <1>7, <1>8, <1>9
        DEF Next, Thread, Wait, Done

\* Where the children are, and what is past the checks.
LEMMA ChildStep ==
  ASSUME IInv, [Next]_vars
  PROVE  /\ (children \subseteq In({"running", "killing"}))'
         /\ CheckedIsClean'
<1> USE DEF Phases, Checked, LookedUp, CheckedIsClean
<1>0. TypeOK /\ CheckedIsClean /\ children \subseteq In({"running", "killing"})
  BY DEF IInv
<1> DEFINE Goal == /\ (children \subseteq In({"running", "killing"}))'
                   /\ CheckedIsClean'
<1>1. ASSUME NEW r \in Requests, NEW target \in Targets, NEW program \in Programs,
             Submit(r, target, program)
      PROVE  Goal
  <2>1. /\ phase'[r] = "queued" /\ phase[r] = "new"
        /\ \A x \in Requests \ {r} : phase'[x] = phase[x] /\ request'[x] = request[x]
    BY <1>0, <1>1, GotoEffect DEF Submit, TypeOK
  <2> QED BY <1>0, <1>1, <2>1 DEF Submit, In
<1>2. ASSUME NEW r \in Requests, NEW p \in Phases, Goto(r, p), request' = request,
             \/ children' = children /\ (r \notin children \/ p = "killing")
             \/ children' = children \ {r}
             \/ children' = children \cup {r} /\ p = "running",
             p \in {"acquiring", "spawning", "running", "killing"} =>
                request[r].program = "clean",
             p \in {"checking", "acquiring", "spawning", "running", "killing"} =>
                request[r].target # "noKata",
             p = "lookup" => request[r].target # "execute"
      PROVE  Goal
  <2>1. phase'[r] = p /\ \A x \in Requests \ {r} : phase'[x] = phase[x]
    BY <1>0, <1>2, GotoEffect
  <2> QED BY <1>0, <1>2, <2>1 DEF In
<1>3. ASSUME PickUp PROVE Goal
  <2> DEFINE r == Head(queue)
  <2>1. r \in Requests /\ phase[r] = "queued"
    BY <1>0, <1>3 DEF PickUp, TypeOK, In
  <2>2. /\ \/ request[r].target = "execute" /\ Goto(r, "checking")
           \/ request[r].target # "execute" /\ Goto(r, "lookup")
        /\ request' = request /\ children' = children
    BY <1>3 DEF PickUp
  <2>3. r \notin children
    BY <1>0, <2>1 DEF In
  <2> HIDE DEF r
  <2> QED BY <1>2, <2>1, <2>2, <2>3
<1>4. ASSUME NEW r \in Requests, Lookup(r) PROVE Goal
  BY <1>0, <1>2, <1>4 DEF Lookup, Settle, In
<1>5. ASSUME NEW r \in Requests, Check(r) PROVE Goal
  BY <1>0, <1>2, <1>5 DEF Check, Passes, Settle, In
<1>6. ASSUME NEW r \in Requests, Wait(r) PROVE Goal
  BY <1>0, <1>2, <1>6 DEF Wait, Acquire, GiveUp, Settle, In
<1>7. ASSUME NEW r \in Requests, Start(r) PROVE Goal
  BY <1>0, <1>2, <1>7 DEF Start, Spawn, SpawnFails, Leave, In
<1>8. ASSUME NEW r \in Requests, Expire(r) PROVE Goal
  BY <1>0, <1>2, <1>8 DEF Expire, In
<1>9. ASSUME NEW r \in Requests, Reap(r) PROVE Goal
  BY <1>0, <1>2, <1>9 DEF Reap, Leave, In
<1>10. ASSUME NEW r \in Requests, Release(r) \/ Reply(r) PROVE Goal
  BY <1>0, <1>2, <1>10 DEF Release, Reply, In
<1>11. ASSUME NEW r \in Requests, NEW status \in Statuses, ChildExits(r, status)
       PROVE  Goal
  BY <1>0, <1>2, <1>11 DEF ChildExits, Leave, In
<1>12. ASSUME UNCHANGED vars PROVE Goal
  BY <1>0, <1>12 DEF vars, In
<1> QED BY <1>1, <1>3, <1>4, <1>5, <1>6, <1>7, <1>8, <1>9, <1>10, <1>11, <1>12
        DEF Next, Thread, Done

LEMMA OutcomeStep ==
  ASSUME TypeOK, OutcomeComesLast, [Next]_vars
  PROVE  OutcomeComesLast'
<1> USE DEF Phases, OutcomeComesLast
<1>1. ASSUME NEW r \in Requests, NEW p \in Phases, Goto(r, p),
             \/ outcome' = outcome /\ phase[r] \notin {"ended", "replying", "answered"}
             \/ p \in {"ended", "replying", "answered"} /\
                \E o : outcome' = [outcome EXCEPT ![r] = o]
             \/ p \in {"ended", "replying", "answered"} /\ outcome' = outcome
      PROVE  OutcomeComesLast'
  <2>1. phase'[r] = p /\ \A x \in Requests \ {r} : phase'[x] = phase[x]
    BY <1>1, GotoEffect
  <2>2. \A x \in Requests \ {r} : outcome'[x] = outcome[x]
    BY <1>1 DEF TypeOK
  <2> QED BY <1>1, <2>1, <2>2
<1>2. ASSUME NEW r \in Requests, NEW target \in Targets, NEW program \in Programs,
             Submit(r, target, program)
      PROVE  OutcomeComesLast'
  BY <1>1, <1>2 DEF Submit
<1>3. ASSUME PickUp PROVE OutcomeComesLast'
  <2> DEFINE r == Head(queue)
  <2>1. r \in Requests /\ phase[r] = "queued"
    BY <1>3 DEF PickUp, TypeOK, In
  <2>2. (Goto(r, "checking") \/ Goto(r, "lookup")) /\ outcome' = outcome
    BY <1>3 DEF PickUp
  <2> HIDE DEF r
  <2> QED BY <1>1, <2>1, <2>2
<1>4. ASSUME NEW r \in Requests, Lookup(r) \/ Check(r) \/ Wait(r)
      PROVE  OutcomeComesLast'
  BY <1>1, <1>4 DEF Lookup, Check, Wait, Acquire, GiveUp, Settle
<1>5. ASSUME NEW r \in Requests, Start(r) \/ Expire(r) \/ Reap(r)
      PROVE  OutcomeComesLast'
  BY <1>1, <1>5 DEF Start, Spawn, SpawnFails, Expire, Reap, Leave
<1>6. ASSUME NEW r \in Requests, NEW status \in Statuses, ChildExits(r, status)
      PROVE  OutcomeComesLast'
  BY <1>1, <1>6 DEF ChildExits, Leave
<1>7. ASSUME NEW r \in Requests, Release(r) \/ Reply(r) PROVE OutcomeComesLast'
  BY <1>1, <1>7 DEF Release, Reply
<1>8. ASSUME UNCHANGED vars PROVE OutcomeComesLast'
  BY <1>8 DEF vars
<1> QED BY <1>2, <1>3, <1>4, <1>5, <1>6, <1>7, <1>8 DEF Next, Thread, Done

\* What a clean submission for a kata that exists may end in.
LEMMA CleanDue ==
  ASSUME NEW q, q.target # "noKata", q.program = "clean"
  PROVE  Statuses \cup {"busy", "spawnFailed", "timeout"} \subseteq Due(q)
BY DEF Due, DueToProgram

\* A request keeps what it asked for, and gets a result that it deserves.
LEMMA DueStep ==
  ASSUME IInv, [Next]_vars
  PROVE  Submitted' /\ SettledIsDue'
<1> USE DEF Phases, Submitted, SettledIsDue
<1> DEFINE Goal == Submitted' /\ SettledIsDue'
<1>0. TypeOK /\ CheckedIsClean /\ Submitted /\ SettledIsDue
  BY DEF IInv
<1>1. ASSUME NEW r \in Requests, NEW target \in Targets, NEW program \in Programs,
             Submit(r, target, program)
      PROVE  Goal
  <2>1. /\ phase'[r] = "queued"
        /\ request'[r] = [target |-> target, program |-> program]
        /\ \A x \in Requests \ {r} : phase'[x] = phase[x] /\ request'[x] = request[x]
    BY <1>0, <1>1, GotoEffect DEF Submit, TypeOK
  <2>2. \A x \in Requests \ {r} : outcome'[x] = outcome[x]
    BY <1>1 DEF Submit
  <2>3. request'[r] \in [target : Targets, program : Programs]
    BY <1>1, <2>1
  <2>4. Submitted'
    BY <1>0, <2>1, <2>3
  <2>5. ASSUME NEW x \in Requests, phase'[x] \in {"ended", "replying", "answered"}
        PROVE  outcome'[x] \in Due(request'[x])
    <3>1. x # r
      BY <2>1, <2>5
    <3>2. phase'[x] = phase[x] /\ request'[x] = request[x] /\ outcome'[x] = outcome[x]
      BY <2>1, <2>2, <3>1
    <3> QED BY <1>0, <2>5, <3>2
  <2> QED BY <2>4, <2>5
<1>2. ASSUME NEW r \in Requests, NEW p \in Phases, Goto(r, p), request' = request,
             phase[r] # "new",
             \/ outcome' = outcome /\ p \notin {"ended", "replying", "answered"}
             \/ outcome' = outcome /\ phase[r] \in {"ended", "replying", "answered"}
             \/ \E o \in Due(request[r]) : outcome' = [outcome EXCEPT ![r] = o]
      PROVE  Goal
  <2>1. phase'[r] = p /\ \A x \in Requests \ {r} : phase'[x] = phase[x]
    BY <1>0, <1>2, GotoEffect
  <2>2. \A x \in Requests \ {r} : outcome'[x] = outcome[x]
    BY <1>0, <1>2 DEF TypeOK
  <2>3. p \in {"ended", "replying", "answered"} => outcome'[r] \in Due(request[r])
    BY <1>0, <1>2 DEF TypeOK
  <2> QED BY <1>0, <1>2, <2>1, <2>2, <2>3
<1>3. ASSUME PickUp PROVE Goal
  <2> DEFINE r == Head(queue)
  <2>1. r \in Requests /\ phase[r] = "queued"
    BY <1>0, <1>3 DEF PickUp, TypeOK, In
  <2>2. (Goto(r, "checking") \/ Goto(r, "lookup")) /\ outcome' = outcome /\ request' = request
    BY <1>3 DEF PickUp
  <2> HIDE DEF r
  <2> QED BY <1>2, <2>1, <2>2
<1>4. ASSUME NEW r \in Requests, Lookup(r) PROVE Goal
  <2>1. /\ request[r].target # "execute"
        /\ request[r].target = "noKata" => "notFound" \in Due(request[r])
        /\ "raised" \in Due(request[r])
    BY <1>0, <1>4 DEF CheckedIsClean, Lookup, In, Due
  <2> QED BY <1>2, <1>4, <2>1 DEF Lookup, Settle
<1>5. ASSUME NEW r \in Requests, Check(r) PROVE Goal
  <2>1. /\ request[r].program \in Programs /\ request[r].target # "noKata"
        /\ phase[r] = "checking"
    BY <1>0, <1>5 DEF Check, CheckedIsClean, LookedUp, In
  <2>2. ~Passes(request[r].program) =>
           (IF request[r].program = "deep" THEN "raised" ELSE "rejected") \in Due(request[r])
    BY <2>1 DEF Due, DueToProgram, Passes, Programs
  <2> QED BY <1>2, <1>5, <2>1, <2>2 DEF Check, Settle
<1>6. ASSUME NEW r \in Requests, Wait(r) PROVE Goal
  <2>1. Statuses \cup {"busy", "spawnFailed", "timeout"} \subseteq Due(request[r])
    BY <1>0, <1>6, CleanDue
       DEF Wait, Acquire, GiveUp, CheckedIsClean, LookedUp, Checked, In
  <2> QED BY <1>2, <1>6, <2>1 DEF Wait, Acquire, GiveUp, Settle
<1>7. ASSUME NEW r \in Requests, Start(r) PROVE Goal
  <2>1. Statuses \cup {"busy", "spawnFailed", "timeout"} \subseteq Due(request[r])
    BY <1>0, <1>7, CleanDue
       DEF Start, Spawn, SpawnFails, CheckedIsClean, LookedUp, Checked, In
  <2> QED BY <1>2, <1>7, <2>1 DEF Start, Spawn, SpawnFails, Leave
<1>8. ASSUME NEW r \in Requests, Expire(r) PROVE Goal
  BY <1>2, <1>8 DEF Expire
<1>9. ASSUME NEW r \in Requests, Reap(r) PROVE Goal
  <2>1. Statuses \cup {"busy", "spawnFailed", "timeout"} \subseteq Due(request[r])
    BY <1>0, <1>9, CleanDue DEF Reap, CheckedIsClean, LookedUp, Checked, In
  <2> QED BY <1>2, <1>9, <2>1 DEF Reap, Leave
<1>10. ASSUME NEW r \in Requests, NEW status \in Statuses, ChildExits(r, status)
       PROVE  Goal
  <2>1. Statuses \cup {"busy", "spawnFailed", "timeout"} \subseteq Due(request[r])
    BY <1>0, <1>10, CleanDue DEF ChildExits, CheckedIsClean, LookedUp, Checked, In
  <2> QED BY <1>2, <1>10, <2>1 DEF ChildExits, Leave
<1>11. ASSUME NEW r \in Requests, Release(r) \/ Reply(r) PROVE Goal
  BY <1>2, <1>11 DEF Release, Reply
<1>12. ASSUME UNCHANGED vars PROVE Goal
  BY <1>0, <1>12 DEF vars
<1> QED BY <1>1, <1>3, <1>4, <1>5, <1>6, <1>7, <1>8, <1>9, <1>10, <1>11, <1>12
        DEF Next, Thread, Done

LEMMA InitEstablishes == Init => IInv
<1> SUFFICES ASSUME Init PROVE IInv
  OBVIOUS
<1> USE DEF Init
<1>1. TypeOK
  <2>1. queue \in Seq(In({"queued"}))
    OBVIOUS
  <2> QED BY <2>1, ServiceAssumption DEF TypeOK, Phases, Outcomes
<1>2. Holders = {}
  BY DEF Holders, In
<1>3. PermitsAccountedFor
  BY <1>2, FS_EmptySet, ServiceAssumption DEF PermitsAccountedFor
<1> QED BY <1>1, <1>3 DEF IInv, ChildrenHoldPermits, CheckedIsClean, Checked, LookedUp,
                        OutcomeComesLast, Submitted, SettledIsDue, In

LEMMA NextPreserves == IInv /\ [Next]_vars => IInv'
<1> SUFFICES ASSUME IInv, [Next]_vars PROVE IInv'
  OBVIOUS
<1>1. TypeOK' /\ PermitsAccountedFor'
  BY TypeStep, PermitStep DEF IInv
<1>2. (children \subseteq In({"running", "killing"}))' /\ CheckedIsClean'
  BY ChildStep
<1>3. ChildrenHoldPermits'
  BY <1>2 DEF ChildrenHoldPermits, Holders, In
<1>4. OutcomeComesLast'
  BY OutcomeStep DEF IInv
<1>5. Submitted' /\ SettledIsDue'
  BY DueStep
<1> QED BY <1>1, <1>2, <1>3, <1>4, <1>5 DEF IInv
-----------------------------------------------------------------------------
\* Every reachable state satisfies the inductive invariant.
THEOREM Invariance == Spec => []IInv
BY InitEstablishes, NextPreserves, PTL DEF Spec

\* Type correctness; in particular permits stay between 0 and MaxConcurrent
\* and no request is queued twice.
THEOREM TypeCorrect == Spec => []TypeOK
<1>1. IInv => TypeOK
  BY DEF IInv
<1> QED BY <1>1, Invariance, PTL

\* No way out of _run_sandboxed loses or invents a permit.
THEOREM PermitsNeverLeak == Spec => []PermitsAccountedFor
<1>1. IInv => PermitsAccountedFor
  BY DEF IInv
<1> QED BY <1>1, Invariance, PTL

\* A child never outlives the permit it was started with.
THEOREM ChildrenAlwaysHoldPermits == Spec => []ChildrenHoldPermits
<1>1. IInv => ChildrenHoldPermits
  BY DEF IInv
<1> QED BY <1>1, Invariance, PTL

\* So there are never more children than permits: the "max 3" of execute_code.
THEOREM ChildrenAreBounded == Spec => [](Cardinality(children) =< MaxConcurrent)
<1>1. IInv => Cardinality(children) =< MaxConcurrent
  <2> SUFFICES ASSUME IInv PROVE Cardinality(children) =< MaxConcurrent
    OBVIOUS
  <2>1. children \in SUBSET Holders
    BY DEF IInv, ChildrenHoldPermits
  <2>2. Cardinality(children) =< Cardinality(Holders) /\ Cardinality(children) \in Nat
    BY <2>1, HoldersFinite, FS_Subset, FS_CardinalityType
  <2> QED BY <2>2, HoldersFinite, ServiceAssumption
          DEF IInv, PermitsAccountedFor, TypeOK
<1> QED BY <1>1, Invariance, PTL

\* Only code that passed every static check, for a kata that exists, runs.
THEOREM OnlyCheckedCode == Spec => []OnlyCheckedCodeRuns
<1>1. IInv => OnlyCheckedCodeRuns
  BY DEF IInv, CheckedIsClean, Checked, LookedUp, OnlyCheckedCodeRuns, In
<1> QED BY <1>1, Invariance, PTL

\* The answer fits the submission, whatever other submissions do meanwhile.
THEOREM AnswersFit == Spec => []AnswersAreDue
<1>1. IInv => AnswersAreDue
  BY DEF IInv, SettledIsDue, AnswersAreDue
<1> QED BY <1>1, Invariance, PTL

\* A request that becomes "busy" in a step was turned away by GiveUp.
LEMMA OnlyGiveUpTurnsAway ==
  ASSUME IInv, [Next]_vars, NEW r \in Requests, TurnsAway(r)
  PROVE  GiveUp(r)
<1>0. outcome \in [Requests -> Outcomes]
  BY DEF IInv, TypeOK
<1> USE <1>0 DEF TurnsAway
<1>1. ASSUME NEW x \in Requests, NEW o \in Outcomes, o # "busy",
             outcome' = [outcome EXCEPT ![x] = o]
      PROVE  FALSE
  BY <1>1
<1>2. ~(outcome' = outcome)
  OBVIOUS
<1>3. ~(\E x \in Requests, target \in Targets, program \in Programs :
          Submit(x, target, program)) /\ ~PickUp /\ ~Done /\ ~(UNCHANGED vars)
  BY <1>2 DEF Submit, PickUp, Done, vars
<1>4. ASSUME NEW x \in Requests, NEW status \in Statuses, ChildExits(x, status)
      PROVE  FALSE
  <2>1. status \in Outcomes /\ status # "busy"
    BY DEF Statuses, Outcomes
  <2>2. outcome' = [outcome EXCEPT ![x] = status]
    BY <1>4 DEF ChildExits, Leave
  <2> QED BY <1>1, <2>1, <2>2
<1>5. ASSUME NEW x \in Requests, Thread(x), ~GiveUp(x)
      PROVE  FALSE
  <2>1. ~(Acquire(x) \/ Spawn(x) \/ Expire(x) \/ Release(x) \/ Reply(x))
    BY <1>2 DEF Acquire, Spawn, Expire, Release, Reply
  <2>2. ~(Lookup(x) \/ Check(x) \/ SpawnFails(x) \/ Reap(x))
    BY <1>1, <1>2 DEF Lookup, Check, SpawnFails, Reap, Settle, Leave, Outcomes
  <2> QED BY <1>5, <2>1, <2>2 DEF Thread, Wait, Start
<1>6. PICK x \in Requests : GiveUp(x)
  BY <1>3, <1>4, <1>5 DEF Next
<1>7. x = r
  BY <1>6 DEF GiveUp, Settle
<1> QED BY <1>6, <1>7

\* Nobody is told "Server busy" while a permit is free.
THEOREM BusyIsHonest == Spec => BusyOnlyWhenFull
<1> DEFINE Honest == \A r \in Requests :
                        TurnsAway(r) => Cardinality(Holders) = MaxConcurrent
<1>1. IInv /\ [Next]_vars => [Honest]_vars
  <2> SUFFICES ASSUME IInv, [Next]_vars, NEW r \in Requests, TurnsAway(r)
               PROVE  Cardinality(Holders) = MaxConcurrent
    OBVIOUS
  <2>1. NoPermit
    BY OnlyGiveUpTurnsAway DEF GiveUp
  <2> QED BY <2>1, PermitLeft DEF IInv
<1> QED BY <1>1, Invariance, PTL DEF Spec, BusyOnlyWhenFull
-----------------------------------------------------------------------------
\* FiniteSets is instantiated along with BoundedExecutor.
LEMMA SameCardinality == \A S : BE!Cardinality(S) = Cardinality(S)
BY DEF BE!Cardinality, Cardinality

Waiting == In({"queued", "lookup", "checking", "acquiring"})
Settled == In({"replying", "answered"})
Refused == {r \in Requests : outcome[r] = "busy"}

\* Where a request that moves is, in the abstract executor's terms.
LEMMA MappedStep ==
  ASSUME TypeOK, NEW r \in Requests, NEW p \in Phases, Goto(r, p)
  PROVE  /\ Waiting' = IF p \in {"queued", "lookup", "checking", "acquiring"}
                       THEN Waiting \cup {r} ELSE Waiting \ {r}
         /\ Holders' = IF p \in {"spawning", "running", "killing", "ended"}
                       THEN Holders \cup {r} ELSE Holders \ {r}
         /\ Settled' = IF p \in {"replying", "answered"}
                       THEN Settled \cup {r} ELSE Settled \ {r}
BY GotoEffect DEF Waiting, Holders, Settled, In

\* Thread pool, semaphore and children implement the bounded executor: every
\* step is a step of it or leaves it unchanged.
THEOREM Refinement == Spec => BE!SafeSpec
<1> USE DEF Phases
<1>1. Init => BE!Init
  BY DEF Init, BE!Init, Holders, In
<1>2. ASSUME IInv, [Next]_vars
      PROVE  [BE!Next]_(BE!vars)
  <2>0. TypeOK /\ PermitsAccountedFor /\ OutcomeComesLast
    BY <1>2 DEF IInv
  <2> DEFINE Same == /\ Waiting' = Waiting /\ Holders' = Holders
                     /\ Settled' = Settled /\ Refused' = Refused
  <2>1. ASSUME Same PROVE UNCHANGED BE!vars
    BY <2>1 DEF BE!vars, Waiting, Settled, Refused
  <2>2. ASSUME NEW r \in Requests, NEW o, o # "busy",
               outcome' = [outcome EXCEPT ![r] = o],
               phase[r] \notin {"ended", "replying", "answered"}
        PROVE  Refused' = Refused
    BY <2>0, <2>2 DEF TypeOK, OutcomeComesLast, Refused
  <2>3. ASSUME outcome' = outcome PROVE Refused' = Refused
    BY <2>3 DEF Refused
  <2>4. ASSUME NEW r \in Requests, NEW target \in Targets, NEW program \in Programs,
               Submit(r, target, program)
        PROVE  BE!Submit(r)
    <3>1. Refused' = Refused /\ Goto(r, "queued") /\ phase[r] = "new"
      BY <2>3, <2>4 DEF Submit
    <3>2. r \notin Waiting \cup Holders \cup Settled
      BY <3>1 DEF Waiting, Holders, Settled, In
    <3> QED BY <2>0, <3>1, <3>2, MappedStep DEF BE!Submit, Waiting, Settled, Refused
  <2>5. ASSUME NEW r \in Requests, Settle(r, "notFound") \/ Settle(r, "rejected")
                                     \/ Settle(r, "raised"),
               phase[r] \in {"lookup", "checking"}
        PROVE  BE!Reject(r)
    <3>1. Refused' = Refused /\ Goto(r, "replying")
      BY <2>2, <2>5 DEF Settle
    <3>2. r \in Waiting /\ r \notin Holders
      BY <2>5 DEF Waiting, Holders, In
    <3> QED BY <2>0, <3>1, <3>2, MappedStep DEF BE!Reject, Waiting, Settled, Refused
  <2>6. ASSUME NEW r \in Requests, Acquire(r)
        PROVE  BE!Start(r)
    <3>1. Refused' = Refused /\ Goto(r, "spawning")
      BY <2>3, <2>6 DEF Acquire
    <3>2. r \in Waiting /\ r \notin Settled
      BY <2>6 DEF Acquire, Waiting, Settled, In
    <3>3. BE!Cardinality(Holders) < MaxConcurrent
      BY <2>0, <2>6, PermitLeft, SameCardinality DEF Acquire
    <3> QED BY <2>0, <3>1, <3>2, <3>3, MappedStep DEF BE!Start, Waiting, Settled, Refused
  <2>7. ASSUME NEW r \in Requests, GiveUp(r)
        PROVE  BE!TurnAway(r)
    <3>1. Refused' = Refused \cup {r} /\ Goto(r, "replying")
      BY <2>0, <2>7 DEF GiveUp, Settle, Refused, TypeOK
    <3>2. r \in Waiting /\ r \notin Holders
      BY <2>7 DEF GiveUp, Waiting, Holders, In
    <3>3. BE!Cardinality(Holders) = MaxConcurrent
      BY <2>0, <2>7, PermitLeft, SameCardinality DEF GiveUp
    <3> QED BY <2>0, <3>1, <3>2, <3>3, MappedStep
            DEF BE!TurnAway, Waiting, Settled, Refused
  <2>8. ASSUME NEW r \in Requests, Release(r)
        PROVE  BE!Finish(r)
    <3>1. Refused' = Refused /\ Goto(r, "replying")
      BY <2>3, <2>8 DEF Release
    <3>2. r \in Holders /\ r \notin Waiting
      BY <2>8 DEF Release, Waiting, Holders, In
    <3> QED BY <2>0, <3>1, <3>2, MappedStep DEF BE!Finish, Waiting, Settled, Refused
  <2>9. ASSUME PickUp PROVE Same
    <3> DEFINE r == Head(queue)
    <3>1. r \in Requests /\ phase[r] = "queued"
      BY <2>0, <2>9 DEF PickUp, TypeOK, In
    <3>2. (Goto(r, "checking") \/ Goto(r, "lookup")) /\ outcome' = outcome
      BY <2>9 DEF PickUp
    <3> HIDE DEF r
    <3>3. r \in Waiting /\ r \notin Holders \cup Settled
      BY <3>1 DEF Waiting, Holders, Settled, In
    <3> QED BY <2>0, <2>3, <3>1, <3>2, <3>3, MappedStep
  <2>10. ASSUME NEW r \in Requests, Lookup(r) \/ Check(r)
         PROVE  Same \/ BE!Reject(r)
    <3>1. CASE Goto(r, "checking") \/ Goto(r, "acquiring")
      <4>1. r \in Waiting /\ r \notin Holders \cup Settled
        BY <2>10 DEF Lookup, Check, Waiting, Holders, Settled, In
      <4>2. outcome' = outcome
        BY <2>0, <2>10, <3>1, GotoEffect DEF Lookup, Check, Settle
      <4> QED BY <2>0, <2>3, <3>1, <4>1, <4>2, MappedStep
    <3> QED BY <2>5, <2>10, <3>1 DEF Lookup, Check
  <2>11. ASSUME NEW r \in Requests, NEW p \in {"running", "killing", "ended"},
                Goto(r, p), phase[r] \in {"spawning", "running", "killing"},
                \/ outcome' = outcome
                \/ \E o : o # "busy" /\ outcome' = [outcome EXCEPT ![r] = o]
         PROVE  Same
    <3>1. r \in Holders /\ r \notin Waiting \cup Settled
      BY <2>11 DEF Waiting, Holders, Settled, In
    <3>2. Refused' = Refused
      BY <2>2, <2>3, <2>11
    <3> QED BY <2>0, <2>11, <3>1, <3>2, MappedStep
  <2>12. ASSUME NEW r \in Requests, Start(r) \/ Expire(r) \/ Reap(r) PROVE Same
    BY <2>11, <2>12 DEF Start, Spawn, SpawnFails, Expire, Reap, Leave
  <2>13. ASSUME NEW r \in Requests, NEW status \in Statuses, ChildExits(r, status)
         PROVE  Same
    <3>1. status # "busy"
      BY DEF Statuses
    <3> QED BY <2>11, <2>13, <3>1 DEF ChildExits, Leave
  <2>14. ASSUME NEW r \in Requests, Reply(r) PROVE Same
    <3>1. r \in Settled /\ r \notin Waiting \cup Holders
      BY <2>14 DEF Reply, Waiting, Holders, Settled, In
    <3> QED BY <2>0, <2>3, <2>14, <3>1, MappedStep DEF Reply
  <2>15. ASSUME UNCHANGED vars PROVE Same
    BY <2>15 DEF vars, Waiting, Holders, Settled, Refused, In
  <2> HIDE DEF Same
  <2> QED BY <1>2, <2>1, <2>4, <2>6, <2>7, <2>8, <2>9, <2>10, <2>12, <2>13, <2>14, <2>15
          DEF Next, Thread, Wait, Done, BE!Next, BE!Leave
<1> QED BY <1>1, <1>2, Invariance, PTL DEF Spec, BE!SafeSpec
-----------------------------------------------------------------------------
(***************************************************************************)
(* The safety half of EverySubmissionAnswered: a variant.  How far a       *)
(* request has come never shrinks, and every step takes one request on, so *)
(* a run of the service has at most ten steps for each request.            *)
(***************************************************************************)
Rank(p) == CASE p = "new" -> 0      [] p = "queued" -> 1    [] p = "lookup" -> 2
             [] p = "checking" -> 3 [] p = "acquiring" -> 4 [] p = "spawning" -> 5
             [] p = "running" -> 6  [] p = "killing" -> 7   [] p = "ended" -> 8
             [] p = "replying" -> 9 [] OTHER -> 10

\* Nothing is done twice: no submission is queued, checked or run again, and a
\* step takes exactly one of them on.
OneAdvances ==
    \E r \in Requests : /\ Rank(phase[r]) < Rank(phase'[r])
                        /\ \A x \in Requests \ {r} : phase'[x] = phase[x]

LEMMA Advances ==
  ASSUME IInv, [Next]_vars
  PROVE  UNCHANGED vars \/ OneAdvances
<1> USE DEF Phases, Rank
<1>0. TypeOK
  BY DEF IInv
<1>1. ASSUME NEW r \in Requests, NEW p \in Phases, Goto(r, p), Rank(phase[r]) < Rank(p)
      PROVE  OneAdvances
  BY <1>0, <1>1, GotoEffect DEF OneAdvances
<1>2. ASSUME NEW r \in Requests, NEW target \in Targets, NEW program \in Programs,
             Submit(r, target, program)
      PROVE  OneAdvances
  BY <1>1, <1>2 DEF Submit
<1>3. ASSUME PickUp PROVE OneAdvances
  <2> DEFINE r == Head(queue)
  <2>1. r \in Requests /\ phase[r] = "queued"
    BY <1>0, <1>3 DEF PickUp, TypeOK, In
  <2>2. Goto(r, "checking") \/ Goto(r, "lookup")
    BY <1>3 DEF PickUp
  <2> HIDE DEF r
  <2> QED BY <1>1, <2>1, <2>2
<1>4. ASSUME NEW r \in Requests, Lookup(r) \/ Check(r) \/ Wait(r) PROVE OneAdvances
  BY <1>1, <1>4 DEF Lookup, Check, Wait, Acquire, GiveUp, Settle
<1>5. ASSUME NEW r \in Requests, Start(r) \/ Expire(r) \/ Reap(r) PROVE OneAdvances
  BY <1>1, <1>5 DEF Start, Spawn, SpawnFails, Expire, Reap, Leave
<1>6. ASSUME NEW r \in Requests, NEW status \in Statuses, ChildExits(r, status)
      PROVE  OneAdvances
  BY <1>1, <1>6 DEF ChildExits, Leave
<1>7. ASSUME NEW r \in Requests, Release(r) \/ Reply(r) PROVE OneAdvances
  BY <1>1, <1>7 DEF Release, Reply
<1> QED BY <1>2, <1>3, <1>4, <1>5, <1>6, <1>7 DEF Next, Thread, Done

\* Every step of the service takes one request on and leaves the others where
\* they are: none is served twice, and no run of the service goes on for ever.
THEOREM WorkIsDoneOnce == Spec => [][OneAdvances]_vars
<1>1. IInv /\ [Next]_vars => [OneAdvances]_vars
  BY Advances
<1> QED BY <1>1, Invariance, PTL DEF Spec
=============================================================================
