--------------------------- MODULE ExecutionService ---------------------------
(***************************************************************************)
(* Running submissions: POST /api/execute and POST /api/katas/{id}/validate*)
(* hand their work to asyncio.to_thread; a worker thread looks the kata up *)
(* (validate only), checks the code statically, takes a permit of the      *)
(* semaphore or gives up, runs one child process, gives the permit back    *)
(* and returns (routers/execute.py, routers/katas.py, services/judge.py,   *)
(* services/executor.py).                                                  *)
(*                                                                         *)
(* Each worker's program is cut where another thread, or the child, can    *)
(* come between: the semaphore, the spawn, the child's end, the kill, the  *)
(* release.  What a run prints is left to the child's exit "status"; when  *)
(* a timeout fires is left open, since time plays no other role here.      *)
(***************************************************************************)
EXTENDS Naturals, Sequences, FiniteSets

CONSTANTS Requests,       \* the requests of one run
          MaxConcurrent,  \* threading.Semaphore(3)
          Workers         \* threads of the event loop's default executor

ASSUME ServiceAssumption ==
    /\ IsFiniteSet(Requests)
    /\ MaxConcurrent \in Nat \ {0}
    /\ Workers \in Nat \ {0}

\* The endpoint, and for validate whether the kata id is known.
Targets == {"execute", "kata", "noKata"}

\* What the static checks make of the submitted code: nothing to object to,
\* an error message, or an exception (nesting too deep for the parser).
Programs == {"clean", "forbidden", "deep"}

Statuses == {"exit0", "exitN", "undecodable"}

Outcomes == Statuses \cup
            {"none", "notFound", "rejected", "raised", "busy", "spawnFailed", "timeout"}

VARIABLES phase,    \* where each request is
          request,  \* what was submitted
          queue,    \* the executor's work queue, oldest first
          permits,  \* _execution_semaphore._value
          children, \* requests whose child process is alive or not yet reaped
          outcome   \* what the worker is going to return

vars == <<phase, request, queue, permits, children, outcome>>

Phases == {"new", "queued", "lookup", "checking", "acquiring", "spawning",
           "running", "killing", "ended", "replying", "answered"}

NoRequest == [target |-> "none", program |-> "none"]

Init == /\ phase = [r \in Requests |-> "new"]
        /\ request = [r \in Requests |-> NoRequest]
        /\ queue = <<>>
        /\ permits = MaxConcurrent
        /\ children = {}
        /\ outcome = [r \in Requests |-> "none"]

In(phases) == {r \in Requests : phase[r] \in phases}

\* The requests a pool thread is working on.
InWorker == In(Phases \ {"new", "queued", "answered"})

\* The requests whose thread is between acquire and release.
Holders == In({"spawning", "running", "killing", "ended"})

Goto(r, p) == phase' = [phase EXCEPT ![r] = p]

\* The thread has its result and only has to return it.
Settle(r, o) == /\ Goto(r, "replying")
                /\ outcome' = [outcome EXCEPT ![r] = o]
-----------------------------------------------------------------------------
\* The endpoint's coroutine calls asyncio.to_thread.
Submit(r, target, program) ==
    /\ phase[r] = "new"
    /\ Goto(r, "queued")
    /\ request' = [request EXCEPT ![r] = [target |-> target, program |-> program]]
    /\ queue' = Append(queue, r)
    /\ UNCHANGED <<permits, children, outcome>>

\* An idle pool thread takes the oldest work item.
PickUp ==
    /\ queue # <<>>
    /\ Cardinality(InWorker) < Workers
    /\ \/ request[Head(queue)].target = "execute" /\ Goto(Head(queue), "checking")
       \/ request[Head(queue)].target # "execute" /\ Goto(Head(queue), "lookup")
    /\ queue' = Tail(queue)
    /\ UNCHANGED <<request, permits, children, outcome>>

\* validate_submission: get_kata_raw.  The catalogue may have to be loaded first,
\* which may fail, or be reset meanwhile (KataRegistry): that is an exception here.
Lookup(r) ==
    /\ phase[r] = "lookup"
    /\ \/ request[r].target = "kata" /\ Goto(r, "checking") /\ UNCHANGED outcome
       \/ request[r].target = "noKata" /\ Settle(r, "notFound")
       \/ Settle(r, "raised")
    /\ UNCHANGED <<request, queue, permits, children>>

\* (mutant) Code the parser gives up on is taken for clean.
Passes_AnyButForbidden(program) == program # "forbidden"

\* _validate_user_code returned None.
Passes(program) == program = "clean"

\* execute_code and execute_judge up to _run_sandboxed.
Check(r) ==
    /\ phase[r] = "checking"
    /\ \/ Passes(request[r].program) /\ Goto(r, "acquiring") /\ UNCHANGED outcome
       \/ /\ ~Passes(request[r].program)
          /\ Settle(r, IF request[r].program = "deep" THEN "raised" ELSE "rejected")
    /\ UNCHANGED <<request, queue, permits, children>>

\* acquire(timeout=10) returns True.  The semaphore is not fair: any thread
\* that finds a permit takes it, however long others have waited.
Acquire(r) ==
    /\ phase[r] = "acquiring"
    /\ permits > 0
    /\ permits' = permits - 1
    /\ Goto(r, "spawning")
    /\ UNCHANGED <<request, queue, children, outcome>>

\* (mutant) A way out of the try block without the finally clause.
Leave_SkipsFinally(r, o) == Settle(r, o)

\* The run inside the try block is over; the finally clause is next.
Leave(r, o) == /\ Goto(r, "ended")
               /\ outcome' = [outcome EXCEPT ![r] = o]

\* Under the semaphore's lock the deadline is looked at only at value 0.
NoPermit == permits = 0

\* (mutant) acquire's result is tested the wrong way round.
GiveUp_Inverted(r) ==
    /\ phase[r] = "acquiring"
    /\ ~NoPermit
    /\ permits' = permits - 1
    /\ Settle(r, "busy")
    /\ UNCHANGED <<request, queue, children>>

\* acquire returns False; "Server busy".
GiveUp(r) ==
    /\ phase[r] = "acquiring"
    /\ NoPermit
    /\ Settle(r, "busy")
    /\ UNCHANGED <<request, queue, permits, children>>

\* subprocess.run has started the child.
Spawn(r) ==
    /\ phase[r] = "spawning"
    /\ Goto(r, "running")
    /\ children' = children \cup {r}
    /\ UNCHANGED <<request, queue, permits, outcome>>

\* OSError: there is no child.
SpawnFails(r) ==
    /\ phase[r] = "spawning"
    /\ Leave(r, "spawnFailed")
    /\ UNCHANGED <<request, queue, permits, children>>

\* The child ends by itself in time and is reaped.
ChildExits(r, status) ==
    /\ phase[r] = "running"
    /\ Leave(r, status)
    /\ children' = children \ {r}
    /\ UNCHANGED <<request, queue, permits>>

\* (mutant) The child is left running when its time is over.
Expire_WithoutKill(r) ==
    /\ phase[r] = "running"
    /\ Leave(r, "timeout")
    /\ UNCHANGED <<request, queue, permits, children>>

\* (mutant) No timeout is given to subprocess.run.
Expire_Never(r) == FALSE

\* EXECUTION_TIMEOUT_SECONDS are over: subprocess.run kills the child ...
Expire(r) ==
    /\ phase[r] = "running"
    /\ Goto(r, "killing")
    /\ UNCHANGED <<request, queue, permits, children, outcome>>

\* ... waits for it, and raises TimeoutExpired, which is caught.
Reap(r) ==
    /\ phase[r] = "killing"
    /\ children' = children \ {r}
    /\ Leave(r, "timeout")
    /\ UNCHANGED <<request, queue, permits>>

\* The finally clause, on whichever way out.
Release(r) ==
    /\ phase[r] = "ended"
    /\ permits' = permits + 1
    /\ Goto(r, "replying")
    /\ UNCHANGED <<request, queue, children, outcome>>

\* The thread returns (or an exception reaches the coroutine: 500).
Reply(r) ==
    /\ phase[r] = "replying"
    /\ Goto(r, "answered")
    /\ UNCHANGED <<request, queue, permits, children, outcome>>

\* Every request of this run has its answer.
Done == /\ \A r \in Requests : phase[r] = "answered"
        /\ UNCHANGED vars

Wait(r) == Acquire(r) \/ GiveUp(r)
Start(r) == Spawn(r) \/ SpawnFails(r)

\* What the worker thread of r does by itself, its timeouts included.
Thread(r) == \/ Lookup(r) \/ Check(r) \/ Wait(r) \/ Start(r)
             \/ Expire(r) \/ Reap(r) \/ Release(r) \/ Reply(r)

Next == \/ \E r \in Requests, target \in Targets, program \in Programs :
              Submit(r, target, program)
        \/ PickUp
        \/ \E r \in Requests : Thread(r)
        \/ \E r \in Requests, status \in Statuses : ChildExits(r, status)
        \/ Done

\* The operating system runs every thread and the clock goes on.  Nothing is
\* assumed of the child, which may loop forever, nor of the clients.
Fairness == WF_vars(PickUp) /\ \A r \in Requests : WF_vars(Thread(r))

Spec == Init /\ [][Next]_vars /\ Fairness
-----------------------------------------------------------------------------
\* The state's shape; the queue holds each queued request once.
TypeOK ==
    /\ phase \in [Requests -> Phases]
    /\ request \in [Requests -> [target : Targets, program : Programs] \cup {NoRequest}]
    /\ queue \in Seq(In({"queued"}))
    /\ \A i, j \in DOMAIN queue : queue[i] = queue[j] => i = j
    /\ permits \in 0 .. MaxConcurrent
    /\ children \subseteq Requests
    /\ outcome \in [Requests -> Outcomes]

\* No permit is lost or invented, whichever way a run ends: exit, timeout,
\* failed start, or an exception nothing catches.
PermitsAccountedFor == permits + Cardinality(Holders) = MaxConcurrent

\* A live child belongs to a request that still holds its permit, so there are
\* never more children than permits; in particular a run that timed out has
\* killed and reaped its child before another run can start in its place.
ChildrenHoldPermits == children \subseteq Holders

\* No child runs a program the static checks object to, or the program of a
\* submission for a kata that does not exist.
OnlyCheckedCodeRuns ==
    \A r \in children : /\ request[r].program = "clean"
                        /\ request[r].target # "noKata"

\* What the static checks and the run may make of a program ...
DueToProgram(program) ==
    IF program = "forbidden" THEN {"rejected"}
    ELSE IF program = "deep" THEN {"raised"}
    ELSE Statuses \cup {"busy", "spawnFailed", "timeout"}

\* ... and what may be answered to a submission: an unknown kata comes before a
\* fault of the program, and only a submission that needs the catalogue, or is
\* nested too deep, may end in an exception.
Due(q) == (IF q.target = "noKata" THEN {"notFound"} ELSE DueToProgram(q.program))
              \cup (IF q.target = "execute" THEN {} ELSE {"raised"})

\* Every answer is one that its own submission deserves, whatever other
\* submissions were queued, run, timed out or turned away in the meantime.
AnswersAreDue ==
    \A r \in Requests : phase[r] = "answered" => outcome[r] \in Due(request[r])

\* "Server busy" is true when it is said: MaxConcurrent others hold permits.
TurnsAway(r) == outcome[r] # "busy" /\ outcome'[r] = "busy"

BusyOnlyWhenFull ==
    [][\A r \in Requests : TurnsAway(r) => Cardinality(Holders) = MaxConcurrent]_vars

\* Every submission is answered: the timeouts of the semaphore and of the run
\* bound the time a thread can be held up by other submissions or by its child.
EverySubmissionAnswered ==
    \A r \in Requests : phase[r] = "queued" ~> phase[r] = "answered"

\* The thread pool, the semaphore and the children together are a bounded
\* executor.
BE == INSTANCE BoundedExecutor
        WITH Capacity <- MaxConcurrent,
             waiting <- In({"queued", "lookup", "checking", "acquiring"}),
             running <- Holders,
             settled <- In({"replying", "answered"}),
             refused <- {r \in Requests : outcome[r] = "busy"}

ImplementsBoundedExecutor == BE!Spec
=============================================================================
