------------------------------ MODULE ApiClient ------------------------------
(***************************************************************************)
(* lib/api.ts: every call first makes sure that the backend was looked for *)
(* once, then answers from lib/mock-data.ts or from the backend.  The      *)
(* queries of hooks/useKatas.ts are retried once by the query client of    *)
(* App.tsx.                                                                *)
(*                                                                         *)
(* A step is what one call does up to its next await on the network or on  *)
(* the retry timer.  The environment is the backend, which comes and goes, *)
(* and the host that serves the page: it passes the paths in "routed" on   *)
(* to the backend and answers any other one with the page itself.          *)
(***************************************************************************)
EXTENDS Naturals, FiniteSets

CONSTANTS Calls,     \* bound: the calls of one page load
          Catalogue, \* kata ids, the same ten in the backend and in the mock
          Unknown,   \* an id that only a mistyped URL has
          Routings,  \* what a host may route: subsets of {"/api", "/health"}
          None

Stamped == [kind : {"list", "detail", "validate", "execute"},
            kata : Catalogue \cup {Unknown, None}, early : BOOLEAN]
Outcomes == [from : {"mock", "backend"},
             what : {"data", "passed", "notPassed", "null", "error"}]
Findings == [answer : {"json", "html", "refused", "late"}, reachable : BOOLEAN]

ASSUME ClientAssumption ==
    None \notin Catalogue \cup {Unknown} \cup Stamped \cup Outcomes \cup Findings

VARIABLES useMock,
          backendChecked,
          pc,      \* where each call is
          request, \* what it asks; "early" if made while detection was under way
          tries,   \* how often it was sent, or answered from the mock
          reply,   \* what its promise settled with
          health,  \* answer to /health, and whether the API was reachable then
          routed,
          up       \* whether the backend runs

client == <<useMock, backendChecked, health>>
calls == <<pc, request, tries, reply>>
vars == <<client, calls, routed, up>>

Queries == {"list", "detail"}
Asks == [kind : {"detail", "validate"}, kata : Catalogue \cup {Unknown}]
          \cup [kind : {"list", "execute"}, kata : {None}]

Reachable == "/api" \in routed /\ up

Init == /\ useMock = FALSE
        /\ backendChecked = FALSE
        /\ pc = [c \in Calls |-> "idle"]
        /\ request = [c \in Calls |-> None]
        /\ tries = [c \in Calls |-> 0]
        /\ reply = [c \in Calls |-> None]
        /\ health = None
        /\ routed \in Routings
        /\ up \in BOOLEAN

Detecting == {c \in Calls : pc[c] = "detecting"}
-----------------------------------------------------------------------------
Settle(c, source, what) == /\ pc' = [pc EXCEPT ![c] = "settled"]
                           /\ reply' = [reply EXCEPT ![c] = [from |-> source, what |-> what]]

\* The mock knows every kata of the catalogue and passes no submission.
MockReply(q) == IF q.kind = "detail" /\ q.kata = Unknown THEN "null"
                ELSE IF q.kind = "validate" THEN "notPassed" ELSE "data"

\* What each of the four functions does once detection is behind it.
Serve(c, q, mock) ==
    /\ tries' = [tries EXCEPT ![c] = @ + 1]
    /\ IF mock THEN Settle(c, "mock", MockReply(q))
               ELSE pc' = [pc EXCEPT ![c] = "fetching"] /\ UNCHANGED reply

\* (mutant) The flag is set when detection has ended, not before.
EnsureBackendDetected_FlagLate(c, q) ==
    /\ UNCHANGED backendChecked
    /\ IF health # None
       THEN Serve(c, q, useMock)
       ELSE /\ pc' = [pc EXCEPT ![c] = "detecting"]
            /\ UNCHANGED <<tries, reply>>

EnsureBackendDetected(c, q) ==
    /\ backendChecked' = TRUE
    /\ IF backendChecked
       THEN Serve(c, q, useMock)
       ELSE /\ pc' = [pc EXCEPT ![c] = "detecting"]
            /\ UNCHANGED <<tries, reply>>

Ask(c, q) ==
    /\ pc[c] = "idle"
    /\ request' = [request EXCEPT ![c] =
           [kind |-> q.kind, kata |-> q.kata, early |-> Detecting # {}]]
    /\ EnsureBackendDetected(c, q)
    /\ UNCHANGED <<useMock, health, routed, up>>

\* (mutant) The content type is not looked at.
Available_AnyOk(answer) == answer \in {"json", "html"}

\* detectBackend: status 200 and JSON.
Available(answer) == answer = "json"

\* ensureBackendDetected after its await, and the call that made it.
Detected(c, answer) ==
    /\ pc[c] = "detecting"
    /\ health' = [answer |-> answer, reachable |-> Reachable]
    /\ useMock' = ~Available(answer)
    /\ Serve(c, request[c], useMock')
    /\ UNCHANGED <<backendChecked, request, routed, up>>

HealthAnswer == IF "/health" \notin routed THEN "html"
                ELSE IF up THEN "json" ELSE "refused"

HealthAnswers(c) == Detected(c, HealthAnswer)

\* (mutant) The request to /health has no time limit.
HealthTimesOut_Never(c) == FALSE /\ Detected(c, "late")

\* AbortSignal.timeout(2000)
HealthTimesOut(c) == Detected(c, "late")

\* What a request to /api may end with: JSON, 404, or an error of the server,
\* of the connection or of the parser that is given a page instead of JSON.
Responses(q) == {"failed"} \cup
    (IF ~Reachable THEN {} ELSE IF q.kata = Unknown THEN {"404"} ELSE {"ok"})

\* (mutant) Every error of the API means that there is no such kata.
Absent_AnyError(q, response) == q.kind = "detail" /\ response # "ok"

\* fetchKataDetail turns the 404 of its kata into null.
Absent(q, response) == q.kind = "detail" /\ response = "404"

\* (mutant) Submissions are retried like queries.
MayRetry_Always(c) == tries[c] = 1

\* retry: 1
MayRetry(c) == request[c].kind \in Queries /\ tries[c] = 1

\* A validation that is answered says passed or not.
Verdicts(q) == IF q.kind = "validate" THEN {"passed", "notPassed"} ELSE {"data"}

\* (mutant) A failed request turns the mock on.
Fails_FallsBack(c) ==
    /\ IF MayRetry(c) THEN pc' = [pc EXCEPT ![c] = "waiting"] /\ UNCHANGED reply
                      ELSE Settle(c, "backend", "error")
    /\ useMock' = TRUE
    /\ UNCHANGED <<backendChecked, health>>

Fails(c) ==
    /\ IF MayRetry(c) THEN pc' = [pc EXCEPT ![c] = "waiting"] /\ UNCHANGED reply
                      ELSE Settle(c, "backend", "error")
    /\ UNCHANGED client

\* fetchJson after its await.
Responded(c, response) ==
    /\ pc[c] = "fetching"
    /\ \/ /\ response = "ok"
          /\ \E verdict \in Verdicts(request[c]) : Settle(c, "backend", verdict)
          /\ UNCHANGED client
       \/ /\ Absent(request[c], response)
          /\ Settle(c, "backend", "null")
          /\ UNCHANGED client
       \/ /\ response # "ok"
          /\ ~Absent(request[c], response)
          /\ Fails(c)
    /\ UNCHANGED <<request, tries, routed, up>>

FetchSettles(c) == pc[c] = "fetching" /\ \E r \in Responses(request[c]) : Responded(c, r)

\* The query client calls the query function again: detection is over or under
\* way, and the mode is read afresh.
Retry(c) ==
    /\ pc[c] = "waiting"
    /\ Serve(c, request[c], useMock)
    /\ UNCHANGED <<client, request, routed, up>>

BackendStartsOrStops == up' = ~up /\ UNCHANGED <<client, calls, routed>>

Next == \/ \E c \in Calls : \/ \E q \in Asks : Ask(c, q)
                            \/ HealthAnswers(c) \/ HealthTimesOut(c)
                            \/ FetchSettles(c) \/ Retry(c)
        \/ BackendStartsOrStops

\* The two timers fire, and a request to /api is answered or breaks.
Spec == /\ Init /\ [][Next]_vars
        /\ \A c \in Calls : /\ WF_vars(HealthTimesOut(c))
                            /\ WF_vars(FetchSettles(c))
                            /\ WF_vars(Retry(c))
-----------------------------------------------------------------------------
\* The state's shape; a call has a reply exactly when it has settled.
TypeOK ==
    /\ useMock \in BOOLEAN
    /\ backendChecked \in BOOLEAN
    /\ pc \in [Calls -> {"idle", "detecting", "fetching", "waiting", "settled"}]
    /\ request \in [Calls -> Stamped \cup {None}]
    /\ tries \in [Calls -> 0 .. 2]
    /\ reply \in [Calls -> Outcomes \cup {None}]
    /\ health \in Findings \cup {None}
    /\ up \in BOOLEAN
    /\ \A c \in Calls : /\ pc[c] = "idle" <=> request[c] = None
                        /\ pc[c] = "settled" <=> reply[c] # None

\* However many components mount at once, the backend is looked for once.
OneDetection == /\ Cardinality(Detecting) <= 1
                /\ Detecting # {} => health = None

\* Who answered a call, seen from the page.
CallState(c) == IF pc[c] = "idle" THEN "idle"
                ELSE IF pc[c] = "settled" THEN reply[c].from ELSE "open"

Early == {c \in Calls : request[c] # None /\ request[c].early}

Mode == IF health = None THEN "unknown" ELSE IF useMock THEN "mock" ELSE "backend"

\* The two modes never mix: the mode is found once, by one call, and never
\* changes; a call is answered once, from the source that was found, whenever
\* it is made, retried and answered.  Only a call made while detection was
\* under way may have gone to the backend in mock mode.
TMC == INSTANCE TwoModeClient
         WITH mode <- Mode, state <- [c \in Calls |-> CallState(c)], early <- Early

ImplementsTwoModeClient == TMC!Spec

\* Only a kata that does not exist is shown as "not found", never one whose
\* detail could not be fetched.
NullMeansUnknown ==
    \A c \in Calls : (reply[c] # None /\ reply[c].what = "null")
                         => request[c].kata = Unknown

\* Runs and submissions are sent at most once; a query fails only after it was
\* tried twice.
RetriesAreForQueries ==
    \A c \in Calls : request[c] # None =>
        /\ request[c].kind \notin Queries => tries[c] <= 1
        /\ (reply[c] # None /\ reply[c].what = "error" /\ request[c].kind \in Queries)
               => tries[c] = 2

\* api.ts:14, "Detect if the backend is reachable; fall back to mock if not.":
\* unless the answer was too late, the mode says whether it was reachable.
ModeIsRight == (health # None /\ health.answer # "late") => (useMock <=> ~health.reachable)

\* Every call settles, whether or not there is a backend and however slow the
\* answer to /health is.
EveryCallSettles == \A c \in Calls : pc[c] # "idle" ~> pc[c] = "settled"
=============================================================================
