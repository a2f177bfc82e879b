--------------------------- MODULE ApiClientProofs ---------------------------
(***************************************************************************)
(* Invariants of ApiClient for any calls, catalogue and routings, and the  *)
(* refinement of TwoModeClient.  The heart is Detection: as long as the    *)
(* mode is not known exactly one call is looking for the backend, and      *)
(* every other call that was made knows that it is early.                  *)
(***************************************************************************)
EXTENDS ApiClient, FiniteSetTheorems, TLAPS

Sent == {"fetching", "waiting", "settled"}

\* How often a call was sent, by where it is.
Tries(c) ==
    /\ pc[c] \in {"idle", "detecting"} => tries[c] = 0
    /\ pc[c] \in {"fetching", "settled"} => tries[c] \in 1 .. 2
    /\ pc[c] = "waiting" => tries[c] = 1 /\ request[c].kind \in Queries
    /\ (pc[c] \in Sent /\ request[c].kind \notin Queries) => tries[c] = 1
    /\ (pc[c] = "settled" /\ reply[c].what = "error" /\ request[c].kind \in Queries)
           => tries[c] = 2

\* Where a call may be while the mode is already known, or not known yet.
ByMode(c) ==
    /\ pc[c] \in {"fetching", "waiting"} => (useMock => request[c].early)
    /\ pc[c] = "settled" => IF reply[c].from = "mock" THEN useMock
                                                      ELSE useMock => request[c].early
    /\ (pc[c] = "settled" /\ reply[c].what = "null") => request[c].kata = Unknown
    /\ pc[c] = "detecting" => ~request[c].early

\* Nothing happens before the flag is set; while detection is under way there
\* is one call in it, and every other call knows that it is early.
Detection ==
    /\ ~backendChecked => \A c \in Calls : pc[c] = "idle"
    /\ health = None => ~useMock
    /\ ~backendChecked => health = None
    /\ (backendChecked /\ health = None) => \E c \in Calls : pc[c] = "detecting"
    /\ \A c \in Calls : pc[c] = "detecting" =>
          /\ health = None
          /\ \A d \in Calls \ {c} : /\ pc[d] # "detecting"
                                    /\ pc[d] # "idle" => request[d].early

IInv == /\ TypeOK
        /\ Detection
        /\ \A c \in Calls : Tries(c) /\ ByMode(c)
-----------------------------------------------------------------------------
LEMMA InitInv == Init => IInv
<1> SUFFICES ASSUME Init PROVE IInv
  OBVIOUS
<1>1. TypeOK
  <2>1. pc \in [Calls -> {"idle", "detecting", "fetching", "waiting", "settled"}]
    BY DEF Init
  <2>2. request \in [Calls -> Stamped \cup {None}] /\ reply \in [Calls -> Outcomes \cup {None}]
    BY DEF Init
  <2>3. tries \in [Calls -> 0 .. 2] /\ health \in Findings \cup {None}
    BY DEF Init
  <2>4. useMock \in BOOLEAN /\ backendChecked \in BOOLEAN /\ up \in BOOLEAN
    BY DEF Init
  <2>5. \A c \in Calls : /\ pc[c] = "idle" <=> request[c] = None
                         /\ pc[c] = "settled" <=> reply[c] # None
    BY DEF Init
  <2> QED BY <2>1, <2>2, <2>3, <2>4, <2>5 DEF TypeOK
<1>2. Detection
  BY DEF Init, Detection
<1>3. \A c \in Calls : Tries(c) /\ ByMode(c)
  BY DEF Init, Tries, ByMode, Sent
<1> QED BY <1>1, <1>2, <1>3 DEF IInv

Places == {"idle", "detecting", "fetching", "waiting", "settled"}

\* Call c moves to p, asking r, sent t times, with the reply y.
Moves(c, p, r, t, y) ==
    /\ p \in Places /\ r \in Stamped \cup {None} /\ t \in 0 .. 2 /\ y \in Outcomes \cup {None}
    /\ p = "idle" <=> r = None
    /\ y = None <=> p # "settled"
    /\ pc' = [pc EXCEPT ![c] = p]
    /\ request' = [request EXCEPT ![c] = r]
    /\ tries' = [tries EXCEPT ![c] = t]
    /\ reply' = [reply EXCEPT ![c] = y]

LEMMA UnsettledMoves ==
  ASSUME NEW c \in Calls, NEW p \in {"detecting", "fetching", "waiting"},
         NEW r \in Stamped, NEW t \in 0 .. 2,
         pc' = [pc EXCEPT ![c] = p], request' = [request EXCEPT ![c] = r],
         tries' = [tries EXCEPT ![c] = t], reply' = [reply EXCEPT ![c] = None]
  PROVE  Moves(c, p, r, t, None)
<1>1. r # None
  BY ClientAssumption
<1>2. p \in Places /\ p # "idle" /\ p # "settled"
  BY DEF Places
<1> QED BY <1>1, <1>2 DEF Moves

\* A step of one call leaves the others where they are.
LEMMA OthersStay ==
  ASSUME TypeOK, NEW c \in Calls, NEW p, NEW r, NEW t, NEW y, Moves(c, p, r, t, y)
  PROVE  /\ pc'[c] = p /\ request'[c] = r /\ tries'[c] = t /\ reply'[c] = y
         /\ \A d \in Calls \ {c} : /\ pc'[d] = pc[d] /\ request'[d] = request[d]
                                   /\ tries'[d] = tries[d] /\ reply'[d] = reply[d]
BY DEF TypeOK, Moves

LEMMA StepType ==
  ASSUME TypeOK, NEW c \in Calls, NEW p, NEW r, NEW t, NEW y, Moves(c, p, r, t, y),
         useMock' \in BOOLEAN, backendChecked' \in BOOLEAN, up' \in BOOLEAN,
         health' \in Findings \cup {None}
  PROVE  TypeOK'
<1>1. pc' \in [Calls -> Places]
  BY DEF TypeOK, Moves, Places
<1>2. request' \in [Calls -> Stamped \cup {None}]
  BY DEF TypeOK, Moves
<1>3. tries' \in [Calls -> 0 .. 2]
  BY DEF TypeOK, Moves
<1>4. reply' \in [Calls -> Outcomes \cup {None}]
  BY DEF TypeOK, Moves
<1>5. \A d \in Calls : /\ pc'[d] = "idle" <=> request'[d] = None
                       /\ pc'[d] = "settled" <=> reply'[d] # None
  <2>1. \A d \in Calls \ {c} : /\ pc[d] = "idle" <=> request[d] = None
                               /\ pc[d] = "settled" <=> reply[d] # None
    BY DEF TypeOK
  <2>2. p = "idle" <=> r = None
    BY DEF Moves
  <2>3. p = "settled" <=> y # None
    BY DEF Moves
  <2> QED BY <2>1, <2>2, <2>3, OthersStay
<1> QED BY <1>1, <1>2, <1>3, <1>4, <1>5 DEF TypeOK, Places

\* What is left to show of a step that does not change the mode, or that leaves
\* only early calls behind.
LEMMA StepCalls ==
  ASSUME IInv, NEW c \in Calls, NEW p, NEW r, NEW t, NEW y, Moves(c, p, r, t, y),
         \/ useMock' = useMock
         \/ \A d \in Calls \ {c} : pc[d] # "idle" => request[d].early /\ ~useMock,
         Tries(c)', ByMode(c)'
  PROVE  \A d \in Calls : Tries(d)' /\ ByMode(d)'
<1> SUFFICES ASSUME NEW d \in Calls \ {c} PROVE Tries(d)' /\ ByMode(d)'
  OBVIOUS
<1>1. /\ pc'[d] = pc[d] /\ request'[d] = request[d]
      /\ tries'[d] = tries[d] /\ reply'[d] = reply[d]
  BY OthersStay DEF IInv
<1>2. Tries(d) /\ ByMode(d)
  BY DEF IInv
<1>3. Tries(d)'
  BY <1>1, <1>2 DEF Tries
<1>4. CASE useMock' = useMock
  BY <1>1, <1>2, <1>3, <1>4 DEF ByMode
<1>5. CASE \A e \in Calls \ {c} : pc[e] # "idle" => request[e].early /\ ~useMock
  BY <1>1, <1>2, <1>3, <1>5 DEF ByMode
<1> QED BY <1>4, <1>5

LEMMA OutcomeType ==
  ASSUME NEW source \in {"mock", "backend"},
         NEW what \in {"data", "passed", "notPassed", "null", "error"}
  PROVE  /\ [from |-> source, what |-> what] \in Outcomes
         /\ [from |-> source, what |-> what] # None
BY ClientAssumption DEF Outcomes

LEMMA MockReplyType ==
  ASSUME NEW q
  PROVE  /\ MockReply(q) \in {"data", "notPassed", "null"}
         /\ MockReply(q) = "null" => q.kata = Unknown
BY DEF MockReply

\* Serving a call that is not yet settled, in whichever mode.
LEMMA ServeMoves ==
  ASSUME TypeOK, NEW c \in Calls, NEW q, NEW r \in Stamped, NEW mock \in BOOLEAN,
         Serve(c, q, mock), request' = [request EXCEPT ![c] = r],
         tries[c] \in 0 .. 1, pc[c] # "settled"
  PROVE  \/ /\ mock
            /\ Moves(c, "settled", r, tries[c] + 1, [from |-> "mock", what |-> MockReply(q)])
         \/ /\ ~mock
            /\ Moves(c, "fetching", r, tries[c] + 1, None)
<1>1. r # None
  BY ClientAssumption
<1>2. tries' = [tries EXCEPT ![c] = tries[c] + 1] /\ tries[c] + 1 \in 0 .. 2
  BY DEF Serve
<1>3. CASE mock
  <2> DEFINE y == [from |-> "mock", what |-> MockReply(q)]
  <2>1. y \in Outcomes /\ y # None
    BY MockReplyType, OutcomeType
  <2>2. pc' = [pc EXCEPT ![c] = "settled"] /\ reply' = [reply EXCEPT ![c] = y]
    BY <1>3 DEF Serve, Settle
  <2> HIDE DEF y
  <2>3. Moves(c, "settled", r, tries[c] + 1, y)
    BY <1>1, <1>2, <2>1, <2>2 DEF Moves, Places
  <2> QED BY <1>3, <2>3 DEF y
<1>4. CASE ~mock
  <2>1. reply' = [reply EXCEPT ![c] = None]
    BY <1>4 DEF Serve, TypeOK
  <2>2. pc' = [pc EXCEPT ![c] = "fetching"]
    BY <1>4 DEF Serve
  <2> QED BY <1>2, <1>4, <2>1, <2>2, UnsettledMoves
<1> QED BY <1>3, <1>4

\* A call that was served in the mode the client is in keeps its promises.
LEMMA ServedCall ==
  ASSUME TypeOK, NEW c \in Calls, NEW q, NEW r \in Stamped, NEW mock \in BOOLEAN,
         \/ /\ mock
            /\ Moves(c, "settled", r, tries[c] + 1, [from |-> "mock", what |-> MockReply(q)])
         \/ /\ ~mock
            /\ Moves(c, "fetching", r, tries[c] + 1, None),
         useMock' = mock, r.kata = q.kata, tries[c] \in 0 .. 1,
         r.kind \notin Queries => tries[c] = 0
  PROVE  Tries(c)' /\ ByMode(c)'
<1>1. request'[c] = r /\ tries'[c] = tries[c] + 1
  BY OthersStay
<1>2. CASE mock /\ Moves(c, "settled", r, tries[c] + 1, [from |-> "mock", what |-> MockReply(q)])
  <2>1. pc'[c] = "settled" /\ reply'[c] = [from |-> "mock", what |-> MockReply(q)]
    BY <1>2, OthersStay
  <2>2. Tries(c)'
    BY <1>1, <2>1, MockReplyType DEF Tries, Sent
  <2>3. ByMode(c)'
    BY <1>1, <1>2, <2>1, MockReplyType DEF ByMode
  <2> QED BY <2>2, <2>3
<1>3. CASE ~mock /\ Moves(c, "fetching", r, tries[c] + 1, None)
  <2>1. pc'[c] = "fetching"
    BY <1>3, OthersStay
  <2> QED BY <1>1, <1>3, <2>1 DEF Tries, Sent, ByMode
<1> QED BY <1>2, <1>3

\* A call that is made.
LEMMA AskInv ==
  ASSUME IInv, NEW c \in Calls, NEW q \in Asks, Ask(c, q)
  PROVE  IInv'
<1> DEFINE r == [kind |-> q.kind, kata |-> q.kata, early |-> Detecting # {}]
<1>0. TypeOK /\ Detection /\ Tries(c)
  BY DEF IInv
<1>1. /\ pc[c] = "idle" /\ request' = [request EXCEPT ![c] = r]
      /\ backendChecked' = TRUE
      /\ UNCHANGED <<useMock, health, routed, up>>
  BY DEF Ask, EnsureBackendDetected
<1>2. r \in Stamped /\ r.kata = q.kata /\ (r.early <=> Detecting # {})
  BY DEF Asks, Stamped
<1>3. r # None
  BY <1>2, ClientAssumption
<1> HIDE DEF r
<1>4. tries[c] = 0 /\ reply[c] = None
  BY <1>0, <1>1 DEF TypeOK, Tries
<1>5. useMock' \in BOOLEAN /\ backendChecked' \in BOOLEAN /\ up' \in BOOLEAN
      /\ health' \in Findings \cup {None}
  BY <1>0, <1>1 DEF TypeOK
<1>6. CASE backendChecked
  <2>1. Serve(c, q, useMock)
    BY <1>6 DEF Ask, EnsureBackendDetected
  <2>2. useMock \in BOOLEAN
    BY <1>0 DEF TypeOK
  <2>3. \/ /\ useMock
           /\ Moves(c, "settled", r, tries[c] + 1, [from |-> "mock", what |-> MockReply(q)])
        \/ /\ ~useMock
           /\ Moves(c, "fetching", r, tries[c] + 1, None)
    <3>1. pc[c] # "settled" /\ tries[c] \in 0 .. 1
      BY <1>1, <1>4
    <3> QED BY <1>0, <1>1, <1>2, <2>1, <2>2, <3>1, ServeMoves
  <2>4. TypeOK'
    BY <1>0, <1>5, <2>3, StepType
  <2>5. Tries(c)' /\ ByMode(c)'
    BY <1>0, <1>1, <1>2, <1>4, <2>2, <2>3, ServedCall
  <2>6. \A d \in Calls : Tries(d)' /\ ByMode(d)'
    BY <1>1, <2>3, <2>5, StepCalls
  <2>7. Detection'
    <3>1. /\ pc'[c] \in {"settled", "fetching"} /\ request'[c] = r
          /\ \A d \in Calls \ {c} : pc'[d] = pc[d] /\ request'[d] = request[d]
      BY <1>0, <2>3, OthersStay
    <3>2. \A d \in Calls : pc[d] = "detecting" => r.early
      BY <1>2 DEF Detecting
    <3>3. health = None => \E d \in Calls : pc'[d] = "detecting"
      <4>1. \A d \in Calls : pc[d] = "detecting" => pc'[d] = "detecting"
        BY <1>1, <3>1
      <4> QED BY <1>0, <1>6, <4>1 DEF Detection
    <3>4. \A d \in Calls : pc'[d] = "detecting" => pc[d] = "detecting"
      BY <3>1
    <3>5. \A d \in Calls : pc[d] = "detecting" =>
             /\ health = None
             /\ \A e \in Calls \ {d} : /\ pc'[e] # "detecting"
                                       /\ pc'[e] # "idle" => request'[e].early
      <4>1. \A d \in Calls : pc[d] = "detecting" =>
               /\ health = None
               /\ \A e \in Calls \ {d} : /\ pc[e] # "detecting"
                                         /\ pc[e] # "idle" => request[e].early
        BY <1>0 DEF Detection
      <4> QED BY <3>1, <3>2, <4>1
    <3> QED BY <1>0, <1>1, <1>6, <3>3, <3>4, <3>5 DEF Detection
  <2> QED BY <2>4, <2>6, <2>7 DEF IInv
<1>7. CASE ~backendChecked
  <2>1. pc' = [pc EXCEPT ![c] = "detecting"] /\ UNCHANGED <<tries, reply>>
    BY <1>7 DEF Ask, EnsureBackendDetected
  <2>2. tries' = [tries EXCEPT ![c] = 0] /\ reply' = [reply EXCEPT ![c] = None]
    BY <1>0, <1>4, <2>1 DEF TypeOK
  <2>3. Moves(c, "detecting", r, 0, None)
    <3>1. 0 \in 0 .. 2
      OBVIOUS
    <3>2. r \in Stamped
      BY <1>2
    <3>3. request' = [request EXCEPT ![c] = r]
      BY <1>1
    <3>4. pc' = [pc EXCEPT ![c] = "detecting"]
      BY <2>1
    <3> QED BY <2>2, <3>1, <3>2, <3>3, <3>4, UnsettledMoves
  <2>4. TypeOK'
    BY <1>0, <1>5, <2>3, StepType
  <2>5. /\ pc'[c] = "detecting" /\ tries'[c] = 0 /\ request'[c] = r
        /\ \A d \in Calls \ {c} : pc'[d] = pc[d]
    BY <1>0, <2>3, OthersStay
  <2>6. Tries(c)' /\ ByMode(c)'
    <3>1. ~r.early
      BY <1>0, <1>2, <1>7 DEF Detection, Detecting
    <3> QED BY <2>5, <3>1 DEF Tries, ByMode, Sent
  <2>7. \A d \in Calls : Tries(d)' /\ ByMode(d)'
    BY <1>1, <2>3, <2>6, StepCalls
  <2>8. Detection'
    BY <1>0, <1>1, <1>7, <2>5 DEF Detection
  <2> QED BY <2>4, <2>7, <2>8 DEF IInv
<1> QED BY <1>6, <1>7

\* Detection ends: the only step that sets the mode.
LEMMA DetectedInv ==
  ASSUME IInv, NEW c \in Calls, NEW answer \in {"json", "html", "refused", "late"},
         Detected(c, answer)
  PROVE  IInv'
<1>0. TypeOK /\ Detection /\ Tries(c)
  BY DEF IInv
<1>1. /\ pc[c] = "detecting" /\ Serve(c, request[c], useMock')
      /\ health' = [answer |-> answer, reachable |-> Reachable]
      /\ UNCHANGED <<backendChecked, request, routed, up>>
  BY DEF Detected
<1>2. useMock' \in BOOLEAN
  BY DEF Detected, Available
<1>3. health' \in Findings /\ health' # None
  <2>1. Reachable \in BOOLEAN
    BY DEF Reachable
  <2> QED BY <1>1, <2>1, ClientAssumption DEF Findings
<1>4. tries[c] = 0 /\ backendChecked /\ ~useMock
  BY <1>0, <1>1 DEF Tries, Detection
<1>5. \A d \in Calls \ {c} : pc[d] # "detecting" /\ (pc[d] # "idle" => request[d].early)
  BY <1>0, <1>1 DEF Detection
<1>6. request[c] \in Stamped /\ request' = [request EXCEPT ![c] = request[c]]
  BY <1>0, <1>1 DEF TypeOK
<1>7. \/ /\ useMock'
         /\ Moves(c, "settled", request[c], tries[c] + 1,
                  [from |-> "mock", what |-> MockReply(request[c])])
      \/ /\ ~useMock'
         /\ Moves(c, "fetching", request[c], tries[c] + 1, None)
  <2>1. pc[c] # "settled" /\ tries[c] \in 0 .. 1
    BY <1>1, <1>4
  <2> QED BY <1>0, <1>1, <1>2, <1>6, <2>1, ServeMoves
<1>8. TypeOK'
  <2>1. backendChecked' \in BOOLEAN /\ up' \in BOOLEAN
    BY <1>0, <1>1 DEF TypeOK
  <2> QED BY <1>0, <1>2, <1>3, <1>7, <2>1, StepType
<1>9. Tries(c)' /\ ByMode(c)'
  BY <1>0, <1>2, <1>4, <1>6, <1>7, ServedCall
<1>10. \A d \in Calls : Tries(d)' /\ ByMode(d)'
  BY <1>4, <1>5, <1>7, <1>9, StepCalls
<1>11. Detection'
  <2>1. /\ pc'[c] # "detecting"
        /\ \A d \in Calls \ {c} : pc'[d] = pc[d] /\ request'[d] = request[d]
    BY <1>0, <1>7, OthersStay
  <2> QED BY <1>1, <1>3, <1>4, <1>5, <2>1 DEF Detection
<1> QED BY <1>8, <1>10, <1>11 DEF IInv

\* The answer of the backend, or the failure to get one.
LEMMA FetchInv ==
  ASSUME IInv, NEW c \in Calls, FetchSettles(c)
  PROVE  IInv'
<1>0. TypeOK /\ Detection /\ Tries(c) /\ ByMode(c)
  BY DEF IInv
<1>1. PICK response \in Responses(request[c]) : Responded(c, response)
  BY DEF FetchSettles
<1>2. pc[c] = "fetching" /\ UNCHANGED <<request, tries, routed, up, useMock, backendChecked, health>>
  BY <1>1 DEF Responded, Fails, client
<1>3. \/ /\ pc' = [pc EXCEPT ![c] = "waiting"] /\ reply' = reply
         /\ request[c].kind \in Queries /\ tries[c] = 1
      \/ \E what \in {"data", "passed", "notPassed", "null", "error"} :
            /\ pc' = [pc EXCEPT ![c] = "settled"]
            /\ reply' = [reply EXCEPT ![c] = [from |-> "backend", what |-> what]]
            /\ what = "null" => request[c].kata = Unknown
            /\ what = "error" => request[c].kind \notin Queries \/ tries[c] # 1
  <2>1. CASE response = "ok"
    BY <1>1, <2>1 DEF Responded, Settle, Verdicts, Absent
  <2>2. CASE Absent(request[c], response)
    <3>1. request[c].kata = Unknown
      BY <1>1, <2>2 DEF Absent, Responses
    <3> QED BY <1>1, <2>2, <3>1 DEF Responded, Settle, Absent
  <2>3. CASE response # "ok" /\ ~Absent(request[c], response)
    BY <1>1, <2>3 DEF Responded, Fails, MayRetry, Settle
  <2> QED BY <2>1, <2>2, <2>3
<1>4. /\ request' = [request EXCEPT ![c] = request[c]] /\ tries' = [tries EXCEPT ![c] = tries[c]]
      /\ request[c] \in Stamped /\ request[c] # None /\ tries[c] \in 1 .. 2 /\ reply[c] = None
  BY <1>0, <1>2, ClientAssumption DEF TypeOK, Tries
<1>5. \E p \in {"waiting", "settled"}, y \in Outcomes \cup {None} :
         Moves(c, p, request[c], tries[c], y) /\ Tries(c)' /\ ByMode(c)'
  <2>1. CASE /\ pc' = [pc EXCEPT ![c] = "waiting"] /\ reply' = reply
             /\ request[c].kind \in Queries /\ tries[c] = 1
    <3>1. reply' = [reply EXCEPT ![c] = None]
      BY <1>0, <1>4, <2>1 DEF TypeOK
    <3>2. Moves(c, "waiting", request[c], tries[c], None)
      <4>1. tries[c] \in 0 .. 2
        BY <1>4
      <4>2. request[c] \in Stamped /\ request' = [request EXCEPT ![c] = request[c]]
        BY <1>4
      <4>3. tries' = [tries EXCEPT ![c] = tries[c]]
        BY <1>4
      <4>4. pc' = [pc EXCEPT ![c] = "waiting"]
        BY <2>1
      <4> QED BY <3>1, <4>1, <4>2, <4>3, <4>4, UnsettledMoves
    <3>3. pc'[c] = "waiting" /\ request'[c] = request[c] /\ tries'[c] = tries[c]
      BY <1>0, <3>2, OthersStay
    <3>4. Tries(c)' /\ ByMode(c)'
      BY <1>0, <1>2, <2>1, <3>3 DEF Tries, ByMode, Sent
    <3> QED BY <3>2, <3>4
  <2>2. ASSUME NEW what \in {"data", "passed", "notPassed", "null", "error"},
               pc' = [pc EXCEPT ![c] = "settled"],
               reply' = [reply EXCEPT ![c] = [from |-> "backend", what |-> what]],
               what = "null" => request[c].kata = Unknown,
               what = "error" => request[c].kind \notin Queries \/ tries[c] # 1
        PROVE  \E y \in Outcomes :
                  Moves(c, "settled", request[c], tries[c], y) /\ Tries(c)' /\ ByMode(c)'
    <3> DEFINE y == [from |-> "backend", what |-> what]
    <3>1. y \in Outcomes /\ y # None /\ y.from = "backend" /\ y.what = what
      BY OutcomeType
    <3> HIDE DEF y
    <3>2. Moves(c, "settled", request[c], tries[c], y)
      BY <1>4, <2>2, <3>1 DEF Moves, Places, y
    <3>3. /\ pc'[c] = "settled" /\ request'[c] = request[c]
          /\ tries'[c] = tries[c] /\ reply'[c] = y
      BY <1>0, <3>2, OthersStay
    <3>4. Tries(c)'
      BY <1>0, <1>2, <1>4, <2>2, <3>1, <3>3 DEF Tries, Sent
    <3>5. ByMode(c)'
      BY <1>0, <1>2, <2>2, <3>1, <3>3 DEF ByMode
    <3> QED BY <3>1, <3>2, <3>4, <3>5
  <2> QED BY <1>3, <2>1, <2>2
<1>6. PICK p \in {"waiting", "settled"}, y \in Outcomes \cup {None} :
         Moves(c, p, request[c], tries[c], y) /\ Tries(c)' /\ ByMode(c)'
  BY <1>5
<1>7. TypeOK'
  <2>1. /\ useMock' \in BOOLEAN /\ backendChecked' \in BOOLEAN /\ up' \in BOOLEAN
        /\ health' \in Findings \cup {None}
    BY <1>0, <1>2 DEF TypeOK
  <2> QED BY <1>0, <1>6, <2>1, StepType
<1>8. \A d \in Calls : Tries(d)' /\ ByMode(d)'
  BY <1>2, <1>6, StepCalls
<1>9. Detection'
  <2>1. /\ pc'[c] # "detecting" /\ pc'[c] # "idle" /\ request'[c] = request[c]
        /\ \A d \in Calls \ {c} : pc'[d] = pc[d] /\ request'[d] = request[d]
    BY <1>0, <1>6, OthersStay
  <2> QED BY <1>0, <1>2, <2>1 DEF Detection
<1> QED BY <1>7, <1>8, <1>9 DEF IInv

\* The second try of a query.
LEMMA RetryInv ==
  ASSUME IInv, NEW c \in Calls, Retry(c)
  PROVE  IInv'
<1>0. TypeOK /\ Detection /\ Tries(c)
  BY DEF IInv
<1>1. /\ pc[c] = "waiting" /\ Serve(c, request[c], useMock)
      /\ UNCHANGED <<request, routed, up, useMock, backendChecked, health>>
  BY DEF Retry, client
<1>2. tries[c] = 1 /\ request[c].kind \in Queries
  BY <1>0, <1>1 DEF Tries
<1>3. request[c] \in Stamped /\ request' = [request EXCEPT ![c] = request[c]]
  BY <1>0, <1>1 DEF TypeOK
<1>4. /\ useMock \in BOOLEAN /\ backendChecked' \in BOOLEAN /\ up' \in BOOLEAN
      /\ useMock' \in BOOLEAN /\ health' \in Findings \cup {None}
  BY <1>0, <1>1 DEF TypeOK
<1>5. \/ /\ useMock
         /\ Moves(c, "settled", request[c], tries[c] + 1,
                  [from |-> "mock", what |-> MockReply(request[c])])
      \/ /\ ~useMock
         /\ Moves(c, "fetching", request[c], tries[c] + 1, None)
  <2>1. pc[c] # "settled" /\ tries[c] \in 0 .. 1
    BY <1>1, <1>2
  <2> QED BY <1>0, <1>1, <1>3, <1>4, <2>1, ServeMoves
<1>6. TypeOK'
  BY <1>0, <1>4, <1>5, StepType
<1>7. Tries(c)' /\ ByMode(c)'
  BY <1>0, <1>1, <1>2, <1>3, <1>4, <1>5, ServedCall
<1>8. \A d \in Calls : Tries(d)' /\ ByMode(d)'
  BY <1>1, <1>5, <1>7, StepCalls
<1>9. Detection'
  <2>1. /\ pc'[c] # "detecting" /\ request'[c] = request[c]
        /\ \A d \in Calls \ {c} : pc'[d] = pc[d] /\ request'[d] = request[d]
    BY <1>0, <1>5, OthersStay
  <2> QED BY <1>0, <1>1, <2>1 DEF Detection
<1> QED BY <1>6, <1>8, <1>9 DEF IInv

LEMMA HealthAnswerType == HealthAnswer \in {"json", "html", "refused"}
BY DEF HealthAnswer

LEMMA NextInv == IInv /\ [Next]_vars => IInv'
<1> SUFFICES ASSUME IInv, [Next]_vars PROVE IInv'
  OBVIOUS
<1>1. CASE \E c \in Calls : \E q \in Asks : Ask(c, q)
  BY <1>1, AskInv
<1>2. CASE \E c \in Calls : HealthAnswers(c) \/ HealthTimesOut(c)
  BY <1>2, DetectedInv, HealthAnswerType DEF HealthAnswers, HealthTimesOut
<1>3. CASE \E c \in Calls : FetchSettles(c)
  BY <1>3, FetchInv
<1>4. CASE \E c \in Calls : Retry(c)
  BY <1>4, RetryInv
<1>5. CASE BackendStartsOrStops \/ UNCHANGED vars
  <2>1. UNCHANGED <<client, calls>> /\ up' \in BOOLEAN
    BY <1>5 DEF BackendStartsOrStops, vars, IInv, TypeOK
  <2> QED BY <2>1 DEF client, calls, IInv, TypeOK, Detection, Tries, ByMode, Sent
<1> QED BY <1>1, <1>2, <1>3, <1>4, <1>5 DEF Next

THEOREM Invariance == Spec => []IInv
BY InitInv, NextInv, PTL DEF Spec
-----------------------------------------------------------------------------
\* The client's state keeps its shape, and no call is tried more than twice.
THEOREM TypeCorrect == Spec => []TypeOK
<1>1. IInv => TypeOK
  BY DEF IInv
<1> QED BY <1>1, Invariance, PTL

\* The backend is looked for once, however many calls are made at once.
THEOREM DetectedOnce == Spec => []OneDetection
<1>1. IInv => OneDetection
  <2> SUFFICES ASSUME IInv PROVE OneDetection
    OBVIOUS
  <2>1. CASE Detecting = {}
    BY <2>1, FS_EmptySet DEF OneDetection
  <2>2. CASE Detecting # {}
    <3>1. PICK c \in Calls : pc[c] = "detecting"
      BY <2>2 DEF Detecting
    <3>2. Detecting = {c} /\ health = None
      BY <3>1 DEF Detecting, IInv, Detection
    <3>3. Cardinality({c}) = 1
      BY FS_Singleton
    <3> QED BY <3>2, <3>3 DEF OneDetection
  <2> QED BY <2>1, <2>2
<1> QED BY <1>1, Invariance, PTL

\* A call is answered from the source that detection chose; only one made
\* while detection was under way may have gone to the backend in mock mode.
AnsweredByMode ==
    \A c \in Calls : reply[c] # None =>
        IF reply[c].from = "mock" THEN useMock ELSE useMock => request[c].early

\* Calls made outside detection are answered in the mode that it found.
THEOREM ModesNeverMix == Spec => []AnsweredByMode
<1>1. IInv => AnsweredByMode
  BY DEF IInv, TypeOK, ByMode, AnsweredByMode
<1> QED BY <1>1, Invariance, PTL

\* "Not found" is only said of a kata that neither source has.
THEOREM NotFoundIsTrue == Spec => []NullMeansUnknown
<1>1. IInv => NullMeansUnknown
  BY DEF IInv, TypeOK, ByMode, NullMeansUnknown
<1> QED BY <1>1, Invariance, PTL

\* Nothing is submitted twice, and no query gives up at its first failure.
THEOREM OnlyQueriesRetry == Spec => []RetriesAreForQueries
<1>1. IInv => RetriesAreForQueries
  <2> SUFFICES ASSUME IInv, NEW c \in Calls, request[c] # None
               PROVE  /\ request[c].kind \notin Queries => tries[c] =< 1
                      /\ (reply[c] # None /\ reply[c].what = "error" /\ request[c].kind \in Queries)
                             => tries[c] = 2
    BY DEF RetriesAreForQueries
  <2>1. pc[c] \in {"idle", "detecting"} \cup Sent /\ (pc[c] = "settled" <=> reply[c] # None)
    BY DEF IInv, TypeOK, Sent
  <2>2. Tries(c)
    BY DEF IInv
  <2> QED BY <2>1, <2>2 DEF Tries, Sent
<1> QED BY <1>1, Invariance, PTL
-----------------------------------------------------------------------------
\* The host passes on either both kinds of path or none: then the answer to
\* /health tells whether the API can be reached.
RoutesBothOrNone == \A paths \in Routings : "/api" \in paths <=> "/health" \in paths

HealthTells == routed \in Routings /\ ModeIsRight

\* Behind such a host the mode is right unless the answer came too late; the
\* development server is not such a host.
THEOREM RightMode == ASSUME RoutesBothOrNone PROVE Spec => []ModeIsRight
<1>1. Init => HealthTells
  BY DEF Init, HealthTells, ModeIsRight
<1>2. HealthTells /\ [Next]_vars => HealthTells'
  <2> SUFFICES ASSUME HealthTells, [Next]_vars PROVE HealthTells'
    OBVIOUS
  <2>1. CASE UNCHANGED <<useMock, health, routed>>
    BY <2>1 DEF HealthTells, ModeIsRight
  <2>2. CASE \E c \in Calls : HealthAnswers(c)
    <3>1. /\ health' = [answer |-> HealthAnswer, reachable |-> Reachable]
          /\ useMock' = (HealthAnswer # "json") /\ routed' = routed
      BY <2>2 DEF HealthAnswers, Detected, Available
    <3>2. (HealthAnswer = "json") <=> Reachable
      BY RoutesBothOrNone DEF HealthTells, HealthAnswer, Reachable, RoutesBothOrNone
    <3> QED BY <3>1, <3>2 DEF HealthTells, ModeIsRight
  <2>3. CASE \E c \in Calls : HealthTimesOut(c)
    BY <2>3 DEF HealthTimesOut, Detected, HealthTells, ModeIsRight
  <2> QED
    BY <2>1, <2>2, <2>3
    DEF Next, vars, client, calls, Ask, FetchSettles, Responded, Fails, Retry, BackendStartsOrStops
<1>3. HealthTells => ModeIsRight
  BY DEF HealthTells
<1> QED BY <1>1, <1>2, <1>3, PTL DEF Spec
-----------------------------------------------------------------------------
(***************************************************************************)
(* The client implements TwoModeClient.                                    *)
(***************************************************************************)
LEMMA TwoModesInit == Init => TMC!Init
BY DEF Init, TMC!Init, Mode, CallState, Early

\* One call moves, as seen from the page.
LEMMA ShownMove ==
  ASSUME TypeOK, NEW c \in Calls, NEW p, NEW y,
         pc' = [pc EXCEPT ![c] = p], reply' = [reply EXCEPT ![c] = y]
  PROVE  [d \in Calls |-> CallState(d)]' =
           [[d \in Calls |-> CallState(d)] EXCEPT ![c] =
               IF p = "idle" THEN "idle" ELSE IF p = "settled" THEN y.from ELSE "open"]
<1>1. /\ pc'[c] = p /\ reply'[c] = y
      /\ \A d \in Calls \ {c} : pc'[d] = pc[d] /\ reply'[d] = reply[d]
  BY DEF TypeOK
<1>2. \A d \in Calls \ {c} : CallState(d)' = CallState(d)
  BY <1>1 DEF CallState
<1>3. CallState(c)' = IF p = "idle" THEN "idle" ELSE IF p = "settled" THEN y.from ELSE "open"
  BY <1>1 DEF CallState
<1> QED BY <1>2, <1>3

LEMMA ShownOpen ==
  ASSUME TypeOK, NEW c \in Calls, NEW p \in {"detecting", "fetching", "waiting"},
         pc' = [pc EXCEPT ![c] = p], reply' = reply
  PROVE  [d \in Calls |-> CallState(d)]' =
           [[d \in Calls |-> CallState(d)] EXCEPT ![c] = "open"]
<1>1. reply' = [reply EXCEPT ![c] = reply[c]]
  BY DEF TypeOK
<1> QED BY <1>1, ShownMove

LEMMA ShownSettled ==
  ASSUME TypeOK, NEW c \in Calls, NEW source, NEW what, Settle(c, source, what)
  PROVE  [d \in Calls |-> CallState(d)]' =
           [[d \in Calls |-> CallState(d)] EXCEPT ![c] = source]
<1> DEFINE y == [from |-> source, what |-> what]
<1>1. y.from = source
  OBVIOUS
<1>2. pc' = [pc EXCEPT ![c] = "settled"] /\ reply' = [reply EXCEPT ![c] = y]
  BY DEF Settle
<1> HIDE DEF y
<1> QED BY <1>1, <1>2, ShownMove

LEMMA ShownServed ==
  ASSUME TypeOK, NEW c \in Calls, NEW q, NEW mock \in BOOLEAN, Serve(c, q, mock)
  PROVE  [d \in Calls |-> CallState(d)]' =
           [[d \in Calls |-> CallState(d)] EXCEPT ![c] = IF mock THEN "mock" ELSE "open"]
<1>1. CASE mock
  BY <1>1, ShownSettled DEF Serve
<1>2. CASE ~mock
  BY <1>2, ShownOpen DEF Serve
<1> QED BY <1>1, <1>2

\* Nothing that the page can see has happened to a call that is still open.
LEMMA StillOpen ==
  ASSUME TypeOK, NEW c \in Calls, pc[c] \in {"detecting", "fetching", "waiting"}
  PROVE  [[d \in Calls |-> CallState(d)] EXCEPT ![c] = "open"] = [d \in Calls |-> CallState(d)]
<1>1. CallState(c) = "open"
  BY DEF CallState
<1> QED BY <1>1

\* What the mode says, and who may be under way without knowing it.
LEMMA ModeFacts ==
  ASSUME IInv
  PROVE  /\ Mode = "unknown" <=> health = None
         /\ Mode = "mock" <=> useMock
         /\ \A c \in Calls : pc[c] \in {"fetching", "waiting"} =>
                                 Mode = "backend" \/ c \in Early
         /\ \A c \in Calls : pc[c] = "detecting" => c \notin Early
<1>0. TypeOK /\ Detection /\ \A c \in Calls : ByMode(c)
  BY DEF IInv
<1>1. /\ Mode = "unknown" <=> health = None
      /\ Mode = "mock" <=> useMock
  BY <1>0 DEF Mode, Detection
<1>2. ASSUME NEW c \in Calls, pc[c] \in {"fetching", "waiting"}, Mode # "backend"
      PROVE  c \in Early
  <2>1. request[c] # None
    BY <1>0, <1>2 DEF TypeOK
  <2>2. CASE useMock
    BY <1>0, <1>2, <2>1, <2>2 DEF ByMode, Early
  <2>3. CASE health = None
    <3>1. backendChecked
      BY <1>0, <1>2 DEF Detection
    <3>2. PICK d \in Calls : pc[d] = "detecting"
      BY <1>0, <2>3, <3>1 DEF Detection
    <3> QED BY <1>0, <1>2, <2>1, <3>2 DEF Detection, Early
  <2> QED BY <1>2, <2>2, <2>3 DEF Mode
<1>3. ASSUME NEW c \in Calls, pc[c] = "detecting" PROVE c \notin Early
  BY <1>0, <1>3 DEF ByMode, Early
<1> QED BY <1>1, <1>2, <1>3

\* A call that is made: early exactly if the mode is unknown and another call
\* was made before.
LEMMA AskShown ==
  ASSUME IInv, NEW c \in Calls, NEW q \in Asks, Ask(c, q)
  PROVE  TMC!Ask(c)
<1> DEFINE r == [kind |-> q.kind, kata |-> q.kata, early |-> Detecting # {}]
           others == \E d \in Calls : CallState(d) # "idle"
<1>0. TypeOK /\ Detection /\ useMock \in BOOLEAN
  BY DEF IInv, TypeOK
<1>1. /\ pc[c] = "idle" /\ request' = [request EXCEPT ![c] = r]
      /\ EnsureBackendDetected(c, q) /\ UNCHANGED <<useMock, health>>
  BY DEF Ask
<1>2. r \in Stamped /\ (r.early <=> Detecting # {})
  BY DEF Asks, Stamped
<1>3. r # None
  BY <1>2, ClientAssumption
<1> HIDE DEF r
<1>4. request[c] = None /\ CallState(c) = "idle"
  BY <1>0, <1>1 DEF TypeOK, CallState
<1>5. others <=> \E d \in Calls : pc[d] # "idle"
  <2>1. \A d \in Calls : CallState(d) # "idle" <=> pc[d] # "idle"
    <3>1. \A d \in Calls : pc[d] = "settled" => reply[d] \in Outcomes
      BY <1>0 DEF TypeOK
    <3>2. \A o \in Outcomes : o.from # "idle"
      BY DEF Outcomes
    <3> QED BY <3>1, <3>2 DEF CallState
  <2> QED BY <2>1
<1>6. Detecting # {} <=> (health = None /\ others)
  <2>1. ASSUME Detecting # {} PROVE health = None /\ others
    BY <1>0, <1>5, <2>1 DEF Detecting, Detection
  <2>2. ASSUME health = None, others PROVE Detecting # {}
    BY <1>0, <1>5, <2>2 DEF Detecting, Detection
  <2> QED BY <2>1, <2>2
<1>7. Early' = IF Mode = "unknown" /\ others THEN Early \cup {c} ELSE Early
  <2>1. /\ request'[c] = r
        /\ \A d \in Calls \ {c} : request'[d] = request[d]
    BY <1>0, <1>1 DEF TypeOK
  <2>2. Mode = "unknown" <=> health = None
    BY ModeFacts
  <2>3. Early' = IF r.early THEN Early \cup {c} ELSE Early
    BY <1>3, <1>4, <2>1 DEF Early
  <2> HIDE DEF others
  <2> QED BY <1>2, <1>6, <2>2, <2>3
<1>8. [d \in Calls |-> CallState(d)]' =
        [[d \in Calls |-> CallState(d)] EXCEPT ![c] = IF Mode = "mock" THEN "mock" ELSE "open"]
  <2>1. CASE backendChecked
    <3>1. Serve(c, q, useMock)
      BY <1>1, <2>1 DEF EnsureBackendDetected
    <3> QED BY <1>0, <3>1, ShownServed, ModeFacts
  <2>2. CASE ~backendChecked
    <3>1. pc' = [pc EXCEPT ![c] = "detecting"] /\ reply' = reply
      BY <1>1, <2>2 DEF EnsureBackendDetected
    <3>2. Mode = "unknown"
      BY <1>0, <2>2 DEF Detection, Mode
    <3> QED BY <1>0, <3>1, <3>2, ShownOpen
  <2> QED BY <2>1, <2>2
<1>9. Mode' = Mode
  BY <1>1 DEF Mode
<1> QED BY <1>4, <1>7, <1>8, <1>9 DEF TMC!Ask, TMC!Moves

LEMMA DetectedShown ==
  ASSUME IInv, NEW c \in Calls, NEW answer \in {"json", "html", "refused", "late"},
         Detected(c, answer)
  PROVE  \E m \in TMC!Modes : TMC!Decide(c, m)
<1> DEFINE m == IF useMock' THEN "mock" ELSE "backend"
<1>0. TypeOK /\ Detection
  BY DEF IInv
<1>1. /\ pc[c] = "detecting" /\ Serve(c, request[c], useMock') /\ request' = request
      /\ health' = [answer |-> answer, reachable |-> Reachable]
      /\ useMock' \in BOOLEAN
  BY DEF Detected, Available
<1>2. health' # None
  <2>1. Reachable \in BOOLEAN
    BY DEF Reachable
  <2> QED BY <1>1, <2>1, ClientAssumption DEF Findings
<1>3. Mode = "unknown" /\ Mode' = m /\ m \in TMC!Modes
  BY <1>0, <1>1, <1>2 DEF Mode, Detection, TMC!Modes
<1>4. CallState(c) = "open" /\ c \notin Early /\ Early' = Early
  BY <1>1, ModeFacts DEF CallState, Early
<1>5. [d \in Calls |-> CallState(d)]' =
        [[d \in Calls |-> CallState(d)] EXCEPT ![c] = IF m = "mock" THEN "mock" ELSE "open"]
  BY <1>0, <1>1, ShownServed
<1> HIDE DEF m
<1>6. TMC!Decide(c, m)
  BY <1>3, <1>4, <1>5 DEF TMC!Decide, TMC!Moves
<1> QED BY <1>3, <1>6

LEMMA FetchShown ==
  ASSUME IInv, NEW c \in Calls, FetchSettles(c)
  PROVE  TMC!Answer(c, "backend") \/ UNCHANGED TMC!vars
<1>0. TypeOK
  BY DEF IInv
<1>1. PICK response \in Responses(request[c]) : Responded(c, response)
  BY DEF FetchSettles
<1>2. pc[c] = "fetching" /\ UNCHANGED <<request, useMock, health>>
  BY <1>1 DEF Responded, Fails, client
<1>3. Early' = Early /\ Mode' = Mode
  BY <1>2 DEF Early, Mode
<1>4. \/ \E what : Settle(c, "backend", what)
      \/ pc' = [pc EXCEPT ![c] = "waiting"] /\ reply' = reply
  BY <1>1 DEF Responded, Fails
<1>5. CASE \E what : Settle(c, "backend", what)
  <2>1. [d \in Calls |-> CallState(d)]' =
          [[d \in Calls |-> CallState(d)] EXCEPT ![c] = "backend"]
    BY <1>0, <1>5, ShownSettled
  <2>2. CallState(c) = "open"
    BY <1>2 DEF CallState
  <2>3. Mode = "backend" \/ c \in Early
    BY <1>2, ModeFacts
  <2> QED BY <1>3, <2>1, <2>2, <2>3 DEF TMC!Answer, TMC!Moves
<1>6. CASE pc' = [pc EXCEPT ![c] = "waiting"] /\ reply' = reply
  BY <1>0, <1>2, <1>3, <1>6, ShownOpen, StillOpen DEF TMC!vars
<1> QED BY <1>4, <1>5, <1>6

LEMMA RetryShown ==
  ASSUME IInv, NEW c \in Calls, Retry(c)
  PROVE  TMC!Answer(c, "mock") \/ UNCHANGED TMC!vars
<1>0. TypeOK /\ useMock \in BOOLEAN
  BY DEF IInv, TypeOK
<1>1. /\ pc[c] = "waiting" /\ Serve(c, request[c], useMock)
      /\ UNCHANGED <<request, useMock, health>>
  BY DEF Retry, client
<1>2. Early' = Early /\ Mode' = Mode
  BY <1>1 DEF Early, Mode
<1>3. [d \in Calls |-> CallState(d)]' =
        [[d \in Calls |-> CallState(d)] EXCEPT ![c] = IF useMock THEN "mock" ELSE "open"]
  BY <1>0, <1>1, ShownServed
<1>4. CASE useMock
  <2>1. CallState(c) = "open" /\ Mode = "mock"
    BY <1>1, <1>4, ModeFacts DEF CallState
  <2> QED BY <1>2, <1>3, <1>4, <2>1 DEF TMC!Answer, TMC!Moves
<1>5. CASE ~useMock
  BY <1>0, <1>1, <1>2, <1>3, <1>5, StillOpen DEF TMC!vars
<1> QED BY <1>4, <1>5

LEMMA TwoModesStep ==
  ASSUME IInv, [Next]_vars
  PROVE  [TMC!Next]_(TMC!vars)
<1>1. CASE \E c \in Calls : \E q \in Asks : Ask(c, q)
  BY <1>1, AskShown DEF TMC!Next
<1>2. CASE \E c \in Calls : HealthAnswers(c) \/ HealthTimesOut(c)
  BY <1>2, DetectedShown, HealthAnswerType DEF HealthAnswers, HealthTimesOut, TMC!Next
<1>3. CASE \E c \in Calls : FetchSettles(c)
  <2>1. "backend" \in TMC!Modes
    BY DEF TMC!Modes
  <2> QED BY <1>3, <2>1, FetchShown DEF TMC!Next
<1>4. CASE \E c \in Calls : Retry(c)
  <2>1. "mock" \in TMC!Modes
    BY DEF TMC!Modes
  <2> QED BY <1>4, <2>1, RetryShown DEF TMC!Next
<1>5. CASE BackendStartsOrStops \/ UNCHANGED vars
  <2>1. UNCHANGED <<client, calls>>
    BY <1>5 DEF BackendStartsOrStops, vars
  <2> QED BY <2>1 DEF client, calls, TMC!vars, Mode, CallState, Early
<1> QED BY <1>1, <1>2, <1>3, <1>4, <1>5 DEF Next

\* The mode is found once and for all, and every call made outside detection
\* is answered once, in that mode.
THEOREM Refinement == Spec => ImplementsTwoModeClient
BY TwoModesInit, TwoModesStep, Invariance, PTL DEF Spec, ImplementsTwoModeClient, TMC!Spec
=============================================================================
