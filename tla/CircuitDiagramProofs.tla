------------------------- MODULE CircuitDiagramProofs -------------------------
(***************************************************************************)
(* The extraction loop of CircuitDiagram against its reference definition, *)
(* for outputs of any length.                                              *)
(***************************************************************************)
EXTENDS CircuitDiagram, SequenceTheorems, TLAPS

\* A circuit is open at the line the loop is at.
OpenAt(i) == \E j \in 1 .. (i - 1) : Opens(j, i)

\* What the walked lines have left in the two loop variables.
Walked == /\ circuitLines = {i \in 1 .. (next - 1) : InDiagram(i)}
          /\ next =< Len(lines) => (inCircuit <=> OpenAt(next))

IInv == /\ TypeOK
        /\ next = 0 => circuitLines = {} /\ ~inCircuit
        /\ next > 0 => Walked
-----------------------------------------------------------------------------
LEMMA InitInv == Init => IInv
<1> SUFFICES ASSUME Init PROVE IInv
  OBVIOUS
<1>1. PICK n \in 1 .. MaxLines : lines \in [1 .. n -> Kinds]
  BY DEF Init
<1>2. n \in Nat
  BY <1>1, LinesAssumption
<1>3. lines \in Seq(Kinds)
  BY <1>1, <1>2
<1>4. Len(lines) \in Nat
  BY <1>3
<1>5. next = 0 /\ circuitLines = {} /\ inCircuit = FALSE
  BY DEF Init
<1>6. next \in 0 .. Len(lines) + 1 /\ circuitLines \subseteq 1 .. (next - 1)
  BY <1>4, <1>5
<1>7. TypeOK
  BY <1>3, <1>5, <1>6 DEF TypeOK
<1>8. ~(next > 0)
  BY <1>5
<1> QED BY <1>5, <1>7, <1>8 DEF IInv

\* The early return is right: without a match there is no wire.
LEMMA TestInv ==
  ASSUME IInv, Test
  PROVE  IInv'
<1> USE DEF IInv
<1>1. lines \in Seq(Kinds) /\ Len(lines) \in Nat
  BY DEF TypeOK
<1>2. next = 0 /\ circuitLines = {} /\ ~inCircuit /\ UNCHANGED <<lines, inCircuit, circuitLines>>
  BY DEF Test
<1>3. CASE Matches
  <2>1. next' = 1
    BY <1>3 DEF Test
  <2>2. TypeOK'
    BY <1>1, <1>2, <2>1 DEF TypeOK
  <2>3. Walked'
    BY <1>2, <2>1 DEF Walked, OpenAt
  <2> QED BY <2>1, <2>2, <2>3
<1>4. CASE ~Matches
  <2>1. next' = Len(lines) + 1
    BY <1>4 DEF Test
  <2>2. TypeOK'
    BY <1>1, <1>2, <2>1 DEF TypeOK
  <2>3. \A i \in 1 .. Len(lines) : ~IsWire(i)
    BY <1>4 DEF Matches
  <2>4. \A i \in 1 .. Len(lines) : ~InDiagram(i)
    BY <1>1, <2>3 DEF InDiagram, Opens
  <2>5. \A i \in 1 .. Len(lines) : ~InDiagram(i)'
    BY <1>2, <2>4 DEF InDiagram, Opens, IsWire
  <2>6. Walked'
    BY <1>1, <1>2, <2>1, <2>5 DEF Walked
  <2> QED BY <1>1, <2>1, <2>2, <2>6
<1> QED BY <1>3, <1>4

\* The step's three branches, each with what it does to the open circuit.
LEMMA StepInv ==
  ASSUME IInv, Step
  PROVE  IInv'
<1> USE DEF IInv
<1>1. /\ lines \in Seq(Kinds) /\ Len(lines) \in Nat
      /\ next \in 1 .. Len(lines) /\ next' = next + 1 /\ lines' = lines
  BY DEF Step, TypeOK
<1>2. Walked /\ (inCircuit <=> OpenAt(next))
  BY <1>1 DEF Walked
<1>3. \A j \in 1 .. (next - 1) : Opens(j, next + 1) <=> (Opens(j, next) /\ lines[next] # "empty")
  BY <1>1 DEF Opens
<1>4. Opens(next, next + 1) <=> IsWire(next)
  BY <1>1 DEF Opens
<1>5. OpenAt(next + 1) <=> (IsWire(next) \/ (OpenAt(next) /\ lines[next] # "empty"))
  BY <1>1, <1>3, <1>4 DEF OpenAt
<1>6. InDiagram(next) <=> \/ IsWire(next)
                          \/ OpenAt(next) /\ lines[next] \in {"drawing", "blanks", "empty"}
  BY DEF InDiagram, OpenAt
<1>7. IsWire(next) => lines[next] = "wire"
  BY DEF IsWire
<1>8. /\ \A i : InDiagram(i)' <=> InDiagram(i)
      /\ OpenAt(next)' <=> OpenAt(next + 1)
  BY <1>1 DEF InDiagram, OpenAt, Opens, IsWire
<1>9. CASE Draws
  <2>1. circuitLines' = circuitLines \cup {next} /\ inCircuit' = TRUE
    BY <1>9 DEF Draws, Take
  <2>2. InDiagram(next) /\ OpenAt(next + 1)
    BY <1>2, <1>5, <1>6, <1>9 DEF Draws, Continues
  <2>3. TypeOK'
    <3>1. circuitLines' \subseteq 1 .. (next' - 1) /\ next' \in 0 .. Len(lines') + 1
      BY <1>1, <2>1 DEF TypeOK
    <3>2. inCircuit' \in BOOLEAN
      BY <2>1
    <3> QED BY <1>1, <3>1, <3>2 DEF TypeOK
  <2>4. Walked'
    BY <1>1, <1>2, <1>8, <2>1, <2>2 DEF Walked
  <2> QED BY <1>1, <2>3, <2>4
<1>10. CASE EndsCircuit
  <2>1. circuitLines' = circuitLines \cup {next} /\ inCircuit' = FALSE
    BY <1>10 DEF EndsCircuit, Take
  <2>2. InDiagram(next) /\ ~OpenAt(next + 1)
    BY <1>2, <1>5, <1>6, <1>7, <1>10 DEF EndsCircuit
  <2>3. TypeOK'
    <3>1. circuitLines' \subseteq 1 .. (next' - 1) /\ next' \in 0 .. Len(lines') + 1
      BY <1>1, <2>1 DEF TypeOK
    <3>2. inCircuit' \in BOOLEAN
      BY <2>1
    <3> QED BY <1>1, <3>1, <3>2 DEF TypeOK
  <2>4. Walked'
    BY <1>1, <1>2, <1>8, <2>1, <2>2 DEF Walked
  <2> QED BY <1>1, <2>3, <2>4
<1>11. CASE Skips
  <2>1. UNCHANGED <<inCircuit, circuitLines>>
    BY <1>11 DEF Skips
  <2>2. ~InDiagram(next) /\ (OpenAt(next + 1) <=> inCircuit)
    BY <1>2, <1>5, <1>6, <1>11 DEF Skips
  <2>3. TypeOK'
    BY <1>1, <2>1 DEF TypeOK
  <2>4. Walked'
    BY <1>1, <1>2, <1>8, <2>1, <2>2 DEF Walked
  <2> QED BY <1>1, <2>3, <2>4
<1> QED BY <1>9, <1>10, <1>11 DEF Step

LEMMA NextInv == IInv /\ [Next]_vars => IInv'
<1>1. ASSUME IInv, UNCHANGED vars PROVE IInv'
  BY <1>1 DEF vars, IInv, TypeOK, Walked, OpenAt, Opens, InDiagram, IsWire
<1> QED BY <1>1, TestInv, StepInv DEF Next, Done

THEOREM Invariance == Spec => []IInv
BY InitInv, NextInv, PTL DEF Spec
-----------------------------------------------------------------------------
\* The loop's variables keep their shape, and only walked lines are taken.
THEOREM TypeCorrect == Spec => []TypeOK
<1>1. IInv => TypeOK
  BY DEF IInv
<1> QED BY <1>1, Invariance, PTL

\* The extracted diagram is the reference's, whatever was printed.
THEOREM Exact == Spec => []DiagramIsExact
<1>1. IInv => DiagramIsExact
  <2> SUFFICES ASSUME IInv, Finished PROVE circuitLines = {i \in 1 .. Len(lines) : InDiagram(i)}
    BY DEF DiagramIsExact
  <2>1. next = Len(lines) + 1 /\ Len(lines) \in Nat
    BY DEF Finished, IInv, TypeOK
  <2> QED BY <2>1 DEF IInv, Walked
<1> QED BY <1>1, Invariance, PTL
=============================================================================
