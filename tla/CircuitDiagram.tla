---------------------------- MODULE CircuitDiagram ----------------------------
(***************************************************************************)
(* CircuitDiagram in components/ExecutionResult.tsx: which lines of stdout *)
(* are repeated under the heading "Circuit Diagram".  Stdout is first      *)
(* tested as a whole, then walked line by line with a flag that carries    *)
(* over from one line to the next.                                         *)
(*                                                                         *)
(* A line counts by what the two regular expressions and trim() see of it: *)
(*   "wire"    a label, a colon and at least one character of a wire, of a *)
(*             gate or blank ("0: ---X---", but also "answer: 42")         *)
(*   "label"   a label and a colon that end the line                       *)
(*   "drawing" begins with a blank or with a line, cross or control sign   *)
(*   "blanks"  one or more blanks, nothing else                            *)
(*   "empty"   no character                                                *)
(*   "text"    anything else                                               *)
(***************************************************************************)
EXTENDS Integers, Sequences

CONSTANT MaxLines  \* bound: number of lines

ASSUME LinesAssumption == MaxLines \in Nat

Kinds == {"wire", "label", "drawing", "blanks", "empty", "text"}

VARIABLES lines,        \* stdout.split("\n")
          next,         \* the line the loop is at; 0 before the test
          inCircuit,
          circuitLines  \* places of the lines taken so far

vars == <<lines, next, inCircuit, circuitLines>>

Init == /\ lines \in UNION {[1 .. n -> Kinds] : n \in 1 .. MaxLines}
        /\ next = 0
        /\ inCircuit = FALSE
        /\ circuitLines = {}

IsWire(i) == lines[i] = "wire"

\* /^[\s|...]/ needs one character, and a blank is one.
Continues(i) == lines[i] \in {"drawing", "blanks"}

\* circuitPattern.test(stdout): a line break after the colon is a blank, too.
Matches == \E i \in 1 .. Len(lines) :
               IsWire(i) \/ (lines[i] = "label" /\ i < Len(lines))

Finished == next = Len(lines) + 1

\* The early return: no diagram.
Test == /\ next = 0
        /\ next' = IF Matches THEN 1 ELSE Len(lines) + 1
        /\ UNCHANGED <<lines, inCircuit, circuitLines>>

Take(open) == circuitLines' = circuitLines \cup {next} /\ inCircuit' = open

\* (mutant) The flag is not cleared at the end of a circuit.
EndsCircuit_StaysOpen == inCircuit /\ lines[next] = "empty" /\ Take(TRUE)

\* (A line of blanks inside a circuit has been taken as part of the drawing.)
EndsCircuit == inCircuit /\ lines[next] = "empty" /\ Take(FALSE)

Draws == (IsWire(next) \/ (inCircuit /\ Continues(next))) /\ Take(TRUE)

\* The loop has no branch for any other line: the flag stays.
Skips == /\ ~IsWire(next)
         /\ inCircuit => lines[next] \in {"label", "text"}
         /\ UNCHANGED <<inCircuit, circuitLines>>

Step == /\ next \in 1 .. Len(lines)
        /\ next' = next + 1
        /\ Draws \/ EndsCircuit \/ Skips
        /\ UNCHANGED lines

Done == Finished /\ UNCHANGED vars

Next == Test \/ Step \/ Done

Spec == Init /\ [][Next]_vars
-----------------------------------------------------------------------------
\* A line after which a circuit is open: a wire, with no empty line since.
Opens(j, i) == IsWire(j) /\ \A m \in (j + 1) .. (i - 1) : lines[m] # "empty"

\* The reference: a wire, or a line of a drawing, or the empty line that closes
\* it, that follows a wire without an empty line in between.
InDiagram(i) == \/ IsWire(i)
                \/ /\ lines[i] \in {"drawing", "blanks", "empty"}
                   /\ \E j \in 1 .. (i - 1) : Opens(j, i)

\* The state's shape; only lines that were walked are taken.
TypeOK == /\ lines \in Seq(Kinds)
          /\ next \in 0 .. Len(lines) + 1
          /\ inCircuit \in BOOLEAN
          /\ circuitLines \subseteq 1 .. (next - 1)

\* The diagram is the reference's, line by line and also when the early return
\* leaves the loop out: no part of a circuit is lost, and nothing is taken
\* before the first wire or from between an empty line and the next wire.
DiagramIsExact == Finished => circuitLines = {i \in 1 .. Len(lines) : InDiagram(i)}
=============================================================================
