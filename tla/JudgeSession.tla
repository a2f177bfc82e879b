----------------------------- MODULE JudgeSession -----------------------------
(***************************************************************************)
(* What happens to one program from the child's start to the verdict: the  *)
(* wrapper scripts of services/executor.py run the learner's code and, for *)
(* a submission, clean the namespace and run the validation code in a copy *)
(* of it; _run_sandboxed collects the output; services/judge.py reads the  *)
(* verdict off it.                                                         *)
(*                                                                         *)
(* A learner's program is what it does: it binds names, some of which      *)
(* happen to be names of builtins, assigns to its dict of builtins and to  *)
(* attributes of the libraries, prints, and ends in some way.  Its code    *)
(* also runs later, as methods of its values that are being validated.     *)
(*                                                                         *)
(* The validation code asserts that each of Vars is bound to a right value,*)
(* with the help of the builtin any, and then prints the marker.           *)
(***************************************************************************)
EXTENDS Naturals, Sequences, FiniteSets

CONSTANTS Vars,       \* the names the validation code reads
          MaxOutput,  \* MAX_OUTPUT_BYTES
          MaxPrints   \* bound: how many characters a learner's program prints

ASSUME SessionAssumption == MaxOutput \in Nat /\ MaxPrints \in Nat

VARIABLES kind,      \* which wrapper runs: "execute" or "judge"
          stage,     \* where the run is
          ns,        \* _ns: what each of Vars is bound to
          shadowed,  \* the builtins whose names are bound in _ns
          changed,   \* what else the program has redefined
          out,       \* characters written to stdout
          status,    \* how the child ended: returncode 0 or not
          validated, \* history: the validation code has run to its end
          left,      \* history: the learner's code has ended the run itself
          result,    \* the ExecutionResult
          verdict    \* the ValidateResponse

names == <<kind, ns, shadowed, changed>>
child == <<names, out, status, validated, left>>
vars == <<child, stage, result, verdict>>

Values == {"unbound", "right", "wrong"}
Builtins == {"any", "print"}

\* The entries of the dict of builtins, and the libraries that validation code
\* uses as well, as one.
Redefinable == Builtins \cup {"library"}

\* A character of one byte and one of three, the word PASSED, which counts as
\* one character here, and the line that is put after a cut.
Narrow == "n"
Wide == "w"
Marker == "PASSED"
Notice == "[output truncated at 1 MB]"
Chars == {Narrow, Wide, Marker}

NoResult == [success |-> FALSE, stdout |-> <<>>, truncated |-> FALSE]

Contains(text, char) == \E i \in DOMAIN text : text[i] = char

Init == /\ kind \in {"execute", "judge"}
        /\ stage = "user"
        /\ ns = [v \in Vars |-> "unbound"]
        /\ shadowed = {}
        /\ changed = {}
        /\ out = <<>>
        /\ status = "none"
        /\ validated = FALSE
        /\ left = FALSE
        /\ result = NoResult
        /\ verdict = "none"
-----------------------------------------------------------------------------
(***************************************************************************)
(* The child.                                                              *)
(***************************************************************************)
Bind(v, value) ==
    /\ stage = "user"
    /\ ns' = [ns EXCEPT ![v] = value]
    /\ UNCHANGED <<kind, stage, shadowed, changed, out, status, validated, left, result, verdict>>

\* A learner's variable has the name of a builtin.
Shadow(b) ==
    /\ stage = "user"
    /\ shadowed' = shadowed \cup {b}
    /\ UNCHANGED <<kind, stage, ns, changed, out, status, validated, left, result, verdict>>

\* An assignment to the dict of builtins, or to an attribute of a library.
Redefine(x) ==
    /\ stage = "user"
    /\ changed' = changed \cup {x}
    /\ UNCHANGED <<kind, stage, ns, shadowed, out, status, validated, left, result, verdict>>

\* Learner code runs: the program, or a method of a value that it has bound.
Running == stage \in {"user", "validation"}

PrintText(char) ==
    /\ Running
    /\ Len(out) < MaxPrints
    /\ out' = Append(out, char)
    /\ UNCHANGED <<names, stage, status, validated, left, result, verdict>>

\* The interpreter ends, and with it the child.
Exit(code) == /\ stage' = "exited"
              /\ status' = code

\* An exception or a resource limit, or the learner's own exit with any status.
UserStops(code) ==
    /\ Running
    /\ Exit(code)
    /\ left' = TRUE
    /\ UNCHANGED <<names, out, validated, result, verdict>>

\* In _build_wrapper_code nothing follows the learner's code.
ExecuteEnds ==
    /\ kind = "execute"
    /\ stage = "user"
    /\ Exit("zero")
    /\ UNCHANGED <<names, out, validated, left, result, verdict>>

\* (mutant) The names of builtins stay as the learner bound them.
Unshadowed_Kept == shadowed

\* Names of builtins are deleted from the namespace.
Unshadowed == shadowed \ Builtins

\* The validation code gets a dict of builtins of its own; the libraries are
\* those that the learner's program has used.
Pristine == changed \ Builtins

\* _build_judge_wrapper_code between the two calls of exec.
EnterValidation ==
    /\ kind = "judge"
    /\ stage = "user"
    /\ stage' = "validation"
    /\ shadowed' = Unshadowed
    /\ changed' = Pristine
    /\ UNCHANGED <<kind, ns, out, status, validated, left, result, verdict>>

\* What the name of a builtin means to the validation code.
Genuine(b) == b \notin shadowed \cup changed

\* A learner's any, or a redefined library, may say anything.
AssertionsHold == \/ \A v \in Vars : ns[v] = "right"
                  \/ ~Genuine("any")
                  \/ "library" \in changed

\* The validation code runs to its end; a learner's print prints nothing.
Validate ==
    /\ stage = "validation"
    /\ AssertionsHold
    /\ out' = IF Genuine("print") THEN Append(out, Marker) ELSE out
    /\ validated' = TRUE
    /\ Exit("zero")
    /\ UNCHANGED <<names, left, result, verdict>>

\* An assertion fails, a name is not bound, or a resource limit strikes.
ValidationStops ==
    /\ stage = "validation"
    /\ Exit("nonzero")
    /\ UNCHANGED <<names, out, validated, left, result, verdict>>
-----------------------------------------------------------------------------
(***************************************************************************)
(* The server: _run_sandboxed and validate_submission.                     *)
(***************************************************************************)
Bytes(text) == Len(text) + 2 * Cardinality({i \in DOMAIN text : text[i] = Wide})

TooLong(text) == Bytes(text) > MaxOutput

\* (mutant) Only measured, not cut.
Kept_Whole(text) == text

\* stdout[:MAX_OUTPUT_BYTES] counts characters.
Kept(text) == IF Len(text) > MaxOutput THEN SubSeq(text, 1, MaxOutput) ELSE text

Truncated(text) == IF TooLong(text) THEN Append(Kept(text), Notice) ELSE text

Collect ==
    /\ stage = "exited"
    /\ stage' = "collected"
    /\ result' = [success |-> status = "zero",
                  stdout |-> Truncated(out),
                  truncated |-> TooLong(out)]
    /\ UNCHANGED <<child, verdict>>

\* TimeoutExpired at any point: no output is returned.
TimeOut ==
    /\ Running
    /\ stage' = "collected"
    /\ status' = "nonzero"
    /\ result' = NoResult
    /\ UNCHANGED <<names, out, validated, left, verdict>>

\* (mutant) Truncated output is not searched.
Passes_Untruncated(run) == run.success /\ ~run.truncated /\ Contains(run.stdout, Marker)

Passes(run) == run.success /\ Contains(run.stdout, Marker)

\* validate_submission after execute_judge.
Judge ==
    /\ kind = "judge"
    /\ stage = "collected"
    /\ stage' = "judged"
    /\ verdict' = IF Passes(result) THEN "passed" ELSE "failed"
    /\ UNCHANGED <<child, result>>

\* The response has been sent.
Done == /\ \/ stage = "judged"
           \/ kind = "execute" /\ stage = "collected"
        /\ UNCHANGED vars

Next == \/ \E v \in Vars, value \in Values : Bind(v, value)
        \/ \E b \in Builtins : Shadow(b)
        \/ \E x \in Redefinable : Redefine(x)
        \/ \E char \in Chars : PrintText(char)
        \/ \E code \in {"zero", "nonzero"} : UserStops(code)
        \/ ExecuteEnds \/ EnterValidation \/ Validate \/ ValidationStops
        \/ TimeOut \/ Collect \/ Judge \/ Done

Spec == Init /\ [][Next]_vars
-----------------------------------------------------------------------------
\* The state's shape; the flag of a truncated result and the notice in its
\* output go together.
TypeOK ==
    /\ kind \in {"execute", "judge"}
    /\ stage \in {"user", "validation", "exited", "collected", "judged"}
    /\ ns \in [Vars -> Values]
    /\ shadowed \subseteq Builtins
    /\ changed \subseteq Redefinable
    /\ out \in Seq(Chars)
    /\ status \in {"none", "zero", "nonzero"}
    /\ validated \in BOOLEAN
    /\ left \in BOOLEAN
    /\ result \in [success : BOOLEAN, stdout : Seq(Chars \cup {Notice}), truncated : BOOLEAN]
    /\ result.truncated <=> Contains(result.stdout, Notice)
    /\ verdict \in {"none", "passed", "failed"}

\* The learner's code has printed the marker's word itself and then ended the run
\* with status 0, so that the validation code has not run to its end.
Forestalled == left /\ status = "zero" /\ Contains(out, Marker)

\* A submission that leaves the libraries alone and lets the validation code run
\* is passed only if its values are right, whatever builtins it redefines in its
\* namespace or in its dict of builtins and whatever it prints.
PassedMeansRight ==
    (verdict = "passed" /\ ~Forestalled /\ "library" \notin changed)
        => \A v \in Vars : ns[v] = "right"

\* The verdict is that of the validation code: a submission that does not
\* forestall it is passed only if it ran to its end, and refused although it did
\* only when the output has more characters than are kept, so that the marker is
\* behind the cut.
VerdictIsExact ==
    /\ verdict = "passed" => validated \/ Forestalled
    /\ verdict = "failed" /\ validated => Len(out) > MaxOutput

\* What services/judge.py:22 says: "The validation_code can access variables
\* defined by the user's code (e.g. circuit, q) and uses assertions to verify
\* correctness", and tests/test_judge.py:253 of printing "PASSED": "it should not
\* bypass actual validation".  A pass comes from validation code that was run.
PassedIsValidated == verdict = "passed" => validated

\* The limit is measured in bytes and applied to characters.  What a response
\* carries is bounded all the same: never more characters than the limit, and
\* the notice when the output was longer in bytes.
OutputIsBounded ==
    Len(result.stdout) =< MaxOutput + (IF result.truncated THEN 1 ELSE 0)
=============================================================================
