-------------------------- MODULE JudgeSessionProofs --------------------------
(***************************************************************************)
(* The verdict is right for any validation code, any limit and any output. *)
(*                                                                         *)
(* The child leaves nothing behind but its output and its exit status, so  *)
(* the invariant says what these two tell of the run: with status 0, a     *)
(* marker in the output comes from a validation that ran to its end and    *)
(* found everything right, unless the learner's code has ended the run     *)
(* (ZeroIsHonest), and such a validation has                               *)
(* written its marker (ValidatedIsMarked).  The server's part adds that    *)
(* the result is made from them and nothing else (ResultIsOfRun).          *)
(***************************************************************************)
EXTENDS JudgeSession, SequenceTheorems, FiniteSetTheorems, TLAPS

AllRight == \A v \in Vars : ns[v] = "right"

\* What an end of the validation code tells.
Sound == AllRight \/ "library" \in changed

\* While validation code runs, every name of a builtin means the builtin.
CleanNamespace ==
    stage = "validation" => kind = "judge" /\ \A b \in Builtins : Genuine(b)

ZeroIsHonest == kind = "judge" /\ status = "zero" /\ Contains(out, Marker)
                    => left \/ (validated /\ Sound)

ValidatedIsMarked == validated => status = "zero" /\ Contains(out, Marker)

\* The child has a status from the moment it has ended.
StatusIsKnown == status = "none" <=> stage \in {"user", "validation"}

\* The result is that of the run, or nothing if the run timed out.
ResultIsOfRun ==
    \/ /\ stage \in {"collected", "judged"}
       /\ status = "zero"
       /\ result.success
       /\ result.stdout = Truncated(out)
    \/ /\ ~result.success
       /\ stage \in {"collected", "judged"} => status # "zero"

VerdictIsOfResult ==
    /\ verdict = "passed" => kind = "judge" /\ stage = "judged" /\ Passes(result)
    /\ verdict = "failed" => stage = "judged" /\ ~Passes(result)

IInv == /\ TypeOK
        /\ CleanNamespace
        /\ ZeroIsHonest
        /\ ValidatedIsMarked
        /\ StatusIsKnown
        /\ ResultIsOfRun
        /\ VerdictIsOfResult
-----------------------------------------------------------------------------
\* The four kinds of characters are different.
LEMMA CharsDiffer == Notice \notin Chars
BY DEF Notice, Chars, Narrow, Wide, Marker

LEMMA ContainsAppend ==
  ASSUME NEW S, NEW text \in Seq(S), NEW last \in S, NEW char
  PROVE  Contains(Append(text, last), char) <=> Contains(text, char) \/ last = char
<1>1. /\ DOMAIN text = 1 .. Len(text)
      /\ DOMAIN Append(text, last) = 1 .. (Len(text) + 1)
      /\ Len(text) \in Nat
  BY AppendProperties, LenProperties
<1>2. /\ \A i \in 1 .. Len(text) : Append(text, last)[i] = text[i]
      /\ Append(text, last)[Len(text) + 1] = last
  BY AppendProperties
<1>3. \A i \in 1 .. (Len(text) + 1) : i \in 1 .. Len(text) \/ i = Len(text) + 1
  BY <1>1
<1>4. 1 .. Len(text) \subseteq 1 .. (Len(text) + 1) /\ Len(text) + 1 \in 1 .. (Len(text) + 1)
  BY <1>1
<1> QED BY <1>1, <1>2, <1>3, <1>4, Zenon DEF Contains

LEMMA KeptProperties ==
  ASSUME NEW text \in Seq(Chars)
  PROVE  /\ Kept(text) \in Seq(Chars)
         /\ \A char : Contains(Kept(text), char) => Contains(text, char)
         /\ Len(text) =< MaxOutput => Kept(text) = text
<1>1. CASE Len(text) > MaxOutput
  <2>1. Kept(text) = SubSeq(text, 1, MaxOutput)
    BY <1>1 DEF Kept
  <2>2. Len(text) \in Nat /\ MaxOutput \in Nat /\ MaxOutput < Len(text)
    BY <1>1, LenProperties, SessionAssumption
  <2>3. DOMAIN text = 1 .. Len(text) /\ 1 .. MaxOutput \subseteq 1 .. Len(text)
    BY <2>2, LenProperties
  <2>4. \A i \in 1 .. MaxOutput : text[i] \in Chars
    BY <2>3, ElementOfSeq
  <2>5. /\ SubSeq(text, 1, MaxOutput) \in Seq(Chars)
        /\ Len(SubSeq(text, 1, MaxOutput)) = (IF 1 =< MaxOutput THEN MaxOutput - 1 + 1 ELSE 0)
        /\ \A i \in 1 .. MaxOutput - 1 + 1 : SubSeq(text, 1, MaxOutput)[i] = text[1 + i - 1]
    BY <2>2, <2>4, SubSeqProperties
  <2>6. /\ DOMAIN SubSeq(text, 1, MaxOutput) = 1 .. MaxOutput
        /\ \A i \in 1 .. MaxOutput : SubSeq(text, 1, MaxOutput)[i] = text[i]
    BY <2>2, <2>5, LenProperties
  <2>7. \A char : Contains(Kept(text), char) => Contains(text, char)
    BY <2>1, <2>3, <2>6 DEF Contains
  <2> QED BY <2>1, <2>2, <2>5, <2>7
<1>2. CASE ~(Len(text) > MaxOutput)
  BY <1>2 DEF Kept
<1> QED BY <1>1, <1>2

\* What _run_sandboxed returns holds no marker that the child has not printed,
\* all of it if it is short enough, and the notice exactly if it was too long.
LEMMA TruncatedProperties ==
  ASSUME NEW text \in Seq(Chars)
  PROVE  /\ Truncated(text) \in Seq(Chars \cup {Notice})
         /\ TooLong(text) <=> Contains(Truncated(text), Notice)
         /\ Contains(Truncated(text), Marker) => Contains(text, Marker)
         /\ Len(text) =< MaxOutput /\ Contains(text, Marker)
              => Contains(Truncated(text), Marker)
<1>1. text \in Seq(Chars \cup {Notice}) /\ Kept(text) \in Seq(Chars \cup {Notice})
  BY KeptProperties, SeqMonotonic
<1>2. Marker # Notice
  BY DEF Marker, Notice
<1>3. ~Contains(text, Notice)
  BY ElementOfSeq, LenProperties, CharsDiffer DEF Contains
<1>4. CASE TooLong(text)
  <2>1. Truncated(text) = Append(Kept(text), Notice)
    BY <1>4 DEF Truncated
  <2>2. Append(Kept(text), Notice) \in Seq(Chars \cup {Notice})
    BY <1>1, AppendProperties
  <2>3. \A char : Contains(Append(Kept(text), Notice), char)
                    <=> Contains(Kept(text), char) \/ Notice = char
    BY <1>1, ContainsAppend
  <2> QED BY <1>2, <1>4, <2>1, <2>2, <2>3, KeptProperties
<1>5. CASE ~TooLong(text)
  <2>1. Truncated(text) = text
    BY <1>5 DEF Truncated
  <2> QED BY <1>1, <1>3, <1>5, <2>1
<1> QED BY <1>4, <1>5
-----------------------------------------------------------------------------
LEMMA InitInv == Init => IInv
<1> SUFFICES ASSUME Init PROVE IInv
  OBVIOUS
<1> USE DEF Init
<1>1. DOMAIN out = {} /\ DOMAIN NoResult.stdout = {}
  BY EmptySeq, LenProperties DEF NoResult
<1>2. TypeOK
  BY <1>1, EmptySeq DEF TypeOK, NoResult, Values, Contains
<1>3. CleanNamespace /\ ZeroIsHonest /\ ValidatedIsMarked /\ StatusIsKnown
  BY DEF CleanNamespace, ZeroIsHonest, ValidatedIsMarked, StatusIsKnown
<1>4. ResultIsOfRun /\ VerdictIsOfResult
  BY DEF ResultIsOfRun, VerdictIsOfResult, NoResult
<1> QED BY <1>2, <1>3, <1>4 DEF IInv

\* The learner's own steps: the run has no status, no result and no verdict yet.
LEMMA UserSteps ==
  ASSUME IInv,
         \/ \E v \in Vars, value \in Values : Bind(v, value)
         \/ \E b \in Builtins : Shadow(b)
         \/ \E x \in Redefinable : Redefine(x)
         \/ \E char \in Chars : PrintText(char)
  PROVE  IInv'
<1> USE DEF IInv
<1>1. Running /\ UNCHANGED <<kind, stage, status, validated, left, result, verdict>>
  BY DEF Bind, Shadow, Redefine, PrintText, Running, names
<1>2. /\ ns' \in [Vars -> Values] /\ out' \in Seq(Chars)
      /\ shadowed' \subseteq Builtins /\ changed' \subseteq Redefinable
  <2>1. CASE \E v \in Vars, value \in Values : Bind(v, value)
    BY <2>1 DEF TypeOK, Bind
  <2>2. CASE \E b \in Builtins : Shadow(b)
    BY <2>2 DEF TypeOK, Shadow
  <2>3. CASE \E x \in Redefinable : Redefine(x)
    BY <2>3 DEF TypeOK, Redefine
  <2>4. CASE \E char \in Chars : PrintText(char)
    BY <2>4, AppendProperties DEF TypeOK, PrintText, names
  <2> QED BY <2>1, <2>2, <2>3, <2>4
<1>3. status = "none" /\ ~validated
  BY <1>1 DEF StatusIsKnown, ValidatedIsMarked, Running
<1>4. TypeOK'
  BY <1>1, <1>2 DEF TypeOK
<1>5. CleanNamespace' /\ ZeroIsHonest' /\ ValidatedIsMarked' /\ StatusIsKnown'
  <2>1. CleanNamespace'
    <3>1. CASE stage = "user"
      BY <1>1, <3>1 DEF CleanNamespace
    <3>2. CASE stage # "user"
      BY <1>1, <3>2 DEF Bind, Shadow, Redefine, PrintText, names, CleanNamespace, Genuine
    <3> QED BY <3>1, <3>2
  <2> QED BY <1>1, <1>3, <2>1 DEF ZeroIsHonest, ValidatedIsMarked, StatusIsKnown
<1>6. ResultIsOfRun' /\ VerdictIsOfResult'
  BY <1>1 DEF ResultIsOfRun, VerdictIsOfResult, Passes, Running
<1> QED BY <1>4, <1>5, <1>6

\* The child goes on or ends, before there is a result.
LEMMA ChildSteps ==
  ASSUME IInv,
         \/ \E code \in {"zero", "nonzero"} : UserStops(code)
         \/ ExecuteEnds \/ EnterValidation \/ Validate \/ ValidationStops
  PROVE  IInv'
<1> USE DEF IInv, Exit
<1>1. /\ Running
      /\ stage' \in {"validation", "exited"}
      /\ UNCHANGED <<kind, ns, result, verdict>>
  BY DEF Running, UserStops, ExecuteEnds, EnterValidation, Validate, ValidationStops, names
<1>2. status = "none" /\ ~validated
  BY <1>1 DEF StatusIsKnown, ValidatedIsMarked, Running
<1>3. ResultIsOfRun' /\ VerdictIsOfResult'
  BY <1>1 DEF ResultIsOfRun, VerdictIsOfResult, Running
<1>4. CASE \E code \in {"zero", "nonzero"} : UserStops(code)
  BY <1>1, <1>2, <1>3, <1>4
  DEF UserStops, names, TypeOK, CleanNamespace, ZeroIsHonest, ValidatedIsMarked, StatusIsKnown
<1>5. CASE ExecuteEnds
  BY <1>1, <1>2, <1>3, <1>5
  DEF ExecuteEnds, names, TypeOK, CleanNamespace, ZeroIsHonest, ValidatedIsMarked, StatusIsKnown
<1>6. CASE EnterValidation
  <2>1. /\ shadowed' = {} /\ changed' = changed \ Builtins
        /\ kind' = "judge" /\ stage' = "validation"
        /\ UNCHANGED <<out, status, validated, left>>
    BY <1>6 DEF EnterValidation, Unshadowed, Pristine, TypeOK
  <2>2. CleanNamespace'
    BY <2>1 DEF CleanNamespace, Genuine
  <2>3. ZeroIsHonest' /\ ValidatedIsMarked' /\ StatusIsKnown'
    BY <1>2, <2>1 DEF ZeroIsHonest, ValidatedIsMarked, StatusIsKnown
  <2>4. TypeOK'
    BY <1>1, <2>1 DEF TypeOK
  <2> QED BY <1>3, <2>2, <2>3, <2>4
<1>7. CASE Validate
  <2>1. Genuine("any") /\ Genuine("print")
    BY <1>7 DEF Validate, CleanNamespace, Builtins
  <2>2. Sound
    BY <1>7, <2>1 DEF Validate, AssertionsHold, Sound, AllRight
  <2>3. /\ out' = Append(out, Marker) /\ UNCHANGED <<names, left>>
        /\ status' = "zero" /\ stage' = "exited" /\ validated'
    BY <1>7, <2>1 DEF Validate
  <2>4. out' \in Seq(Chars) /\ Contains(out, Marker)'
    BY <2>3, AppendProperties, ContainsAppend DEF TypeOK, Chars
  <2>5. Sound'
    BY <2>2, <2>3 DEF Sound, AllRight, names
  <2>6. TypeOK'
    BY <1>1, <1>7, <2>3, <2>4 DEF Validate, TypeOK, names
  <2>7. CleanNamespace' /\ ZeroIsHonest' /\ ValidatedIsMarked' /\ StatusIsKnown'
    BY <2>3, <2>4, <2>5 DEF CleanNamespace, ZeroIsHonest, ValidatedIsMarked, StatusIsKnown
  <2> QED BY <1>3, <2>6, <2>7
<1>8. CASE ValidationStops
  BY <1>1, <1>2, <1>3, <1>8
  DEF ValidationStops, names, TypeOK, CleanNamespace, ZeroIsHonest, ValidatedIsMarked, StatusIsKnown
<1> QED BY <1>4, <1>5, <1>6, <1>7, <1>8

\* The server's steps, and the response standing still.
LEMMA ServerSteps ==
  ASSUME IInv, TimeOut \/ Collect \/ Judge \/ UNCHANGED vars
  PROVE  IInv'
<1> USE DEF IInv
<1>1. CASE TimeOut
  <2>1. status = "none" /\ ~validated /\ verdict \notin {"passed", "failed"}
    BY <1>1 DEF TimeOut, Running, StatusIsKnown, ValidatedIsMarked, VerdictIsOfResult
  <2>2. DOMAIN NoResult.stdout = {} /\ NoResult.stdout \in Seq(Chars \cup {Notice})
    BY EmptySeq, LenProperties DEF NoResult
  <2>3. TypeOK'
    BY <1>1, <2>2 DEF TimeOut, names, TypeOK, NoResult, Contains
  <2>4. ResultIsOfRun' /\ VerdictIsOfResult'
    BY <1>1, <2>1 DEF TimeOut, Running, names, ResultIsOfRun, VerdictIsOfResult, NoResult
  <2> QED
    BY <1>1, <2>1, <2>3, <2>4
    DEF TimeOut, names, CleanNamespace, ZeroIsHonest, ValidatedIsMarked, StatusIsKnown
<1>2. CASE Collect
  <2>1. /\ stage = "exited" /\ stage' = "collected"
        /\ UNCHANGED <<kind, ns, shadowed, changed, out, status, validated, left, verdict>>
        /\ result' = [success |-> status = "zero", stdout |-> Truncated(out),
                      truncated |-> TooLong(out)]
    BY <1>2 DEF Collect, child, names
  <2>2. verdict \notin {"passed", "failed"}
    BY <2>1 DEF VerdictIsOfResult
  <2>3. /\ Truncated(out) \in Seq(Chars \cup {Notice})
        /\ TooLong(out) <=> Contains(Truncated(out), Notice)
        /\ TooLong(out) \in BOOLEAN
    BY TruncatedProperties DEF TypeOK, TooLong
  <2>4. /\ result' \in [success : BOOLEAN, stdout : Seq(Chars \cup {Notice}), truncated : BOOLEAN]
        /\ result'.truncated <=> Contains(result'.stdout, Notice)
    BY <2>1, <2>3
  <2>5. TypeOK'
    BY <2>1, <2>4 DEF TypeOK
  <2>6. ResultIsOfRun' /\ VerdictIsOfResult'
    BY <2>1, <2>2 DEF ResultIsOfRun, VerdictIsOfResult
  <2> QED
    BY <2>1, <2>5, <2>6
    DEF CleanNamespace, ZeroIsHonest, ValidatedIsMarked, StatusIsKnown, Sound, AllRight
<1>3. CASE Judge
  <2>1. /\ kind = "judge" /\ stage = "collected" /\ stage' = "judged"
        /\ UNCHANGED <<kind, ns, shadowed, changed, out, status, validated, left, result>>
        /\ verdict' = IF Passes(result) THEN "passed" ELSE "failed"
    BY <1>3 DEF Judge, child, names
  <2>2. Passes(result)' <=> Passes(result)
    BY <2>1 DEF Passes
  <2>3. TypeOK' /\ ResultIsOfRun' /\ VerdictIsOfResult'
    BY <2>1, <2>2 DEF TypeOK, ResultIsOfRun, VerdictIsOfResult
  <2> QED
    BY <2>1, <2>3
    DEF CleanNamespace, ZeroIsHonest, ValidatedIsMarked, StatusIsKnown, Sound, AllRight
<1>4. CASE UNCHANGED vars
  BY <1>4
  DEF vars, child, names, TypeOK, CleanNamespace, ZeroIsHonest, ValidatedIsMarked, StatusIsKnown,
      ResultIsOfRun, VerdictIsOfResult, Sound, AllRight, Genuine, Passes
<1> QED BY <1>1, <1>2, <1>3, <1>4

LEMMA NextInv == IInv /\ [Next]_vars => IInv'
BY UserSteps, ChildSteps, ServerSteps DEF Next, Done

THEOREM Invariance == Spec => []IInv
BY InitInv, NextInv, PTL DEF Spec
-----------------------------------------------------------------------------
\* The state keeps its shape, for any names to check and any limit.
THEOREM TypeCorrect == Spec => []TypeOK
<1>1. IInv => TypeOK
  BY DEF IInv
<1> QED BY <1>1, Invariance, PTL

\* A pass rests on a marker in the output of a run with status 0.
LEMMA PassedRun ==
  ASSUME IInv, verdict = "passed"
  PROVE  kind = "judge" /\ status = "zero" /\ Contains(out, Marker)
<1>1. kind = "judge" /\ result.success /\ Contains(result.stdout, Marker)
  BY DEF IInv, VerdictIsOfResult, Passes
<1>2. status = "zero" /\ result.stdout = Truncated(out)
  BY <1>1 DEF IInv, ResultIsOfRun
<1> QED BY <1>1, <1>2, TruncatedProperties DEF IInv, TypeOK

\* "Correct! Well done!" is only said of a submission whose values are right,
\* if it lets the validation code run and leaves the libraries alone.
THEOREM PassedIsRight == Spec => []PassedMeansRight
<1>1. IInv => PassedMeansRight
  BY PassedRun DEF IInv, ZeroIsHonest, Sound, AllRight, Forestalled, PassedMeansRight
<1> QED BY <1>1, Invariance, PTL

\* Unless the learner's code forestalls it, the verdict is passed if and only if
\* the validation ran to its end, or the output reaches beyond the cut.
THEOREM VerdictExact == Spec => []VerdictIsExact
<1>1. IInv => VerdictIsExact
  <2> SUFFICES ASSUME IInv PROVE VerdictIsExact
    OBVIOUS
  <2>1. ASSUME verdict = "passed" PROVE validated \/ Forestalled
    BY <2>1, PassedRun DEF IInv, ZeroIsHonest, Forestalled
  <2>2. ASSUME verdict = "failed", validated PROVE Len(out) > MaxOutput
    <3>1. stage = "judged" /\ ~Passes(result) /\ status = "zero" /\ Contains(out, Marker)
      BY <2>2 DEF IInv, VerdictIsOfResult, ValidatedIsMarked
    <3>2. result.success /\ result.stdout = Truncated(out)
      BY <3>1 DEF IInv, ResultIsOfRun
    <3>3. ~Contains(Truncated(out), Marker)
      BY <3>1, <3>2 DEF Passes
    <3>4. ~(Len(out) =< MaxOutput)
      BY <3>1, <3>3, TruncatedProperties DEF IInv, TypeOK
    <3>5. Len(out) \in Nat
      BY LenProperties DEF IInv, TypeOK
    <3> QED BY <3>4, <3>5, SessionAssumption
  <2> QED BY <2>1, <2>2 DEF VerdictIsExact
<1> QED BY <1>1, Invariance, PTL

LEMMA TruncatedLength ==
  ASSUME NEW text \in Seq(Chars)
  PROVE  Len(Truncated(text)) =< MaxOutput + (IF TooLong(text) THEN 1 ELSE 0)
<1>1. Len(text) \in Nat /\ MaxOutput \in Nat
  BY LenProperties, SessionAssumption
<1>2. CASE TooLong(text)
  <2>1. Kept(text) \in Seq(Chars) /\ Len(Kept(text)) =< MaxOutput
    <3>1. CASE Len(text) > MaxOutput
      <4>1. \A i \in 1 .. MaxOutput : text[i] \in Chars
        BY <1>1, <3>1, ElementOfSeq, LenProperties
      <4>2. Len(SubSeq(text, 1, MaxOutput)) = (IF 1 =< MaxOutput THEN MaxOutput - 1 + 1 ELSE 0)
        BY <1>1, <4>1, SubSeqProperties
      <4>3. Len(SubSeq(text, 1, MaxOutput)) =< MaxOutput
        BY <1>1, <4>2
      <4> QED BY <3>1, <4>3, KeptProperties DEF Kept
    <3>2. CASE ~(Len(text) > MaxOutput)
      BY <1>1, <3>2, KeptProperties DEF Kept
    <3> QED BY <3>1, <3>2
  <2>2. Len(Append(Kept(text), Notice)) = Len(Kept(text)) + 1
    <3>1. Kept(text) \in Seq(Chars \cup {Notice})
      BY <2>1, SeqMonotonic
    <3> QED BY <3>1, AppendProperties
  <2>3. Len(Kept(text)) \in Nat
    BY <2>1, LenProperties
  <2> QED BY <1>1, <1>2, <2>1, <2>2, <2>3 DEF Truncated
<1>3. CASE ~TooLong(text)
  <2> DEFINE wide == {i \in DOMAIN text : text[i] = Wide}
  <2>1. Cardinality(wide) \in Nat
    <3>1. IsFiniteSet(1 .. Len(text))
      BY <1>1, FS_Interval
    <3>2. wide \subseteq 1 .. Len(text)
      BY LenProperties
    <3> QED BY <3>1, <3>2, FS_Subset, FS_CardinalityType
  <2>2. ~(Len(text) + 2 * Cardinality(wide) > MaxOutput)
    BY <1>3 DEF TooLong, Bytes
  <2> HIDE DEF wide
  <2>3. Len(text) =< MaxOutput
    BY <1>1, <2>1, <2>2
  <2> QED BY <1>1, <1>3, <2>3 DEF Truncated
<1> QED BY <1>2, <1>3

\* What a response carries is bounded, although the limit is measured in bytes
\* and applied to characters.
THEOREM BoundedOutput == Spec => []OutputIsBounded
<1>1. Init => OutputIsBounded
  BY EmptySeq, SessionAssumption DEF Init, NoResult, OutputIsBounded
<1>2. IInv /\ OutputIsBounded /\ [Next]_vars => OutputIsBounded'
  <2> SUFFICES ASSUME IInv, OutputIsBounded, [Next]_vars PROVE OutputIsBounded'
    OBVIOUS
  <2>1. CASE UNCHANGED result
    BY <2>1 DEF OutputIsBounded
  <2>2. CASE Collect
    <3>1. result'.stdout = Truncated(out) /\ (result'.truncated <=> TooLong(out))
      BY <2>2 DEF Collect
    <3>2. out \in Seq(Chars)
      BY DEF IInv, TypeOK
    <3> QED BY <3>1, <3>2, TruncatedLength DEF OutputIsBounded
  <2>3. CASE TimeOut
    <3>1. result' = NoResult
      BY <2>3 DEF TimeOut
    <3> QED BY <3>1, EmptySeq, SessionAssumption DEF OutputIsBounded, NoResult
  <2> QED
    BY <2>1, <2>2, <2>3
    DEF Next, vars, Bind, Shadow, Redefine, PrintText, UserStops, ExecuteEnds, EnterValidation,
        Validate, ValidationStops, Judge, Done, child
<1> QED BY <1>1, <1>2, Invariance, PTL DEF Spec
=============================================================================
