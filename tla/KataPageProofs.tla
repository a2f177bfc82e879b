---------------------------- MODULE KataPageProofs ----------------------------
(***************************************************************************)
(* Safety of KataPage for any catalogue, any texts and any number of       *)
(* requests in flight.                                                     *)
(*                                                                         *)
(* The invariant has five parts, each about a part of the state, and each  *)
(* part is kept given those before it: what the page shows, what is in     *)
(* flight, the results, the spinners, and the recorded completions.        *)
(***************************************************************************)
EXTENDS KataPage, TLAPS

Shape == /\ route \in Katas \cup {Home}
         /\ cached \subseteq Katas
         /\ loading \subseteq Katas \ cached
         /\ code \in Texts \cup {None}
         /\ code # None => Ready
         /\ shortcut \in Katas \cup {None}
         /\ shortcut # None <=> Ready

InFlight == requests \in [Slots -> ExecuteRequest \cup ValidateRequest \cup {None}]

ResultsType == /\ validationResult \in [kata : Katas, passed : BOOLEAN] \cup {None}
               /\ executionResult \in [kata : Katas] \cup {None}
               /\ isValidating \in BOOLEAN
               /\ isExecuting \in BOOLEAN

Recorded == /\ stored \subseteq Katas
            /\ snapshot \subseteq stored
            /\ PassedIsRecorded

IInv == Shape /\ InFlight /\ ResultsType /\ SpinnerIsBacked /\ Recorded

LEMMA Parts == IInv <=> TypeOK /\ SpinnerIsBacked /\ PassedIsRecorded /\ ShownProgressIsStored
BY DEF IInv, Shape, InFlight, ResultsType, Recorded, TypeOK, ShownProgressIsStored

LEMMA InitInv == Init => IInv
BY PageAssumption
DEF Init, IInv, Shape, InFlight, ResultsType, Recorded, SpinnerIsBacked, PassedIsRecorded, Ready
-----------------------------------------------------------------------------
\* An answer is to a run or to a submission, of a slot that was taken.
LEMMA SettlesCases ==
  ASSUME NEW s \in Slots, Settles(s)
  PROVE  \/ ExecuteSettles(s)
         \/ \E passed \in BOOLEAN : ValidateSettles(s, passed)
BY DEF Settles, NotPassed, Passed, PassedButNotStored

LEMMA RequestsDiffer ==
  /\ ExecuteRequest \cap ValidateRequest = {}
  /\ None \notin ExecuteRequest /\ None \notin ValidateRequest
BY PageAssumption DEF ExecuteRequest, ValidateRequest
-----------------------------------------------------------------------------
(***************************************************************************)
(* The editor is there exactly while a detail is shown.                    *)
(***************************************************************************)
LEMMA ShapeNext == Shape /\ [Next]_vars => Shape'
<1> SUFFICES ASSUME Shape, [Next]_vars PROVE Shape'
  OBVIOUS
<1> USE DEF Shape, Ready
<1>0. None \notin Katas /\ Home \notin Katas /\ Home \notin cached /\ None \notin Texts
  BY PageAssumption DEF Texts
<1>1. CASE UNCHANGED <<route, queries, code, shortcut>>
  BY <1>1 DEF queries
<1>2. ASSUME NEW k \in Katas, Navigate(k) PROVE Shape'
  BY <1>0, <1>2 DEF Navigate, Fetch, ResetEffect, ResetStates, MountEditor
<1>3. CASE GoHome
  BY <1>0, <1>3 DEF GoHome, DropPage, ResetStates, queries
<1>4. CASE Reload
  BY <1>0, <1>4 DEF Reload, DropPage, ResetStates
<1>5. ASSUME NEW k \in Katas, LoadSucceeds(k) PROVE Shape'
  BY <1>0, <1>5 DEF LoadSucceeds, MountEditor
<1>6. ASSUME NEW k \in Katas, LoadFails(k) PROVE Shape'
  BY <1>6 DEF LoadFails, page
<1>7. ASSUME NEW k \in Katas, Evict(k) PROVE Shape'
  BY <1>7 DEF Evict, page
<1>8. ASSUME NEW text \in Edits, Edit(text) PROVE Shape'
  BY <1>0, <1>8 DEF Edit, Texts, queries
<1>9. CASE Reset
  BY <1>0, <1>9 DEF Reset, Texts, queries
<1>10. CASE \E s \in Slots : ExecuteButton(s) \/ ExecuteShortcut(s) \/ HandleValidate(s)
  BY <1>1, <1>10 DEF ExecuteButton, ExecuteShortcut, HandleExecute, HandleValidate
<1>11. CASE \E s \in Slots : Settles(s)
  BY <1>1, <1>11, SettlesCases DEF ExecuteSettles, ValidateSettles
<1> QED
  BY <1>1, <1>2, <1>3, <1>4, <1>5, <1>6, <1>7, <1>8, <1>9, <1>10, <1>11
  DEF Next, OtherTabCompletes, page, vars

(***************************************************************************)
(* What is in flight.                                                      *)
(***************************************************************************)
LEMMA AbandonedType ==
  ASSUME NEW request
  PROVE  /\ Abandoned(request) \in ValidateRequest \cup {None}
         /\ Abandoned(request) \in ValidateRequest => ~Abandoned(request).mounted
BY PageAssumption DEF Abandoned, ValidateRequest

LEMMA ExecuteSends ==
  ASSUME Shape, NEW s \in Slots, ExecuteButton(s) \/ ExecuteShortcut(s)
  PROVE  /\ \E request \in ExecuteRequest : Send(s, request)
         /\ isExecuting' = TRUE /\ validationResult' = None
         /\ UNCHANGED <<route, isValidating, progress>>
<1>1. PICK text \in {DisplayedCode, shortcut} : HandleExecute(s, text)
  BY DEF ExecuteButton, ExecuteShortcut
<1>2. route \in Katas /\ text \in Texts
  BY <1>1, PageAssumption DEF HandleExecute, DisplayedCode, Ready, Shape, Texts
<1>3. [kind |-> "execute", kata |-> route, text |-> text] \in ExecuteRequest
  BY <1>2 DEF ExecuteRequest
<1> QED BY <1>1, <1>3 DEF HandleExecute

LEMMA ValidateSends ==
  ASSUME Shape, NEW s \in Slots, HandleValidate(s)
  PROVE  /\ \E request \in ValidateRequest :
               Send(s, request) /\ request.mounted /\ request.kata = route
         /\ ~isExecuting /\ isValidating' = TRUE
         /\ UNCHANGED <<route, isExecuting, validationResult, progress>>
<1> DEFINE request == [kind |-> "validate", kata |-> route, mounted |-> TRUE]
<1>1. request \in ValidateRequest /\ request.mounted /\ request.kata = route
  BY DEF HandleValidate, Ready, Shape, ValidateRequest
<1>2. Send(s, request)
  BY DEF HandleValidate
<1> HIDE DEF request
<1>3. /\ ~isExecuting /\ isValidating' = TRUE
      /\ UNCHANGED <<route, isExecuting, validationResult, progress>>
  BY DEF HandleValidate, Busy
<1> QED BY <1>1, <1>2, <1>3

LEMMA InFlightNext == Shape /\ InFlight /\ [Next]_vars => InFlight'
<1> SUFFICES ASSUME Shape, InFlight, [Next]_vars PROVE InFlight'
  OBVIOUS
<1>1. CASE UNCHANGED requests
  BY <1>1 DEF InFlight
<1>2. CASE GoHome
  BY <1>2, AbandonedType DEF GoHome, InFlight
<1>3. CASE Reload
  BY <1>3 DEF Reload, InFlight
<1>4. CASE \E s \in Slots : ExecuteButton(s) \/ ExecuteShortcut(s)
  BY <1>4, ExecuteSends DEF Send, InFlight
<1>5. CASE \E s \in Slots : HandleValidate(s)
  BY <1>5, ValidateSends DEF Send, InFlight
<1>6. CASE \E s \in Slots : Settles(s)
  BY <1>6, SettlesCases DEF ExecuteSettles, ValidateSettles, Settle, InFlight
<1> QED
  BY <1>1, <1>2, <1>3, <1>4, <1>5, <1>6
  DEF Next, Navigate, LoadSucceeds, LoadFails, Evict, OtherTabCompletes, Edit, Reset, vars

(***************************************************************************)
(* Results and spinners.                                                   *)
(***************************************************************************)
LEMMA ResultsNext == ResultsType /\ [Next]_vars => ResultsType'
<1> SUFFICES ASSUME ResultsType, [Next]_vars PROVE ResultsType'
  OBVIOUS
<1> USE DEF ResultsType
<1>1. CASE UNCHANGED results
  BY <1>1 DEF results
<1>2. CASE (\E k \in Katas : Navigate(k)) \/ GoHome \/ Reload
  BY <1>2 DEF Navigate, GoHome, Reload, ResetEffect, DropPage, ResetStates
<1>3. CASE Reset \/ \E s \in Slots : ExecuteButton(s) \/ ExecuteShortcut(s) \/ HandleValidate(s)
  BY <1>3 DEF Reset, ExecuteButton, ExecuteShortcut, HandleExecute, HandleValidate
<1>4. ASSUME NEW s \in Slots, ExecuteSettles(s) PROVE ResultsType'
  <2>1. requests[s].kata \in Katas
    BY <1>4 DEF ExecuteSettles, ExecuteRequest
  <2> QED BY <1>4, <2>1 DEF ExecuteSettles
<1>5. ASSUME NEW s \in Slots, NEW passed \in BOOLEAN, ValidateSettles(s, passed)
      PROVE  ResultsType'
  <2>1. requests[s].kata \in Katas
    BY <1>5 DEF ValidateSettles, ValidateRequest
  <2>2. [kata |-> requests[s].kata, passed |-> passed] \in [kata : Katas, passed : BOOLEAN]
    BY <2>1
  <2>3. \/ /\ validationResult' = [kata |-> requests[s].kata, passed |-> passed]
           /\ isValidating' = FALSE
        \/ UNCHANGED <<validationResult, isValidating>>
    BY <1>5 DEF ValidateSettles
  <2>4. isValidating' \in BOOLEAN
    BY <2>3
  <2>5. UNCHANGED <<executionResult, isExecuting>>
    BY <1>5 DEF ValidateSettles
  <2> QED BY <2>2, <2>3, <2>4, <2>5
<1> QED
  BY <1>1, <1>2, <1>3, <1>4, <1>5, SettlesCases
  DEF Next, LoadSucceeds, LoadFails, Evict, OtherTabCompletes, Edit, page, vars

LEMMA SpinnerNext ==
  Shape /\ InFlight /\ ResultsType /\ SpinnerIsBacked /\ [Next]_vars => SpinnerIsBacked'
<1> SUFFICES ASSUME Shape, InFlight, ResultsType, SpinnerIsBacked, [Next]_vars
             PROVE  SpinnerIsBacked'
  OBVIOUS
<1> USE DEF SpinnerIsBacked
<1>1. CASE UNCHANGED <<route, isExecuting, isValidating, requests>>
  BY <1>1
<1>2. CASE \E k \in Katas : Navigate(k)
  BY <1>2 DEF Navigate, ResetEffect, ResetStates
<1>3. CASE GoHome \/ Reload
  BY <1>3 DEF GoHome, Reload, DropPage, ResetStates
<1>4. ASSUME NEW s \in Slots, ExecuteButton(s) \/ ExecuteShortcut(s) PROVE SpinnerIsBacked'
  <2>1. PICK request \in ExecuteRequest : Send(s, request)
    BY <1>4, ExecuteSends
  <2>2. /\ requests[s] = None /\ requests'[s] = request
        /\ \A r \in Slots \ {s} : requests'[r] = requests[r]
    BY <2>1 DEF Send, InFlight
  <2>3. UNCHANGED <<route, isValidating>>
    BY <1>4, ExecuteSends
  <2> QED BY <2>2, <2>3, RequestsDiffer
<1>5. ASSUME NEW s \in Slots, HandleValidate(s) PROVE SpinnerIsBacked'
  <2>1. PICK request \in ValidateRequest :
           Send(s, request) /\ request.mounted /\ request.kata = route
    BY <1>5, ValidateSends
  <2>2. requests'[s] = request
    BY <2>1 DEF Send, InFlight
  <2>3. ~isExecuting' /\ route' = route
    BY <1>5, ValidateSends
  <2> QED BY <2>1, <2>2, <2>3
<1>6. ASSUME NEW s \in Slots, ExecuteSettles(s) PROVE SpinnerIsBacked'
  <2>1. /\ requests[s] \in ExecuteRequest /\ isExecuting' = FALSE
        /\ \A r \in Slots \ {s} : requests'[r] = requests[r]
        /\ UNCHANGED <<route, isValidating>>
    BY <1>6 DEF ExecuteSettles, Settle, InFlight
  <2> QED BY <2>1, RequestsDiffer
<1>7. ASSUME NEW s \in Slots, NEW passed \in BOOLEAN, ValidateSettles(s, passed)
      PROVE  SpinnerIsBacked'
  <2>1. /\ requests[s] \in ValidateRequest
        /\ requests[s].mounted => isValidating' = FALSE
        /\ ~requests[s].mounted => isValidating' = isValidating
        /\ \A r \in Slots \ {s} : requests'[r] = requests[r]
        /\ UNCHANGED <<route, isExecuting>>
    BY <1>7 DEF ValidateSettles, Settle, InFlight
  <2>2. isExecuting' => \E r \in Slots : requests'[r] \in ExecuteRequest
    BY <2>1, RequestsDiffer
  <2>3. isValidating' => \E r \in Slots : /\ requests'[r] \in ValidateRequest
                                          /\ requests'[r].mounted
                                          /\ requests'[r].kata = route'
    BY <2>1 DEF ResultsType
  <2> QED BY <2>2, <2>3
<1> QED
  BY <1>1, <1>2, <1>3, <1>4, <1>5, <1>6, <1>7, SettlesCases
  DEF Next, LoadSucceeds, LoadFails, Evict, OtherTabCompletes, Edit, Reset, page, results, vars

(***************************************************************************)
(* Completions.                                                            *)
(***************************************************************************)
LEMMA RecordedNext == Shape /\ Recorded /\ [Next]_vars => Recorded'
<1> SUFFICES ASSUME Shape, Recorded, [Next]_vars PROVE Recorded'
  OBVIOUS
<1> USE DEF Recorded, PassedIsRecorded
<1>1. CASE UNCHANGED <<validationResult, progress>>
  BY <1>1 DEF progress
<1>2. CASE validationResult' = None /\ UNCHANGED progress
  BY <1>2 DEF progress
<1>3. CASE Reload
  BY <1>3 DEF Reload, DropPage, ResetStates
<1>4. ASSUME NEW k \in Katas, OtherTabCompletes(k) PROVE Recorded'
  BY <1>4 DEF OtherTabCompletes, page, results
<1>5. ASSUME NEW s \in Slots, Passed(s) PROVE Recorded'
  <2>1. requests[s].kata \in Katas
    BY <1>5 DEF Passed, ValidateSettles, ValidateRequest
  <2>2. stored' = stored \cup {requests[s].kata} /\ snapshot' = stored'
    BY <1>5 DEF Passed, MarkCompleted
  <2>3. \/ validationResult' = [kata |-> requests[s].kata, passed |-> TRUE]
        \/ validationResult' = validationResult
    BY <1>5 DEF Passed, ValidateSettles
  <2> QED BY <2>1, <2>2, <2>3
<1>6. ASSUME NEW s \in Slots, NotPassed(s) \/ PassedButNotStored(s) PROVE Recorded'
  <2>1. /\ UNCHANGED progress
        /\ \/ validationResult' = [kata |-> requests[s].kata, passed |-> FALSE]
           \/ validationResult' = validationResult
    BY <1>6 DEF NotPassed, PassedButNotStored, ValidateSettles
  <2> QED BY <2>1 DEF progress
<1>7. CASE \E s \in Slots : ExecuteSettles(s)
  BY <1>1, <1>7 DEF ExecuteSettles
<1>8. CASE \E s \in Slots : ExecuteButton(s) \/ ExecuteShortcut(s) \/ HandleValidate(s)
  BY <1>1, <1>2, <1>8, ExecuteSends, ValidateSends
<1>9. CASE (\E k \in Katas : Navigate(k)) \/ GoHome
  BY <1>2, <1>9 DEF Navigate, GoHome, ResetEffect, DropPage, ResetStates
<1> QED
  BY <1>1, <1>2, <1>3, <1>4, <1>5, <1>6, <1>7, <1>8, <1>9
  DEF Next, Settles, LoadSucceeds, LoadFails, Evict, Edit, Reset, page, results, vars
-----------------------------------------------------------------------------
THEOREM Invariance == Spec => []IInv
<1>1. IInv /\ [Next]_vars => IInv'
  BY ShapeNext, InFlightNext, ResultsNext, SpinnerNext, RecordedNext DEF IInv
<1> QED BY InitInv, <1>1, PTL DEF Spec

\* The page's state keeps its shape: the editor and its shortcut are there
\* exactly while a detail is shown.
THEOREM TypeCorrect == Spec => []TypeOK
<1>1. IInv => TypeOK
  BY Parts
<1> QED BY <1>1, Invariance, PTL

\* No spinner turns without a request that will stop it.
THEOREM SpinnersAreBacked == Spec => []SpinnerIsBacked
<1>1. IInv => SpinnerIsBacked
  BY DEF IInv
<1> QED BY <1>1, Invariance, PTL

\* A success on the screen is a success in the store.
THEOREM PassedIsStored == Spec => []PassedIsRecorded
<1>1. IInv => PassedIsRecorded
  BY Parts
<1> QED BY <1>1, Invariance, PTL

\* The check marks survive a reload.
THEOREM ShownIsStored == Spec => []ShownProgressIsStored
<1>1. IInv => ShownProgressIsStored
  BY Parts
<1> QED BY <1>1, Invariance, PTL
-----------------------------------------------------------------------------
\* What a step may do to the stored completions.
LEMMA StoredSteps ==
  ASSUME [Next]_vars
  PROVE  \/ stored' = stored
         \/ \E k \in Katas : OtherTabCompletes(k)
         \/ \E s \in Slots : Passed(s)
<1>1. CASE \E s \in Slots : Settles(s)
  BY <1>1 DEF Settles, ExecuteSettles, NotPassed, PassedButNotStored, progress
<1>2. CASE \E s \in Slots : ExecuteButton(s) \/ ExecuteShortcut(s) \/ HandleValidate(s)
  BY <1>2 DEF ExecuteButton, ExecuteShortcut, HandleExecute, HandleValidate, progress
<1> QED
  BY <1>1, <1>2
  DEF Next, Navigate, GoHome, Reload, LoadSucceeds, LoadFails, Evict, Edit, Reset, progress, vars

\* No step loses a completion, also one of another tab.
ProgressIsKept == [][stored \subseteq stored']_stored

\* Whatever the page does, a kata that is completed stays completed.
THEOREM NothingIsLost == Spec => ProgressIsKept
<1>1. [Next]_vars => [stored \subseteq stored']_stored
  BY StoredSteps DEF OtherTabCompletes, Passed, MarkCompleted
<1> QED BY <1>1, PTL DEF Spec, ProgressIsKept

\* A completion is that of the submission that has just passed, or another tab's.
THEOREM EarnedOnly == Spec => CompletionIsEarned
<1> DEFINE Earned == \A k \in stored' \ stored :
                        \/ \E s \in Slots : Passed(s) /\ requests[s].kata = k
                        \/ OtherTabCompletes(k)
<1>1. [Next]_vars => [Earned]_vars
  <2> SUFFICES ASSUME [Next]_vars, NEW k \in stored' \ stored
               PROVE  \/ \E s \in Slots : Passed(s) /\ requests[s].kata = k
                      \/ OtherTabCompletes(k)
    OBVIOUS
  <2>1. CASE \E j \in Katas : OtherTabCompletes(j)
    BY <2>1 DEF OtherTabCompletes
  <2>2. CASE \E s \in Slots : Passed(s)
    BY <2>2 DEF Passed, MarkCompleted
  <2> QED BY <2>1, <2>2, StoredSteps
<1> QED BY <1>1, PTL DEF Spec, CompletionIsEarned
-----------------------------------------------------------------------------
(***************************************************************************)
(* The page implements CompletionBook.                                     *)
(***************************************************************************)
Pending == [s \in Slots |-> Submission(requests[s])]

LEMMA BookInit == Init => CB!Init
BY RequestsDiffer DEF Init, CB!Init, Submission

LEMMA SubmissionCases ==
  ASSUME NEW request
  PROVE  /\ request \in ValidateRequest => Submission(request) = request.kata
                                            /\ Submission(request) \in Katas
         /\ request \notin ValidateRequest => Submission(request) = None
         /\ Submission(request) = None <=> request \notin ValidateRequest
BY PageAssumption DEF Submission, ValidateRequest

\* Leaving the page abandons requests, but not what was submitted.
LEMMA AbandonedSubmission ==
  ASSUME NEW request
  PROVE  Submission(Abandoned(request)) = Submission(request)
<1>1. CASE request \in ValidateRequest
  <2>1. Abandoned(request) \in ValidateRequest /\ Abandoned(request).kata = request.kata
    BY <1>1 DEF Abandoned, ValidateRequest
  <2> QED BY <1>1, <2>1 DEF Submission
<1>2. CASE request \notin ValidateRequest
  BY <1>2, RequestsDiffer DEF Abandoned, Submission
<1> QED BY <1>1, <1>2

\* One slot of the requests in flight changes.
LEMMA SlotChanges ==
  ASSUME InFlight, NEW s \in Slots, NEW request, requests' = [requests EXCEPT ![s] = request]
  PROVE  Pending' = [Pending EXCEPT ![s] = Submission(request)]
<1>1. \A r \in Slots : requests'[r] = IF r = s THEN request ELSE requests[r]
  BY DEF InFlight
<1>2. \A r \in Slots : Submission(requests'[r]) =
                         IF r = s THEN Submission(request) ELSE Submission(requests[r])
  BY <1>1
<1>3. Pending' = [r \in Slots |-> Submission(requests'[r])]
  BY DEF Pending
<1> QED BY <1>2, <1>3 DEF Pending

LEMMA SlotKept ==
  ASSUME InFlight, NEW s \in Slots, NEW request, requests' = [requests EXCEPT ![s] = request],
         Submission(request) = Submission(requests[s])
  PROVE  Pending' = Pending
<1>1. \A r \in Slots : requests'[r] = IF r = s THEN request ELSE requests[r]
  BY DEF InFlight
<1>2. \A r \in Slots : Submission(requests'[r]) = Submission(requests[r])
  BY <1>1
<1> QED BY <1>2 DEF Pending

\* A step of the page is an entry, a submission or an answer of the book, or
\* nothing to it.
LEMMA BookStep ==
  ASSUME IInv, [Next]_vars
  PROVE  [CB!Next]_(CB!vars)
<1> USE DEF Pending
<1>0. Shape /\ InFlight
  BY DEF IInv
<1>1. CASE UNCHANGED <<requests, progress>>
  BY <1>1 DEF progress, CB!vars
<1>2. CASE GoHome
  <2>1. \A s \in Slots : Submission(requests'[s]) = Submission(requests[s])
    BY <1>2, AbandonedSubmission DEF GoHome
  <2>2. Pending' = Pending
    BY <2>1
  <2> QED BY <1>2, <2>2 DEF GoHome, progress, CB!vars
<1>3. CASE Reload
  <2>1. Pending' = [s \in Slots |-> None]
    BY <1>3, RequestsDiffer, SubmissionCases DEF Reload
  <2> QED BY <1>3, <2>1 DEF Reload, CB!Reopen, CB!Next
<1>4. ASSUME NEW k \in Katas, OtherTabCompletes(k) PROVE CB!EntryElsewhere(k)
  BY <1>4 DEF OtherTabCompletes, CB!EntryElsewhere
<1>5. ASSUME NEW s \in Slots, ExecuteButton(s) \/ ExecuteShortcut(s)
      PROVE  UNCHANGED CB!vars
  <2>1. PICK request \in ExecuteRequest : Send(s, request)
    BY <1>0, <1>5, ExecuteSends
  <2>2. Submission(request) = None /\ Submission(requests[s]) = None
    BY <2>1, RequestsDiffer, SubmissionCases DEF Send
  <2>3. Pending' = Pending
    BY <1>0, <2>1, <2>2, SlotKept DEF Send
  <2> QED BY <1>0, <1>5, <2>3, ExecuteSends DEF progress, CB!vars
<1>6. ASSUME NEW s \in Slots, HandleValidate(s)
      PROVE  \E k \in Katas : CB!Submit(s, k)
  <2>1. PICK request \in ValidateRequest :
           Send(s, request) /\ request.mounted /\ request.kata = route
    BY <1>0, <1>6, ValidateSends
  <2>2. requests[s] = None /\ requests' = [requests EXCEPT ![s] = request]
    BY <2>1 DEF Send
  <2>3. Submission(request) \in Katas /\ Submission(requests[s]) = None
    BY <2>1, <2>2, RequestsDiffer, SubmissionCases
  <2>4. Pending' = [Pending EXCEPT ![s] = Submission(request)]
    BY <1>0, <2>2, SlotChanges
  <2>5. UNCHANGED progress
    BY <1>0, <1>6, ValidateSends
  <2> QED BY <2>3, <2>4, <2>5 DEF progress, CB!Submit
<1>7. ASSUME NEW s \in Slots, ExecuteSettles(s) PROVE UNCHANGED CB!vars
  <2>1. /\ requests[s] \in ExecuteRequest /\ requests' = [requests EXCEPT ![s] = None]
        /\ UNCHANGED progress
    BY <1>7 DEF ExecuteSettles, Settle
  <2>2. Submission(None) = Submission(requests[s])
    BY <2>1, RequestsDiffer, SubmissionCases
  <2>3. Pending' = Pending
    BY <1>0, <2>1, <2>2, SlotKept
  <2> QED BY <2>1, <2>3 DEF progress, CB!vars
<1>8. ASSUME NEW s \in Slots, NEW passed \in BOOLEAN, ValidateSettles(s, passed)
      PROVE  CB!Answer(s) /\ Pending[s] = requests[s].kata
  <2>1. requests[s] \in ValidateRequest /\ requests' = [requests EXCEPT ![s] = None]
    BY <1>8 DEF ValidateSettles, Settle
  <2>2. Pending' = [Pending EXCEPT ![s] = Submission(None)] /\ Submission(None) = None
    BY <1>0, <2>1, SlotChanges, RequestsDiffer, SubmissionCases
  <2>3. Pending[s] = requests[s].kata /\ Pending[s] # None
    BY <2>1, SubmissionCases
  <2> QED BY <2>2, <2>3 DEF CB!Answer
<1>9. ASSUME NEW s \in Slots, Passed(s) PROVE CB!Pass(s)
  BY <1>8, <1>9 DEF Passed, MarkCompleted, CB!Pass
<1>10. ASSUME NEW s \in Slots, NotPassed(s) \/ PassedButNotStored(s) PROVE CB!Refuse(s)
  BY <1>8, <1>10 DEF NotPassed, PassedButNotStored, progress, CB!Refuse
<1> QED
  BY <1>1, <1>2, <1>3, <1>4, <1>5, <1>6, <1>7, <1>9, <1>10
  DEF Next, Settles, Navigate, LoadSucceeds, LoadFails, Evict, Edit, Reset, vars, CB!Next

\* Whatever the learner does and in whatever order answers arrive, completions
\* are entered only for passed submissions, once, and are never lost.
THEOREM Refinement == Spec => ImplementsCompletionBook
BY BookInit, BookStep, Invariance, PTL DEF Spec, ImplementsCompletionBook, CB!Spec
=============================================================================
