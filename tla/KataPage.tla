------------------------------- MODULE KataPage -------------------------------
(***************************************************************************)
(* One browser tab of the frontend: the page of components/KataDetail.tsx  *)
(* with its hooks (useExecution, useProgress, useKatas) and the editor's   *)
(* Ctrl+Enter action of components/CodeEditor.tsx.                         *)
(*                                                                         *)
(* A step is one turn of the event loop: an event handler up to its first  *)
(* await, what follows an await, or a navigation with the reset effect     *)
(* that React runs after it.  Requests to the server settle in any order.  *)
(*                                                                         *)
(* The template of a kata stands for its text, so a text is a kata or one  *)
(* of the Edits a learner types.                                           *)
(***************************************************************************)
EXTENDS FiniteSets

CONSTANTS Katas,   \* ids of the catalogue
          Edits,   \* texts a learner may type
          Slots,   \* bound: how many requests may be in flight
          Home,    \* the route of the kata list
          None     \* null, and an empty slot

Texts == Katas \cup Edits

ExecuteRequest == [kind : {"execute"}, kata : Katas, text : Texts]
ValidateRequest == [kind : {"validate"}, kata : Katas, mounted : BOOLEAN]

ASSUME PageAssumption ==
    /\ Katas \cap Edits = {}
    /\ Home \notin Katas
    /\ None \notin Katas \cup Edits \cup ExecuteRequest \cup ValidateRequest

VARIABLES route,             \* the kata in the URL, or Home
          cached,            \* katas whose detail the query cache holds
          loading,           \* katas whose detail is being fetched
          code,              \* useState of KataDetail: the edited text, or None
          shortcut,          \* the text Ctrl+Enter runs; None without an editor
          validationResult,  \* what the page's states hold: a result names the
          executionResult,   \*   kata that was on the page when it was asked for
          isValidating,
          isExecuting,
          requests,          \* what is in flight
          stored,            \* completed katas in localStorage
          snapshot           \* cachedSnapshot of useProgress, which the page shows

results == <<validationResult, executionResult, isValidating, isExecuting>>
page == <<code, shortcut, results>>
queries == <<cached, loading>>
progress == <<stored, snapshot>>
vars == <<route, queries, page, requests, progress>>

\* The page renders the editor and its buttons once the detail is there.
Ready == route \in cached

\* code ?? kata.template_code
DisplayedCode == IF code = None THEN route ELSE code

Busy == isExecuting \/ isValidating

Init == /\ route = Home
        /\ cached = {}
        /\ loading = {}
        /\ code = None
        /\ shortcut = None
        /\ validationResult = None
        /\ executionResult = None
        /\ isValidating = FALSE
        /\ isExecuting = FALSE
        /\ requests = [s \in Slots |-> None]
        /\ stored = {}
        /\ snapshot = {}
-----------------------------------------------------------------------------
\* useKataDetail: a detail that is not in the cache is fetched.
Fetch(k) == loading' = IF k \in cached THEN loading ELSE loading \cup {k}

\* An editor that stays on the page keeps the action it registered when it was
\* mounted; a new one registers the handler of its first render.
MountEditor(k) == shortcut' = IF shortcut = None THEN k ELSE shortcut

ResetStates == /\ code' = None
               /\ validationResult' = None
               /\ isValidating' = FALSE
               /\ executionResult' = None

\* (mutant) The effect forgets the validation spinner.
ResetEffect_KeepsSpinner == /\ code' = None
                            /\ validationResult' = None
                            /\ executionResult' = None
                            /\ UNCHANGED <<isValidating, isExecuting>>

\* The effect on resolvedId.  It does not reset isExecuting.
ResetEffect == ResetStates /\ UNCHANGED isExecuting

\* Unmounting the page drops all its states.
DropPage == /\ ResetStates
            /\ isExecuting' = FALSE
            /\ shortcut' = None

\* A link or the browser's history leads to another kata: same component, new
\* parameter.  While the detail is fetched the editor is not rendered.
Navigate(k) ==
    /\ k # route
    /\ route' = k
    /\ Fetch(k)
    /\ ResetEffect
    /\ IF k \in cached THEN MountEditor(k) ELSE shortcut' = None
    /\ UNCHANGED <<cached, requests, progress>>

\* Promises outlive the page: an execution has nothing left to update, a
\* validation may still complete its kata.
Abandoned(request) ==
    IF request \in ValidateRequest THEN [request EXCEPT !.mounted = FALSE] ELSE None

GoHome ==
    /\ route # Home
    /\ route' = Home
    /\ DropPage
    /\ requests' = [s \in Slots |-> Abandoned(requests[s])]
    /\ UNCHANGED <<queries, progress>>

\* Reloading the page forgets everything but localStorage.
Reload ==
    /\ cached' = {}
    /\ loading' = {route} \ {Home}
    /\ DropPage
    /\ requests' = [s \in Slots |-> None]
    /\ snapshot' = stored
    /\ UNCHANGED <<route, stored>>

LoadSucceeds(k) ==
    /\ k \in loading
    /\ loading' = loading \ {k}
    /\ cached' = cached \cup {k}
    /\ IF route = k THEN MountEditor(k) ELSE UNCHANGED shortcut
    /\ UNCHANGED <<route, code, results, requests, progress>>

\* An error or 404: the page shows a message and no editor.
LoadFails(k) ==
    /\ k \in loading
    /\ loading' = loading \ {k}
    /\ UNCHANGED <<route, cached, page, requests, progress>>

\* The query cache drops a detail that no page has used for a while.
Evict(k) ==
    /\ k \in cached \ {route}
    /\ cached' = cached \ {k}
    /\ UNCHANGED <<route, loading, page, requests, progress>>
-----------------------------------------------------------------------------
Edit(text) ==
    /\ Ready
    /\ code' = text
    /\ UNCHANGED <<route, queries, shortcut, results, requests, progress>>

\* handleReset
Reset ==
    /\ Ready
    /\ code' = route
    /\ validationResult' = None
    /\ executionResult' = None
    /\ UNCHANGED <<route, queries, shortcut, isValidating, isExecuting, requests, progress>>

Send(s, request) == /\ requests[s] = None
                    /\ requests' = [requests EXCEPT ![s] = request]

\* handleExecute with the text its closure sees, and execute up to its await.
HandleExecute(s, text) ==
    /\ Ready
    /\ Send(s, [kind |-> "execute", kata |-> route, text |-> text])
    /\ isExecuting' = TRUE
    /\ validationResult' = None
    /\ executionResult' = None
    /\ UNCHANGED <<route, queries, code, shortcut, isValidating, progress>>

\* The button is disabled while something runs, the shortcut is not.
ExecuteButton(s) == ~Busy /\ HandleExecute(s, DisplayedCode)

ExecuteShortcut(s) == HandleExecute(s, shortcut)

\* handleValidate up to its await: nothing is submitted before the first edit.
HandleValidate(s) ==
    /\ Ready
    /\ ~Busy
    /\ code # None
    /\ Send(s, [kind |-> "validate", kata |-> route, mounted |-> TRUE])
    /\ isValidating' = TRUE
    /\ executionResult' = None
    /\ UNCHANGED <<route, queries, code, shortcut, validationResult, isExecuting, progress>>

Settle(s) == requests' = [requests EXCEPT ![s] = None]

\* (mutant) isExecuting is only reset when the request succeeds.
ExecuteSettles_NoFinally(s) ==
    /\ requests[s] \in ExecuteRequest
    /\ Settle(s)
    /\ executionResult' = [kata |-> requests[s].kata]
    /\ isExecuting' \in {FALSE, isExecuting}
    /\ UNCHANGED <<route, queries, code, shortcut, validationResult, isValidating, progress>>

\* execute after its await: a result, or an error that is shown like one.
ExecuteSettles(s) ==
    /\ requests[s] \in ExecuteRequest
    /\ Settle(s)
    /\ executionResult' = [kata |-> requests[s].kata]
    /\ isExecuting' = FALSE
    /\ UNCHANGED <<route, queries, code, shortcut, validationResult, isValidating, progress>>

\* handleValidate after its await.  States of an unmounted page are not set.
ValidateSettles(s, passed) ==
    /\ requests[s] \in ValidateRequest
    /\ Settle(s)
    /\ IF requests[s].mounted
       THEN /\ validationResult' = [kata |-> requests[s].kata, passed |-> passed]
            /\ isValidating' = FALSE
       ELSE UNCHANGED <<validationResult, isValidating>>
    /\ UNCHANGED <<route, queries, code, shortcut, executionResult, isExecuting>>

\* The solution is wrong, or the request failed.
NotPassed(s) == ValidateSettles(s, FALSE) /\ UNCHANGED progress

\* (mutant) The kata is added to the set the page shows, not to the stored one.
MarkCompleted_FromSnapshot(k) == /\ stored' = snapshot \cup {k}
                                 /\ snapshot' = stored'

\* markCompleted: read the stored set, add the kata, write, refresh the snapshot.
MarkCompleted(k) == /\ stored' = stored \cup {k}
                    /\ snapshot' = stored'

\* (mutant) The kata on the screen is marked instead of the submitted one.
Passed_MarksRoute(s) == /\ ValidateSettles(s, TRUE)
                        /\ MarkCompleted(route)

Passed(s) == /\ ValidateSettles(s, TRUE)
             /\ MarkCompleted(requests[s].kata)

\* (mutant) The exception of setItem is swallowed.
PassedButNotStored_Silent(s) == ValidateSettles(s, TRUE) /\ UNCHANGED progress

\* (mutant) The page is told of the completion before it is written.
PassedButNotStored_Optimistic(s) == /\ ValidateSettles(s, FALSE)
                                    /\ snapshot' = snapshot \cup {requests[s].kata}
                                    /\ UNCHANGED stored

\* setItem throws: the catch block replaces the result by a failed one.
PassedButNotStored(s) == ValidateSettles(s, FALSE) /\ UNCHANGED progress

\* A learner completes a kata in another tab; this one does not listen for it.
OtherTabCompletes(k) ==
    /\ k \notin stored
    /\ stored' = stored \cup {k}
    /\ UNCHANGED <<route, queries, page, requests, snapshot>>

Settles(s) == ExecuteSettles(s) \/ NotPassed(s) \/ Passed(s) \/ PassedButNotStored(s)

Next == \/ \E k \in Katas : \/ Navigate(k) \/ LoadSucceeds(k) \/ LoadFails(k)
                            \/ Evict(k) \/ OtherTabCompletes(k)
        \/ \E text \in Edits : Edit(text)
        \/ GoHome \/ Reload \/ Reset
        \/ \E s \in Slots : \/ ExecuteButton(s) \/ ExecuteShortcut(s)
                            \/ HandleValidate(s) \/ Settles(s)

\* The server answers every request, and a connection that breaks is an answer.
Spec == Init /\ [][Next]_vars /\ \A s \in Slots : WF_vars(Settles(s))
-----------------------------------------------------------------------------
\* The state's shape; an editor is mounted exactly when a detail is shown.
TypeOK ==
    /\ route \in Katas \cup {Home}
    /\ cached \subseteq Katas
    /\ loading \subseteq Katas \ cached
    /\ code \in Texts \cup {None}
    /\ code # None => Ready
    /\ shortcut \in Katas \cup {None}
    /\ shortcut # None <=> Ready
    /\ validationResult \in [kata : Katas, passed : BOOLEAN] \cup {None}
    /\ executionResult \in [kata : Katas] \cup {None}
    /\ isValidating \in BOOLEAN
    /\ isExecuting \in BOOLEAN
    /\ requests \in [Slots -> ExecuteRequest \cup ValidateRequest \cup {None}]
    /\ stored \subseteq Katas
    /\ snapshot \subseteq Katas

\* A spinner is backed by a request that is still in flight, whatever order
\* answers arrive in and wherever the learner has gone meanwhile.
SpinnerIsBacked ==
    /\ isExecuting => \E s \in Slots : requests[s] \in ExecuteRequest
    /\ isValidating => \E s \in Slots : /\ requests[s] \in ValidateRequest
                                        /\ requests[s].mounted
                                        /\ requests[s].kata = route

\* "Passed" is only on the screen when the completion is in the store and in
\* what the page renders: when storing fails, the learner sees a failure.
PassedIsRecorded ==
    (validationResult # None /\ validationResult.passed)
        => validationResult.kata \in stored \cap snapshot

\* A check mark is never shown for a completion that a reload would lose.
ShownProgressIsStored == snapshot \subseteq stored

\* Completions are those of a book in which only passed submissions and other
\* tabs make entries, none is ever lost, and the page shows the book as it was
\* at its own last entry or its last load.
Submission(request) == IF request \in ValidateRequest THEN request.kata ELSE None

CB == INSTANCE CompletionBook
        WITH pending <- [s \in Slots |-> Submission(requests[s])],
             completed <- stored, shown <- snapshot

ImplementsCompletionBook == CB!Spec

\* A kata becomes completed only when the answer to a submission of that very
\* kata says passed, whatever page is on the screen by then, or in another tab.
CompletionIsEarned ==
    [][\A k \in stored' \ stored :
          \/ \E s \in Slots : Passed(s) /\ requests[s].kata = k
          \/ OtherTabCompletes(k)]_vars

\* The buttons always come back.
ButtonsComeBack == Busy ~> ~Busy

\* What KataDetail.tsx:43 says: "Reset editor/result state when navigating
\* between katas."  A result that is shown was asked for on the page that shows
\* it.
ResultBelongsToKata ==
    (Ready /\ ~Busy) =>
        /\ validationResult # None => validationResult.kata = route
        /\ executionResult # None => executionResult.kata = route

\* What CodeEditor.tsx:21 and the label "Ctrl+Enter" say: the shortcut executes
\* the code, as the button does.
ExecutesShownCode ==
    [][\A s \in Slots : (requests[s] = None /\ requests'[s] \in ExecuteRequest)
                            => requests'[s].text = DisplayedCode]_vars
=============================================================================
