SPECIFICATION Spec
CONSTANTS
    Requests = {r1, r2, r3}
    MaxConcurrent = 1
    Workers = 2
INVARIANTS
    PermitsAccountedFor
    ChildrenHoldPermits
    OnlyCheckedCodeRuns
    AnswersAreDue
PROPERTIES
    BusyOnlyWhenFull
    EverySubmissionAnswered
    ImplementsBoundedExecutor
