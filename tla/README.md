# Quantum Katas in TLA+

Formal models of the quantum-katas application: a FastAPI backend that runs and
judges short Cirq programs in child processes, and a React frontend in which a
learner edits, runs and submits them. The modules are written from the source
under `backend/src/quantum_katas` and `frontend/src`; the comments of each module
name the functions they stand for.

## 1. The system and its parts

| Part | State it keeps | Operations | Talks to |
|---|---|---|---|
| Rate limiter (`routers/execute.py`) | dict from client key to request times | `_is_rate_limited`, `_get_client_ip` | called by `POST /api/execute` on the event loop |
| Execution service (`services/executor.py`, `services/judge.py`, the two POST endpoints) | the pool's work queue, a semaphore of 3, child processes | `asyncio.to_thread`, `validate_submission`, `execute_code`, `execute_judge`, `_run_sandboxed` | registry (lookup), operating system |
| Static code checks (`services/executor.py`) | none | `validate_imports`, `validate_no_dunder_access`, `validate_no_ffi_access`, `validate_no_file_io_access` | called by the execution service |
| Judge session (`_build_judge_wrapper_code`, `validate_submission`) | the child's namespace, builtins and stdout | run learner code, restore, run validation code, verdict | execution service |
| Kata registry (`services/kata_registry.py`) | the cached catalogue and its lock | `_get_cache`, `_load_katas`, `reset_cache` | all kata endpoints, from the event loop and from pool threads |
| Kata page (`KataDetail.tsx`, `CodeEditor.tsx`, `useExecution.ts`, `useKatas.ts`) | edited text, results, spinners, the editor's registered action, requests in flight, cached details | edit, run, submit, reset, navigate | backend through `lib/api.ts`, progress store |
| Progress store (`useProgress.ts`) | a set in localStorage and its cached copy in each tab | `markCompleted`, `resetProgress`, `getSnapshot`, `persist` | page, list, header; other tabs through localStorage |
| API client (`lib/api.ts`, the query client of `App.tsx`) | mock flag and "already checked" flag | `ensureBackendDetected`, `detectBackend`, `fetchJson`, the four calls, one retry of queries | backend or `mock-data.ts` |
| Kata list (`KataList.tsx`, the YAML catalogue) | none of its own | order, lock icons, all-clear | registry data, progress store |
| Hints (`HintPanel.tsx`) | visible count, collapsed set, the counts in localStorage | `showNextHint`, `toggleHint`, the effect on `kataId` | page; other tabs through localStorage |
| Result views (`ExecutionResult.tsx`, `ProgressBar.tsx`) | none | extraction of a circuit diagram from stdout, percentage | page, list, header |

How a submission travels: the page sends a request; the endpoint's coroutine
(after the rate limiter, for `execute` only) puts a work item into the pool; a
pool thread looks the kata up (for `validate` only), checks the code, waits up to
ten seconds for one of three permits, runs one child process for up to fifteen
seconds, gives the permit back and returns; the page applies the answer to
whatever it shows by then, and a pass is written to localStorage.

What is hard about each part, and hence what the properties are about:

- **Rate limiter.** Times are pruned when they leave the window and whole lists
  are evicted on other clients' calls, so the limit is enforced by an incomplete
  memory. It must still be the limit over the full history, and Retry-After, a
  rounded number computed from the same memory, must be neither early nor late.
- **Execution service.** Many ways out of one try block, a timeout racing the
  child's end, more threads than permits, and requests that wait in two places.
- **Judge session.** Learner code and validation code share a process, a namespace
  and one output that is cut at a limit; the verdict is read from the exit status
  and that output.
- **Registry.** Double-checked locking with an unlocked fast path that reads the
  global twice, and a loader that may raise while the lock is held.
- **Page.** Answers arrive in any order and after navigation, unmounting or a
  reload; the shortcut bypasses the disabled buttons; storage may fail or be
  written by another tab.
- **API client.** Calls are made before, during and after the search for a backend,
  whose flag is set before its await; the backend comes and goes, the search may
  time out, and queries are retried in whatever mode was found meanwhile.
- **Progress, list and hints.** Tabs share localStorage without listening to each
  other: each shows a copy that may be outdated and writes from it or from what is
  stored; an entry may be unreadable, of an older catalogue, or gone; the hint panel
  stays mounted when its kata changes and is reset by a later effect.
- **Circuit diagram.** A loop with a flag that carries over from line to line, after
  an early return that tests the text as a whole.

## 2. Plan

The order is by how much of the program's promise rests on a part.

1. Rate limiter, execution service, registry, each with its abstract
   specification, runs and proofs; the judge session and the kata page. *(done, with
   proofs of every safety property)*
2. API client, progress store, list, hints and several tabs; the circuit diagram.
   *(done, with proofs of every safety property)*
3. Abstract specifications of the parts that others build on: the registry as one
   cell, the client as a client with two modes, the page as a book of completions,
   each refined among all failures that the detailed module has, and proved. *(done)*
4. Compositions: limiter in front of the service with the registry behind it, page on
   top of client and service. The parts share no variable and meet only in a call
   and its answer, so that the conjunction of the specifications satisfies what each
   satisfies alone; what one part assumes of another is the fairness in section 5.
   *(a module of its own is not planned)*

The set of runs is kept small, one per question: a module's invariants and
liveness share a run.

## 3. Modules

**`SlidingWindow`** is a rate limiter with an unlimited memory. **`RateLimiter`**
models `_is_rate_limited` in full as one step per call: the handler is a coroutine
without an await before the limiter, and the limiter holds its lock throughout.
`Swept`, `Kept`, `Full` and `RetryAfter` are the function's sections; `Deny` and
`Admit` its two returns; `ExecuteFrom` and `ExecuteAnon` the two branches of
`_get_client_ip`. Time is counted in ticks, `TicksPerSecond` to a second, so that
what `int()` cuts off is visible. `log`, `promise` are history variables for the
properties. `RateLimiterProofs` holds the proofs.

**`BoundedExecutor`** says what the sandbox promises: at most `Capacity`
submissions run, one is turned away only when `Capacity` others run, all are
settled. **`ExecutionService`** models the worker threads: `Submit` and `PickUp`
are `asyncio.to_thread` and its pool, `Lookup` and `Check` the steps before the
semaphore (that the catalogue cannot be loaded, or is reset meanwhile, is an exception
there; when it happens is the subject of `KataRegistry`), `Acquire`/`GiveUp` its `acquire(timeout=10)`, `Spawn`, `SpawnFails`,
`ChildExits`, `Expire` and `Reap` are `subprocess.run` with its timeout, `Release`
the finally clause. `ExecutionServiceProofs` holds the proofs.

**`JudgeSession`** follows one program through the child and back. `Bind`, `Shadow`,
`Redefine` and `PrintText` are what learner code does: it binds names, some of which are
those of builtins, assigns to its dict of builtins or to a library (`changed`), and
prints. `UserStops` are the ways in which it can end the run, with either status; it and
`PrintText` are also possible during the validation, which calls methods of the learner's
values. `EnterValidation` is the wrapper between its two calls of `exec`: `Unshadowed`
names of builtins, and `Pristine` builtins, but the same libraries. `Validate` and
`ValidationStops` are the second call; `Truncated`, `Collect` and `TimeOut` are
`_run_sandboxed` after the child, `Judge` is `validate_submission`. A value is "right" if
the validation code's assertions accept it. A character has one byte or three, and the
word PASSED counts as one character. `left` and `validated` are history variables that
say whether learner code or the validation code ended the run. `JudgeSessionProofs` holds
the proofs.

**`CatalogueCell`** is one cell for all callers: built only while it is empty,
cleared at any time, and read once per call; `overlapped` are the calls during which
it was cleared. **`KataRegistry`** models `_get_cache` and `reset_cache` cut at every
read of the global and every lock operation; `overlapped` is a history variable
there, for the refinement. `KataRegistryProofs` holds the proofs.

**`CompletionBook`** is what a page promises about completions: submissions, each
answered once, that enter their own kata or nothing. **`KataPage`** models one
browser tab. A step is a turn of the event loop: a
handler up to its first await, or what follows the await (state updates there are
batched into one render). `Navigate` keeps the component mounted, as the route
parameter does, and includes the reset effect; `GoHome` unmounts it; `Reload`
forgets everything but `stored`. `cached` and `loading` are the query cache, which
decides whether the editor stays mounted on navigation, and `shortcut` is the text
that the action registered at mount will run. `stored` is localStorage and
`snapshot` the copy the page renders. `KataPageProofs` holds the proofs.

**`TwoModeClient`** is a client whose first call finds the mode in which all later
ones are answered. **`ApiClient`** models `lib/api.ts` for the calls of one page load. `Ask` is a call
up to its first await, `EnsureBackendDetected` with its flag; `HealthAnswers` and
`HealthTimesOut` are `detectBackend` after its await, `Serve` what each of the four
functions does then, `FetchSettles` is `fetchJson` after its await with the 404 of
`fetchKataDetail`, and `Retry` the query client. The environment is the backend
(`up`) and the host that serves the page: it passes the paths in `routed` on and
answers any other one with the page. `ApiClientProofs` holds the proofs.

**`Progress`** is `useProgress.ts` in several tabs: `raw` is the stored value, which
may be absent or unreadable, `snapshot` each tab's cached copy. **`KataList`** has
what the list makes of the catalogue and of a set of completed ids: icons, all-clear,
percentage. **`HintPanel`** is the hint panel of each tab; before its first effect a
panel is "mounted", between the render for another kata and the effect it is "stale", and
when `setItem` throws inside the updater the tab is "crashed". `foreign` is a history
variable: another tab has changed this kata's count since it was read here. **`LearnerTabs`** puts the three together: its actions
are the turns of a tab's event loop, and `ClearSiteData` by the user.
`LearnerTabsProofs` holds the proofs.

**`CircuitDiagram`** is the loop of the component of that name, one line per step. A
line is one of the six kinds that the two regular expressions and `trim` tell apart.
`InDiagram` is the reference definition. `CircuitDiagramProofs` holds the proofs.

The `MC*` modules add symmetry sets and the values of structured constants (hosts,
prerequisites, numbers of hints); the `.cfg` files give the constants values.
Operators with a suffix (`Prune_Inclusive`) are deliberate mistakes, marked
`(mutant)`: putting one in place of the operator it is named after makes TLC
refute the property it is paired with in `PROJECT.json`, which shows that the
property depends on that piece of code.

## 4. Runs

| Run | Bounds | What it shows |
|---|---|---|
| `limiter` | 2 addresses, 1 anonymous client, limit 2, window 1 s, 2 ticks/s, clock 5 | the limit over the full history, Retry-After, refinement of `SlidingWindow`; sweeping by one client's call neither costs nor gives another's budget; the dict stays small; anonymous clients are never denied |
| `service` | 3 requests, 1 permit, 2 threads | permits, children, busy, checked code; every submission is answered, and by an answer that fits it; refinement of `BoundedExecutor` |
| `session` | 2 names to check, 2 builtins, a library, output limit 2, 3 printed characters | unless the program ends the run itself with the word PASSED and status 0, or changes a library: passed means right; the verdict is that of the validation, but for output beyond the cut; what is returned is bounded |
| `session_early_exit` | that of `session` | violation: a pass without a validation |
| `registry` | 3 threads, 2 of them resetting, 2 resets, 2 failing loads | the lock, one load per emptiness, the locked path; every call ends; refinement of `CatalogueCell` |
| `page` | 2 katas, 1 edit, 2 requests in flight | spinners, recorded passes, earned progress, refinement of `CompletionBook`; the buttons come back |
| `client` | 3 calls, 1 kata, a host that routes both paths or none | one search for the backend, the right mode, honest "not found", no submission sent twice, refinement of `TwoModeClient`; every call settles |
| `tabs` | 2 tabs, 2 katas of which the second needs the first, 2 hints and 1, stored counts up to 2, 1 id of an older catalogue | stored progress and hint counts under several tabs, an open kata, the celebration |
| `diagram` | outputs of 1 to 5 lines of 6 kinds | the diagram is the reference's |
| `client_dev_server` | 3 calls, a host that routes `/api` only | violation: a running backend is not detected |
| `page_stale_result` | that of `page` | violation: another kata's result |
| `page_shortcut` | that of `page` | violation: the shortcut runs old text |

Why the bounds are enough. A window of one second of two ticks, limit two, and a
clock of 5 let a client be admitted, denied, pruned, admitted again and evicted (at
more than 4 ticks of silence), at either alignment to the second. Two addresses
suffice for isolation, since a call touches its own list and evicts the others one by
one. Three requests, two threads and one permit leave one
request in the queue, one at the semaphore and one running, so that waiting,
refusing and timing out compete; the theorems about permits and children hold for
any numbers. Three characters of one or three bytes against a limit of two give
every relation of the limit to the two lengths, with the marker before, at and
behind the cut. Three threads let one build while one waits for the lock and one
uses the fast path; two resets can fall into one call, or one into each of two calls,
and with two failing loads a third thread finds the cell empty after two others failed. Two katas give "this page" and "another page", two slots a run
overtaken by another run or by a submission. Three calls put one before, one inside
and one behind the search for a backend, each with its retry. Two tabs are "this
tab" and "another tab"; a stored count of two is more than the second kata has
hints. Five lines give a circuit, what is left open or closes it, another line and a
second circuit. `MaxClock`, `MaxPrints`, `MaxFailures`, `MaxResets`, `Requests`,
`Slots`, `Calls`, `MaxStored` and `MaxLines` are the only bounds on behaviour; the
proofs are independent of their values.

The runs check for deadlock. `ExecutionService` has a `Done` step for the state in
which every request has its answer, and so has `JudgeSession` for its one run; a
limiter whose clock has reached `MaxClock` still accepts calls. `CircuitDiagram` has
a `Done` step, too; the backend of `ApiClient` and the user of `LearnerTabs` never
stop.

### Findings

- *A pass without a validation* (`services/judge.py:44-52`). The verdict is read from the
  exit status and from the word PASSED in the output that both programs share, and the
  learner's own exit with status 0 is the wrapper's (`services/executor.py:499-500`). A
  submission that prints the word and exits is passed with any values, although
  `judge.py:22-23` has the validation code verify them and `tests/test_judge.py:253` says
  of printing the word that "it should not bypass actual validation". `Forestalled` is
  this case; outside it, the verdict is the validation's (`VerdictIsExact` in `session`).
- *Detection behind the development server* (`vite.config.ts:14-19`). The server
  forwards `/api` only and answers `/health` with the page, so a running backend is
  never detected; `pnpm dev`, as the README has it, shows mock data. With both paths
  routed, or neither, the mode is right (`ModeIsRight` in `client`).
- *Results after navigation* (`KataDetail.tsx:43-52`, `:81`). The effect resets the
  states, not the requests in flight, whose answers then appear on the next kata's
  page. The completion is still credited to the right kata (`CompletionIsEarned`).
- *Ctrl+Enter* (`CodeEditor.tsx:21-31`). The action keeps the handler of the render
  that mounted the editor, and so runs the template of the kata it was mounted for.

### Observations

The models also contain these behaviours; each is the reason for a condition in a
property, and none has a run of its own.

- The headroom of Retry-After (`routers/execute.py:56-61`) may be one tick instead of
  the second its comment promises, because `int()` rounds down before 1 is added. The
  retry is never too early (`RetryAfterSuffices`).
- `_get_cache` (`services/kata_registry.py:63-68`) can return `None` from its fast
  path if a `reset_cache` comes between its two reads. Only tests call `reset_cache`;
  `CatalogueCell` allows `None` to a call that a reset overlapped, and to no other.
- The output limit (`services/executor.py:594-595`) is tested in bytes and applied to
  characters. A right submission that prints more characters than the limit is
  refused, because the marker is behind the cut; hence the exception in `VerdictIsExact`.
- A call made while the backend is being looked for goes to the backend even if there
  is none (`api.ts:29-30`); hence the exception for "early" calls in
  `TwoModeClient`. The mode is never looked for again, so an answer to `/health`
  after two seconds means the mock for the page's life; `ModeIsRight` excepts it.
- The validation code gets builtins of its own (`services/executor.py:506-517`), but the
  libraries are those that the learner's program has imported and may have assigned to,
  so that what it verifies with them is as good as the program left them; hence
  `"library" \notin changed` in `PassedMeansRight`.
- Hint counts do not always survive a reload, as `docs/use-cases.md:78` has it. Of two
  tabs on the same kata, the one that shows fewer hints lowers the stored count
  (`HintPanel.tsx:67-70`), and so does a click in a panel that shows another kata already
  but still has the previous kata's count, until the effect on `kataId` runs
  (`HintPanel.tsx:60-64`). `UpToDate` in `HintsAreOnlyAdded` excepts these two, and the
  property says that there is no third and that both leave other katas' counts alone. If
  `setItem` throws there, the application is unmounted (`ShowNextHintFails`).
- All-clear and the bar count ids, those of an older catalogue included
  (`KataList.tsx:99`): the banner appears when the last kata is completed, and may
  appear before.
- Any line `label: value` counts as a wire, and a line of text inside a circuit does
  not end it (`ExecutionResult.tsx:47-63`); `InDiagram` says so.

## 5. Fairness

- `ExecutionService`: weak fairness of `PickUp` and of each request's thread,
  whose steps include its two timeouts. Threads are scheduled by the operating
  system and `acquire(timeout=10)` and `subprocess.run(timeout=15)` end by
  themselves. Nothing is assumed of the child, which may loop, nor of the
  semaphore, which is not fair: a thread that waits either gets a permit or its
  timeout. A thread's `acquire` step is weakly fair because one of `Acquire` and
  `GiveUp` is always possible.
- `KataRegistry`: weak fairness of each thread that is inside a call. The lock is
  not fair; the bounded number of failing loads keeps threads from waiting for it
  for ever.
- `KataPage`: each request in flight settles. `fetch` is called without a timeout,
  so this rests on the server (`EverySubmissionAnswered`) and on connections that
  break eventually reporting it.
- `ApiClient`: the two timers fire (`AbortSignal.timeout(2000)` and the query client's
  delay before a retry), and a request to `/api` settles, as on the page. The answer to
  `/health` need not come, and the backend need not ever run. The query client holds
  retries back while the tab is hidden or offline; that a retry is made assumes that the
  tab is shown and online again at some time.
- `RateLimiter`, `JudgeSession`, `LearnerTabs` and `CircuitDiagram`: safety only; no
  fairness.

## 6. Proofs

All theorems hold for all values of the constants that satisfy the module's named
assumption: positive limit, window and resolution and disjoint keys for the
limiter; finitely many requests, at least one permit and one thread for the
service; finitely many threads for the registry; nothing but a natural number as
the limit for the session and for the number of lines; a catalogue that lists
prerequisites first, and values for "absent", "unreadable" and "none" that are no
others, for the page, the client and the tabs.

**Limiter.** `SlidingWindowBound` is not inductive: what an `Admit` may do depends
on the store, not on the history. The inductive invariant adds
`StoreIsRecentHistory` (a stored list is a suffix of the client's history and what
was cut off has left the window) and `HistoryOrdered`. `Prune` is a selection by
index, so lemmas about `Nth` show that pruning an ordered list drops a prefix; from
there every case is arithmetic on indices. `RetryAfterTight` adds the bounds of the
integer division. `ImplementsSlidingWindow` follows because, under the invariant,
the length of the kept list is the number of admissions in the window. For
`AnonNeverLimited` the invariant is that a key not drawn yet has no entry.

**Service.** `PermitsAccountedFor` needs the set `Holders` to grow and shrink by one
with the permits; the invariant adds which phases may have a child, that a request
past its checks is clean, and that an outcome is only set on the way out. For
`AnswersAreDue` it also carries the answer from the moment it is decided
(`SettledIsDue`), for a request in the pool that it came with a target and a program
(`Submitted`), and for one at the lookup that it is not an `execute`, which therefore
never fails with the catalogue.
`ChildrenAreBounded` follows by cardinality. The refinement maps the phases to the
three sets of `BoundedExecutor`. `WorkIsDoneOnce` is a variant: every step takes one
request to a phase of higher `Rank` and leaves the others where they are. It is the
part of "every submission is answered" that needs no fairness: no run of the service
goes on for ever. That it stops nowhere but with every submission answered is what the
deadlock check and `EverySubmissionAnswered` show in the run `service`.

**Session.** The verdict is taken from the result alone, after the child and its
namespace are gone, so the invariant carries what status and output tell of the run:
status 0 and a marker mean right values or one of the two exceptions (`ZeroIsHonest`,
which needs `CleanNamespace`, that the builtins are `Genuine` when the assertions run), a
validation that ended left both (`ValidatedIsMarked`), and the result is that run's
(`ResultIsOfRun`). `VerdictIsExact` needs all three in both directions: status 0 with a
marker also means that the validation ran to its end, or that learner code ended the run
with both.
`TruncatedProperties` is the lemma about the cut: it never brings a marker in, and
loses one only from output with more characters than the limit. `OutputIsBounded`
is a lemma about the length of what is kept, carried through `Collect`.

**Registry.** `BuiltAtMostOncePerReset` counts: a thread between `Reset` and `Clear`
has paid for a dict that is not cleared yet. The invariant says that dicts built,
plus one if there is none, plus the threads about to clear never exceed resets plus
one. `LockedView` says what a thread inside the lock may rely on, `FastView` what one
between the two reads of the fast path may: there is a dict, or the call is in
`overlapped`. From these `Refinement` follows for any threads, resets and failures: a
call is answered at its second read (`FastReturn`, `SlowReturn`) or where its own load
raises, and the steps around them are stutters of the cell. Only `OneForAll`, that all
callers get the same dict, assumes `Resetters = {}`, the running server.

**Page.** The invariant has five parts: the shape of what the page shows, the requests
in flight, the shape of results, `SpinnerIsBacked` and what is recorded.
Each is kept given those before it. `CompletionIsEarned` and `NothingIsLost` (no step
removes a stored completion) are proved action by action and need no invariant, only which
steps write (`StoredSteps`). `Refinement` maps a slot to the
kata of the submission it holds, and to "none" while it holds a run or nothing. The
lemmas about that map say that each answer clears one slot and that neither navigation
nor `GoHome` loses a submission. That the page shows the book after a pass holds because
`MarkCompleted` adds to `stored`, not to `snapshot`.

**Client.** Detection goes through three stages: not begun, one call in it and every
other one early, ended; `useMock` is settled in the last (`Detection`). `Tries` relates
a call's place to how often it was sent, and `ByMode` says of every call in flight, not only of the answered
ones, which mode it was sent in. `Refinement` takes the mode as unknown until
`Detection` reaches its last stage; that the call which ends detection is not an early
one, and that all others are, is the part of `Detection` that it needs. `RightMode`
assumes that the host routes both paths or neither (`RoutesBothOrNone`), which is what
the development server violates.

**Tabs.** Progress and hints are separate halves of the invariant, since no step of
one touches the other. That an up-to-date panel shows the stored count
(`ShownIsStored`, `HintsAreStored`) is what `HintsGrow` rests on: such a panel's click
stores what it shows plus one. `NeverStuck` takes the least uncompleted kata, which exists
because prerequisites come first in the catalogue; `LastIsCelebrated` is by
cardinality. `BannerIsTrue` is the converse as well, that banner and full bar appear
only when every kata is shown as completed. It has two hypotheses that the code does not
enforce: no ids of an older catalogue are stored (`Former = {}`), as for a learner who
has used only today's, and fewer than 200 katas (there are ten), since `Math.round`
makes 100 of 99.5.

**Diagram.** The flag says whether a circuit is open before the line the loop is at,
and what was taken so far is the reference's; where the early return leaves the loop
out there is no wire, hence nothing in the reference.

Not provable with this prover and left to TLC: liveness (`EverySubmissionAnswered`,
`EveryCallEnds`, `ButtonsComeBack`, `EveryCallSettles`) and the fairness part of
`ImplementsBoundedExecutor` (the theorem proves its safety part, `BE!SafeSpec`).
The abstract specifications of the limiter, the registry, the client and the page state
safety only, so their refinements are proved whole. Every other property of a passing
run is a theorem. The other way round, theorems that no run repeats: the type invariants
(`TypeOK`), `StoreIsRecentHistory` and `ShownIsStored`, parts of the inductive
invariants;
`ChildrenAreBounded`, `NothingIsLost` and `ModesNeverMix`, which follow from what the
runs check; the variant `WorkIsDoneOnce`; and `OneForAll` and `BannerIsTrue`, for
particular constants.

## 7. Not modelled

- What learner code computes: values in `JudgeSession`, an outcome in
  `ExecutionService`. What the static checks accept: an outcome there. They are four
  walks over a syntax tree that keep no state and test each node against fixed sets
  of names; a model would list the same sets again.
- In a session: stderr, whose truncation is the same code, the guarded import, and
  the splitting of stdin at NUL.
- `len(code) > MAX_CODE_LENGTH` in the service: the request models refuse such a
  body with 422 before the handler runs.
- The FastAPI application object, CORS, `/health`, logging, the data classes and
  the views that only lay out their props.
- The gap between a commit and its passive effect in React, which `Navigate` takes
  as one step; background refetches of a stale detail, which keep the old data.
- Stored hint counts that are negative or fractional, which the code never writes.
- A host that answers unrouted paths with an error instead of the page. Detection takes
  both for "no backend"; but to an early call of `fetchKataDetail` (`api.ts:79`) a 404 of
  such a host is "not found", which `NullMeansUnknown` does not cover.
- Two tabs between each other's reading and writing of localStorage: `markCompleted` and
  `showNextHint` read, change and write within one turn of the event loop, which is taken
  as atomic among all tabs. Browsers that run tabs in several processes do not promise it.
- That the query client shares a call between the components that ask for the same
  query: each call of the model may be such a shared one. `setMockMode`, which is for
  tests.
- The sections of the list per category, and the other views' layout.
