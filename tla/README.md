# Verification of jfc-http

TLA+ models of jfc-http, model-checked with TLC, with proofs checked by TLAPS.
Paths are relative to the repository; `curl/` stands for `src/impl/curl/src/`
and `fetch/` for `src/impl/fetch/src/`.

## The system

jfc-http makes HTTP requests on workers and tells the results on one main
thread. A program makes a *context*, makes requests from it, submits them, and
asks the context now and then to handle one completed request. Where the work
runs is the program's business: it gives the context a *task submitter*, a
function that takes closures and runs them, or drops them, when and where it
likes.

| component | state it keeps | operations | talks to |
|---|---|---|---|
| `context`, `request`, `response_handler` (`src/include`) | none: interfaces | `make_*`, `main_try_handle_completed_request`, `cancel_all`; `try_submit`, `cancel`; the handler's callbacks | the program |
| `curl_context` (`curl/curl_context.cpp`) | list of unhandled requests, count of live `task_state`s (shared with them), policy, share | `submit`, polling, `cancel_all`, destructor | requests, the submitter, workers through the count |
| `task_state` (inside `curl_context::submit`) | reference to the request, `ran` | destructor: abandon if not run, decrement, notify | request, destructor of the context |
| `curl_request` (`curl/curl_request.cpp`) | `m_bInFlight` (main), `m_bCancelled` (any thread), `m_bResponseLocked` (hand-over), `m_RequestError` and `m_HandlerException` (owner of the lock), curl handle, `response_sink` | `try_submit`, `cancel`, `worker_fetch_task`, `worker_abandon`, `main_try_claim`, `main_run_handlers`, libcurl's callbacks | context, libcurl, handler |
| `curl_post`, `curl_get` | the POST body | `try_update_postdata` | worker reads the body |
| `curl_share`, `curl_global` | libcurl's share handle with a mutex per kind of data; libcurl's global reference count | lock and unlock callbacks, construction, destruction | libcurl |
| `buffering_response_handler` (`src/src`) | buffer, status, limit exceeded | the handler's callbacks | the functor overloads of `make_get`, `make_post` |
| `fetch_context`, `fetch_request` (`fetch/`) | as curl's, plus the pending `emscripten_fetch_t` and the time of submission | browser callbacks, `main_finish`, the worker half, `close_fetch` | the browser, the submitter |
| `null_context` | none | refuses everything | |
| the demo (`src/demo/main.cpp`), the fuzz target (`src/fuzz/header_fuzz.cpp`) | what they submitted, their threads; the text's position | `main`; one line at a time | a context; the header parser |
| serial submitter (`src/src/policy.cpp`), user agent, header comparison, exception | none | pure functions | |

### What is hard here, and what makes each part correct

*Main and workers share a request without a mutex.* `m_bInFlight` keeps main
from resubmitting it, `m_bResponseLocked` keeps main from reading its result
too early. Correct: at most one task at a time has the request; main claims
only finished results; the handler that runs is the one for *this* submission.

*The submitter is foreign code.* It may run the task in its call, keep it, drop
it, throw, or call the context back (poll, cancel, submit another request).
Correct: whatever it does, the list is the set of requests owed an answer, and
each of them can still get one.

*Cancellation comes from any thread at any time* and is cleared by a
resubmission. Correct: a cancellation made after the submission and before the
task starts keeps the request off the network.

*Destruction waits for workers* on an atomic count. Correct: no lost wake-up,
no early return, no deadlock with tasks that are dropped on main itself.

*A transfer is a sequence of callbacks* in which the handler may throw, refuse
data, or be overtaken by a cancellation, over several redirects. Correct: the
first exception wins, the error told is the right one, the bytes and the status
told are those of the final response.

*Everything above twice*: the fetch backend makes the same promises with the
browser's callbacks in place of curl's blocking call.

## Modules

| module | models |
|---|---|
| `HttpContext` | the contract of any backend: idle, submitted, settled, told; closing, with or without a wait |
| `CurlContext` | `curl_context`, `task_state`, the shared half of `curl_request`, `curl_post`'s body, the serial submitter, cancellation, destruction; the exchange is one step with any outcome |
| `CurlTransfer` | the exchange inside `perform_transfer`: `response_sink`, libcurl's three callbacks, the error classes, `buffering_response_handler`, over redirects and resubmissions |
| `CurlLifetime` | requests, their handles, shares with their locks, contexts, libcurl's global count |
| `FetchContext` | `fetch_context` and `fetch_request`: browser callbacks, `main_finish`, the worker half, abort, polling, destruction |
| `FetchLifetime` | `close_fetch` step by step, called from a callback, a poll, a handler's poll or the destructor; who keeps requests, fetches and holders alive |
| `HeaderText` | header and status line parsing in both backends, and the fuzz target's loop and assertion |
| `Demo` | `demo/main.cpp`, over the contract, and over the null backend in place of its own |
| `CurlContextProofs`, `CurlTransferProofs`, `FetchContextProofs`, `FetchLifetimeProofs`, `CurlLifetimeProofs`, `HeaderTextProofs`, `DemoProofs` | the proofs; `RemovalLemmas` is shared by the two contexts |
| `MC*` | instances for TLC |

`CurlContext`, `CurlTransfer` and `FetchContext` each implement `HttpContext`,
and `Demo` is composed with it: what holds of the demo over the contract holds
over each backend that waits. `CurlContext` and `CurlTransfer` divide one
component: in the first a transfer is a single step with any outcome, in the
second there is one request and the outcome is worked out. What the first takes
for granted of a worker is a property of the second, `ExchangeIsATask`: from its
submission until main handles it, every step of an exchange is a step that
`CurlContext` allows a task to take, or changes nothing `CurlContext` knows of.
Submission and polling are several steps in `CurlContext` and stay outside it.

### `CurlContext`, variable by variable

`unhandled`, `inFlight`, `cancelled`, `locked`, `error`, `exception`, `body`
and `count` are the C++ members of the same meaning. `phase` and `taskReq` are
the `task_state` objects; their identities, `Tasks`, bound how many are alive at
once and are reused. Who holds a `task_state` is part of its phase: "offered"
means only the `submit` call that made it (its `pState` and the vector it lends
to the submitter), "queued" the pool as well, "ran" the pool after the task was
run, "spent" the call alone after it was run. When the last holder lets go, the
destructor goes through "dying" (`worker_abandon` done if it was not run),
"notifying" (`fetch_sub` done) and "free" (`notify_all` done). `frames` is the
stack of `m_Policy.submit` calls active on main, `scan` the loop index of
`main_try_handle_completed_request`, `life` and `loaded` the destructor's
program counter and its local variable. `outcome`, `told`, `doomed`, `promised`
and `reentered` are history: they record what happened for the properties.
`reentered` also tells `SubmitThrow` whether the submitter has called back.

Each action is one atomic step of one thread:

| actions | code |
|---|---|
| `TrySubmit`, `SubmitHookThrows`, `Keep`, `SubmitReturn`, `SubmitReturnLast`, `SubmitThrow` | `curl_request::try_submit` (378-402), `curl_context::submit` (82-125) |
| `Cancel`, `CancelAll`, `TryUpdatePostdata` | `cancel` (421-423), `cancel_all` (40-42), `curl_post.cpp` 25-30 |
| `TaskRun`, `TransferThrew`, `TransferStopped`, `TransferEnded`, `CompleteReturns`, `CompleteThrows`, `TaskFinish` | `worker_fetch_task` and `perform_transfer` (311-376) |
| `PoolDropHeld`, `PoolDropLast`, `Decrement`, `Notify` | `~task_state` (98-103) |
| `StartPoll`, `ScanPast`, `ScanEnd`, `Handle` | `main_try_handle_completed_request` (69-80), `main_try_claim`, `main_run_handlers` (404-419) |
| `BeginDestroy`, `DestroyLoad`, `DestroyCompare`, `EndDestroy` | `~curl_context` (31-38) |

`TrySubmit` is one step although it writes several variables: until the
submitter is called no other thread knows of the task, and what another thread
may do in between (`cancel`) commutes to before or after the store that clears
the flag. `cancel_all` is one step for the same reason: it only sets flags.
A handler run by `Handle` is user code on main; what it calls are main's next
steps, so a handler that resubmits or polls is covered. Two steps of a worker
between which it reads or writes nothing shared are one.

### `CurlTransfer`, step by step

`stage` is where the worker is: "queued", "performing" (in `curl_easy_perform`),
"closing" (a callback refused; libcurl reports progress once more), "returned",
"deciding" (`report_response_status` done), "completing" (in
`worker_on_complete`), "finishing" (the answer decided, the lock not yet given
up), "finished". `sink` is `response_sink`, `handler` what the
buffering handler holds, or what a handler of the program's own would, `wire`
libcurl and the server: the part of the response awaited, the response code, the
bytes of this response handed over, redirects followed, the result.

| actions | code (`curl_request.cpp`) |
|---|---|
| `Submit`, `Start` | `try_submit`, `worker_fetch_task` and `perform_transfer` up to `curl_easy_perform` |
| `StatusLine`, `HeaderLine`, `Chunk`, `Progress`, `ClosingProgress` | `receive_response_header`, `write_response_chunk`, `report_transfer_progress`, `capture_handler_exception`; `buffering_response_handler.cpp` |
| `Informational`, `Redirect`, `HttpError`, `RangeIgnored`, `BodyBegins`, `BodyEnds`, `TransportFailure` | libcurl: external |
| `Report`, `Decide`, `Complete`, `Finish` | `report_response_status`, the rest of `perform_transfer`, `_curlcode_to_error`, the catch and the last line of `worker_fetch_task` |
| `Handle`, `Cancel`, `Abandon` | `main_run_handlers`, `cancel`, `worker_abandon` |

The body is counted, not spelled: the properties need how much of it was handed
over and whether that exceeds `maximum_bytes`.

### `FetchContext`, step by step

Main owns the list, the fetches and, through the browser's event loop, every
browser callback, so `main` is a program counter: in the loop, inside the
submitter it called, or in one of the two passes of a poll. Each step of a pass
is one request, because the worker half and `cancel` run between them. `half` is
the `task_state`: offered to the submitter, kept by it, started, spent.

| actions | code (`fetch/`) |
|---|---|
| `TrySubmit`, `SubmitRefused`, `TryUpdatePostdata`, `Cancel`, `CancelAll` | `fetch_request.cpp` `try_submit`, `cancel`; `fetch_context.cpp` |
| `OnProgress`, `OnAnswer` | `on_progress`; `on_success` and `on_error` with `main_finish` up to its call of the submitter |
| `SubmitReturn`, `SubmitThrow`, `PoolDrop` | the end of `main_finish`; `~task_state` |
| `HalfStart`, `HalfEnd` | the worker half: its look at the flag, and all that follows |
| `StartPoll`, `AbortStep`, `AbortsDone`, `ClaimNext`, `PollEnd`, `Handle` | `main_try_handle_completed_request`, `main_abort_if_cancelled`, `main_try_claim`, `main_run_handlers` |
| `BeginDestroy`, `EndDestroy` | the destructor: `main_abandon` of each request, then the list |

The destructor of a `fetch_context` does not wait for worker halves, where that
of a `curl_context` does (`src/test/dispatch_test.cpp:123` tests that wait; the
test belongs to the curl build only). A half that is still running keeps its
request alive (`NothingDangles` in `FetchLifetime`) and touches nothing else, so
the contract has a constant, `ClosingWaits`, and `FetchContext` implements it
with FALSE.

### `FetchLifetime`, step by step

`close_fetch` clears `m_pFetch` and `userData`, calls `emscripten_fetch_close`,
which calls `on_error` back on a fetch that is still pending, and deletes the
holder. `calls` is the stack of main's calls, each with the request and the
fetch it has in hand: a handler run by a poll may submit, poll again and so
abort and close another request's fetch. `state`, `userData` and `holder` are a
fetch's memory, reused once freed; `alive`, `named`, `listed`, `working` and
`spent` are a request and what refers to it (the program, the list, a task_state
that has not unlocked it yet, and those that have and are not destroyed). The
answers and the two passes of a poll are `FetchContext`'s: here any listed
request may be the next to be aborted or claimed.

| actions | code (`fetch/`) |
|---|---|
| `TrySubmit`, `SubmitRefused`, `Cancel`, `DropName` | `try_submit`, `cancel`; the program |
| `Answer`, `OnAnswer`, `MainFinish`, `RunWorkerHalf`, `SubmitterReturns` | the browser; `on_success`, `on_error`; `main_finish` up to `close_fetch`, and after |
| `EmscriptenFetchClose`, `DeleteHolder` | the second half of `close_fetch`; its first is part of the caller's step |
| `TaskEnds`, `Release` | the worker half or `~task_state`; the last copy of the task |
| `Abort`, `AbortEnds`, `Claim`, `HandlerReturns` | `main_abort_if_cancelled`, before and after `close_fetch`; `main_try_claim`, the erasure and `main_run_handlers` |
| `BeginDestroy`, `Abandon`, `EndDestroy`, `Destroy` | `~fetch_context`, `main_abandon`; `~fetch_request` |

### `CurlLifetime`, `HeaderText`, `Demo`

In `CurlLifetime` a user of libcurl is a share or a request; `stage` is where
its constructor or destructor is, member by member in declaration order, and
what refers to a request is counted: the program, the list, the worker, and its
task_states before and after their `fetch_sub`. libcurl's global count is read
and written in two steps, so that only `g_GlobalMutex` makes it exact.
`HeaderText` takes a text as a sequence of tokens and runs both parsers over it.
`Demo` is `main` of the demo, one step per call it makes of the library. The
program as it stands makes a `curl_context`, which refuses none of its requests;
`Refused` is the same program over a `null_context`, so that its handling of a
refused submission (`main.cpp:112-117`) is checked too.

### Assumed of code outside the library

* the pool runs a task at most once, and a submitter that throws has kept none;
* `main_on_submit` does not submit the request it is called for;
* main destroys the context, not inside one of its calls (a call of
  `try_submit` holds a reference);
* the memory model is sequentially consistent: the orders used are
  acquire/release pairs on the flag that hands each piece of data over;
* memory is not exhausted inside `submit`;
* popping an empty list (`curl_context.cpp:122` after a submitter drained it) is
  undefined behaviour and not modelled: `SubmitThrow` is disabled there;
* libcurl makes no callback after one that refused but the closing progress
  report, hands over no body of a redirect it follows, knows the response code
  once it has a status line, and locks one of a share's caches at a time;
* the browser calls back from main's event loop only, never from inside
  `emscripten_fetch`, calls `onsuccess` for a status 2xx, and for a fetch that
  is closed while pending only `on_error`, from `emscripten_fetch_close`;
* the submitter of a fetch context and its `main_on_submit` do not call the
  context back;
* the demo can start its threads and its handlers do not throw.

The constant `Reentry` says what the submitter does in its call: "none" (never
calls the context back), "returns" (may, and then does not throw), "throws" (may
do both).

## Runs

| run | instance | shows |
|---|---|---|
| `context_safety` | 2 requests, 2 tasks, 1 body, all endings, `Reentry` "returns" | every safety property of `CurlContext`, and that it implements `HttpContext` |
| `post_body` | 1 request, 3 tasks, 2 bodies | the body a worker reads is the submitted one, over resubmissions |
| `context_liveness` | 2 requests, 2 tasks, transfers that complete or are stopped, `Reentry` "none", fairness | every submission is handled; the destructor returns |
| `reentrant_throw` | 2 requests, 2 tasks, `Reentry` "throws" | a violation: see Findings |
| `transfer` | every configuration, both kinds of handler, statuses 103, 200, 206, 302, 404, 1 redirect, bodies of up to 3 bytes against a limit of 2 | what main is told is what happened in this exchange, once; a cancelled transfer ends |
| `fetch_context` | 2 requests, statuses 0 and 200, a submitter that may throw, fairness | nothing is stranded, a timely cancellation wins, the contract is kept; a cancelled fetch is handled by polling alone; if the browser answers, every submission is handled |
| `fetch_answers` | 1 request, every configuration, statuses 0, 200, 206, 304, 404, 2 bodies, up to 3 throws | what main is told is this submission's; a pending fetch has its request to itself; the first exception is told |
| `fetch_lifetime` | 2 requests, 2 fetches, 2 spent task_states of a request, calls 3 deep | a submission ends once, although closing calls `on_error` back; nothing main uses is gone, no fetch is left behind |
| `fetch_first_exception` | 1 request, a submitter that throws | a violation: see Findings |
| `lifetime` | 2 contexts, 2 requests of one, 2 task_states each, fairness | libcurl, shares and requests outlive what uses them and are torn down in the end |
| `headers` | every text of up to 5 tokens | the fuzz target's trap is not reached, the backends agree, headers are those of the lines |
| `demo` | a GET and a POST, fairness | the exit status is honest; the program ends |

*Bounds.* Two requests are enough for a list to have an order, for a scan to pass one entry to
reach another, and for a nested submission inside a submitter's call. Two task_states are enough
for one request's old task to be dying while its new one runs, and for two requests at work at
once; `post_body` has three, so that two old ones coexist with a new one. `Tasks` is the only
bound on the number of submissions: they go on for ever. `count`, `scan` and the length of the
list are bounded by these. `context_liveness` leaves out the failing endings, which reach
"finishing" as the others do, and the re-entrant submitter; the runs with liveness properties
use no symmetry. In `transfer` the statuses are one of each kind the code tells apart
(informational, good, partial, redirect, error), one redirect lets a second hop follow a first
and exceed the limit, and three bytes in chunks pass a limit of two; submissions of the same
request repeat without bound. `ThrowsBound` stops counting at three throws of one submission: a
first, one to be kept out by it, and one more. Five tokens make a status line with a code, a
header with blanks on both sides of its name or value, or two lines. In `fetch_lifetime` three
calls inside one another are a handler that polls, a poll that aborts, and the close in it, with
the `on_error` called back above them; two fetches let one request's memory become another's. In
`lifetime` the second context makes no request: it stands for the others that share libcurl's
count.

*Properties of `CurlContext`.* `TaskOwnsRequest`: a task that owes the response
lock has its request, and no other task has. `OutstandingIsOwed`: the list is
the set of requests in flight, each once. `NothingStranded`: a listed request
that is locked has a task that will unlock it. `ToldWhatHappened`: the handler
run is the one for this submission's outcome. `CancelledBeforeStartNeverRuns`,
`BodyIsTheSubmittedOne`, `CountIsExact`, `DestroyedIsQuiet`: as named.
`NoWakeUpIsLost`: while the destructor is blocked in the count's `wait`, the
count is the value it compared, not zero, or a `notify_all` is on its way.
`ImplementsContract`: the refinement, whose closing step also says that the
destructor returns only when nothing is being settled.

*Of `CurlTransfer`.* `FirstExceptionIsTold`, although libcurl calls once more
after a callback that threw; `SuccessIsWhole`: a success is the last response,
whole, of its own status and of the range asked for; `TimelyCancelIsTold`: a
cancellation that can be seen when the outcome is decided is told as one, unless
the handler threw or the buffering handler's limit explains it; `RefusalIsTold`:
a refusal is told when it happened, and the limit is blamed only for a body over
it; `StatusIsTheServers`; `CancelledTransferEnds`; `ExchangeIsATask`: what
`CurlContext` takes one transfer to do.

*Of `FetchContext`.* `PendingIsPrivate`, `NothingStranded`, `TimelyCancelWins`,
`ToldWhatHappened`, `FirstExceptionIsTold`, `CancelIsPrompt`,
`EverySubmissionIsHandled`, as above for the browser's backend.

*Of `FetchLifetime`.* `EndedOnce`: a submission is unlocked for main once, by
its `task_state` or by an abort. `NothingDangles`: what each of main's calls has
in hand is still there, so is the request of a worker half that outlives the
context, a destroyed request has no fetch, and every fetch has someone who will
close it until it is freed.

*Of the others.* `GlobalCountIsExact`, `LibcurlOutlivesItsUsers`,
`ShareOutlivesHandles`, `RequestsOutliveTheirTasks`, `EverythingIsTornDown`;
`TrapIsNeverReached`, `BackendsAgree`, `HeadersAreTheLines` (against a
definition of a header by its place in the text, not by how it is found);
`ExitStatusIsHonest`, `ProgramEnds`.

Types are no property of a run: each module's `TypeOK` is a conjunct of its
inductive invariant and so proved, for all values of the constants.

*Fairness.* `CurlContext`: a submitter's call ends; a task given to the pool is
run or dropped and its steps go on, since a transfer ends by itself, by time-out
or by cancellation; main keeps polling, strongly fair since polling is disabled
while main is in another call; a call main has entered goes on. `CurlTransfer`:
the worker goes on and libcurl keeps reporting progress; nothing is assumed of
the network. `FetchContext`: main polls, the submitter returns, a pool runs or
drops what it was given, a running half ends; that the browser answers is a
premise of `EverySubmissionIsHandled` only. `CurlLifetime`: threads go on, a
mutex is given back, and in the end given to each thread that keeps asking (this
is what the strong fairness says). `Demo`: each thread of the program runs.
Nothing is assumed about who cancels, submits or destroys.

## Proofs

Everything below is for every value of the constants, under the named
assumptions of the modules (finite sets of tasks, contexts and requests; status
codes in their range; natural bounds).

`CurlContextProofs`:

* `TypesAndCount`: type correctness and `CountIsExact`, whatever the submitter
  does. They are proved together: the decrement stays a natural number only
  because the count is exact.
* `DestructorNeedsNoPromise`: `Spec => []BaseInv`, also whatever the submitter
  does, and from it `DestructionIsClean` and `DestructorIsWoken`. `BaseInv` is
  what the destructor rests on: the count, the frames of the submitter's calls,
  that nothing of main's is active once it began, and that the value it loaded
  is not zero when it waits for it to change.
* `ContextIsSafe`: `Spec => []IInv` for a submitter that does not both call the
  context back and throw (`Reentry # "throws"`), and one corollary for each of
  the other safety properties. The hypothesis is needed: the run
  `reentrant_throw` shows the conclusion false without it.

Its `IInv` adds to the properties: `StackInv` (frames are distinct and alive;
only the innermost is dying), `LifeInv` (nothing is active once the destructor
began), `AnswerInv` (a claimable or finished answer is this submission's),
`DoomInv` (a doomed request is cancelled and in flight, and a finished task of
it never ran) and `ThrowInv` (a frame that has not called back is the innermost,
its entry the last of the list, and no later task has its request), which is
what makes `pop_back` remove the right entry. From it follows that `CurlContext`
implements `HttpContext` (`ContextKeepsContract`): a
worker settles the request its task owns, a throwing submitter withdraws its
own, and the destructor closes only when `NothingStranded` and a count of zero
leave nothing locked.

`CurlTransferProofs`: `TransferInvariant` and from it every invariant of the run `transfer`,
`TransferKeepsContract` and `ExchangeStaysATask`, which has one step for each action of the
worker and of libcurl: that it is a task's. The strengthening says what the sink, the handler
and libcurl have in common at each stage: `ThrowInv` (when a throw may still come, hence at most
three), `CancelInv`, `ContentInv` (the handler holds the bytes of this response, short of the
chunk that ended it), `StatusInv`, `RefusalInv` (why a transfer was aborted), `SuccessInv`.

`FetchContextProofs`: `FetchInvariant` and from it every invariant of the fetch
runs, and `FetchKeepsContract`. `PhaseInv` is the heart: a request in flight is
fetching, then its half is busy, then it is unlocked, and never two of these;
`MainInv` says that a half is on offer only while main is in the submitter;
`CancelInv` relates the flag's three readers; `Settled` says what an unlocked
request will tell. `FirstExceptionIsRethrown` needs a submitter that does not
throw: see Findings.

`FetchLifetimeProofs`: `FetchLifetimeInvariant`, and from it
`SubmissionEndsOnce` and `NothingEverDangles`, for calls nested to any depth, and
`ClosingIsOneStep`: an `on_error` called back by a close returns at once, which
is why `FetchContext` may take a close as one step. The
invariant speaks of the stack pair by pair: `CallsInv` says which call may stand
on which (so an `on_error` above a close has that close's fetch, and an answer
that finishes a request is main's only call), `FetchInv` that a request's fetch
has the request until it is closed and that the one being closed has no
`userData` left, `EndInv` that what is about to end a submission is the only one
to, `ReferenceInv` that what is referred to is alive. Lemmas on the stack say
what each action keeps of it, so that a step looks only at the calls it changes.

`HeaderTextProofs`: `HeaderInvariant`, `TrapIsUnreachable`, `BackendsAlwaysAgree`
and `HeadersAreThoseOfTheLines`, for texts of any length. No induction over
texts is needed: the invariant says that what each loop has told so far are the
headers of the lines before the position it has reached, and a step adds the
line it reads.

`CurlLifetimeProofs`: `LifetimeInvariant` and from it every invariant of the run
`lifetime`; the strengthening is that one thread is inside `g_GlobalMutex` and
has read the present count, and that a context that is not gone has its share.
`DemoProofs`: `ExitStatusIsAlwaysHonest`, for any number of requests.

Each invariant was checked by TLC on the instances above before it was proved.
The proofs have one lemma for each part of an invariant and one step for each
action in it; lemmas on what the longer actions do to each field come first.

Only model-checked: the liveness properties (fairness is beyond the prover):
`EverySubmissionIsHandled`, `DestructorReturns`, `CancelledTransferEnds`,
`CancelIsPrompt`, `EverythingIsTornDown` and `ProgramEnds`. Every safety property of a passing
run is a theorem.

## Findings

`reentrant_throw`: when the submitter submits another request from its call and
then throws, `m_UnhandledRequests.pop_back()` (`curl_context.cpp:122`) removes
the other request's entry. The context then counts a request that is not
submitted, and forgets one that is: its handler never runs. On the same instance
TLC finds `TaskOwnsRequest`, `NothingStranded`, `ToldWhatHappened` and
`CancelledBeforeStartNeverRuns` violated too; the count and the destructor are
not affected (`TypesAndCount`, `DestructorNeedsNoPromise`).

`fetch_first_exception`: when the submitter throws, `main_finish`
(`fetch_request.cpp:268`) assigns `m_HandlerException` whether or not it holds
an exception the handler threw from `worker_on_progress`, while the other two
places that assign it keep the first. `src/test/handler_exception_test.cpp:171`
says that the first exception is the one delivered.

## Plan

Done: the contract, both contexts, the exchange, the lifetimes of both backends,
the header text and the demo; the invariants, the refinements and the worker's
part of `CurlContext` composed with `CurlTransfer` proved. What would be next, in
this order: a submitter that calls a fetch context back, as `CurlContext`
already has; `CurlContext` composed with `CurlTransfer` for two requests at
once; a model of the memory orders.

## Not modelled

* The functor overloads of `make_get` and `make_post`, the user agent, the
  comparison of header names and the exception class: stateless wrappers and
  string functions with no control of their own.
* The options set on a handle that change only what libcurl sends or accepts,
  and the check of request headers in the constructors: conditions on inputs
  that keep no state. `CurlLifetime` has the constructors' failures.
* libcurl, the browser and the server beyond the assumptions above.
* What the demo's handlers print, the tests and the build.
