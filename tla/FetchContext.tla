---------------------------- MODULE FetchContext ----------------------------
(***************************************************************************)
(* The Emscripten backend: fetch_context and its fetch_requests.  Main     *)
(* owns the list, the fetches and, through the browser's event loop, every *)
(* fetch callback; once the browser has answered, the request's worker     *)
(* half is given to the program's submitter, which may run it at once, on  *)
(* another thread, or never; cancel comes from any thread.                 *)
(*                                                                         *)
(* Assumed: the browser calls back from main's event loop only, never from *)
(* inside emscripten_fetch, and calls onsuccess for a status 2xx; a        *)
(* submitter does not call the context back, runs a task once at most, and *)
(* has kept no task when it throws.  Closing a fetch is one step here;     *)
(* FetchLifetime takes it apart, and with it the nesting of main's calls.  *)
(***************************************************************************)
EXTENDS Naturals, Sequences, SequencesExt

CONSTANTS
    Requests,        \* the request objects made by this context
    Configs,         \* a subset of Config: the request_configs tried
    Statuses,        \* the statuses the browser reports, 0 for no answer
    Bodies,          \* the bodies a POST can be given
    SubmitterThrows, \* whether the submitter may throw
    ThrowsBound      \* bound: throws counted in one submission

Config == [resume : BOOLEAN, fail_on_http_error : BOOLEAN]

ASSUME FetchConfigsAssumption == Configs \subseteq Config
ASSUME FetchStatusesAssumption == Statuses \subseteq 0..999
ASSUME FetchThrowsAssumption ==
    SubmitterThrows \in BOOLEAN /\ ThrowsBound \in Nat \ {0}

VARIABLES
    life,       \* "open", "closing", "destroyed": the context
    unhandled,  \* m_UnhandledRequests
    main,       \* where main is: its event loop, the submitter, or a poll
    config,     \* m_Config of each request, fixed
    fetching,   \* m_pFetch is set, and its userData holds the request
    inFlight,   \* m_bInFlight
    cancelled,  \* m_bCancelled
    locked,     \* m_bResponseLocked
    error,      \* m_RequestError
    exception,  \* m_HandlerException: the ordinal of the throw, 0 for null
    body,       \* m_PostData, which emscripten reads in place
    answer,     \* what main_finish passes to the worker half
    half        \* the task_state: "none", "offered" to the submitter,
                \* "kept" by it, "started", "spent"

(* History, of a request's last submission.                                *)
VARIABLES
    sent,       \* the body it was submitted with
    thrown,     \* how often its handler, or the submitter over it, threw
    timely,     \* whether cancel came before the worker half began
    heard,      \* whether the handler was given the response
    dropped,    \* whether the worker half was destroyed unrun
    told        \* what main told the program

flags == <<inFlight, cancelled, locked, error, exception, body>>
history == <<sent, thrown, timely, heard, dropped, told>>
vars == <<life, unhandled, main, config, fetching, flags, answer, half, history>>

Errors == {"none", "timed_out", "network_error", "cancelled", "handler_threw",
           "aborted_by_handler", "range_not_satisfied", "http_error"}
Reports == ({"success", "rethrown"} \cup Errors) \ {"none", "handler_threw"}
Throws == 0..ThrowsBound
Untold == [report |-> "nothing", exception |-> 0]
NoAnswer == [status |-> 0, copied |-> FALSE]

Loop == [at |-> "loop", request |-> "none", index |-> 0]
Submitter(r) == [at |-> "submitter", request |-> r, index |-> 0]
Poll(at, i) == [at |-> at, request |-> "none", index |-> i]

Listed == Range(unhandled)
Unrun == {"offered", "kept"}

TypeOK ==
    /\ life \in {"open", "closing", "destroyed"}
    /\ unhandled \in Seq(Requests)
    /\ main \in [at : {"loop", "submitter", "aborting", "claiming"},
                 request : Requests \cup {"none"}, index : Nat]
    /\ config \in [Requests -> Configs]
    /\ fetching \in [Requests -> BOOLEAN]
    /\ inFlight \in [Requests -> BOOLEAN]
    /\ cancelled \in [Requests -> BOOLEAN]
    /\ locked \in [Requests -> BOOLEAN]
    /\ error \in [Requests -> Errors]
    /\ exception \in [Requests -> Throws]
    /\ body \in [Requests -> Bodies]
    /\ answer \in [Requests -> [status : Statuses \cup {0}, copied : BOOLEAN]]
    /\ half \in [Requests -> {"none", "offered", "kept", "started", "spent"}]
    /\ sent \in [Requests -> Bodies]
    /\ thrown \in [Requests -> Throws]
    /\ timely \in [Requests -> BOOLEAN]
    /\ heard \in [Requests -> BOOLEAN]
    /\ dropped \in [Requests -> BOOLEAN]
    /\ told \in [Requests -> [report : Reports, exception : Throws] \cup {Untold}]

All(value) == [r \in Requests |-> value]

Init ==
    /\ life = "open"
    /\ unhandled = <<>>
    /\ main = Loop
    /\ config \in [Requests -> Configs]
    /\ fetching = All(FALSE)
    /\ inFlight = All(FALSE)
    /\ cancelled = All(FALSE)
    /\ locked = All(TRUE)
    /\ error = All("none")
    /\ exception = All(0)
    /\ body \in [Requests -> Bodies]
    /\ answer = All(NoAnswer)
    /\ half = All("none")
    /\ sent = body
    /\ thrown = All(0)
    /\ timely = All(FALSE)
    /\ heard = All(FALSE)
    /\ dropped = All(FALSE)
    /\ told = All(Untold)

InLoop == main = Loop

-----------------------------------------------------------------------------
(* Submission.                                                             *)

(* try_submit: the early returns ...                                       *)
MayTry(r) == ~inFlight[r] /\ life = "open"

(* ... and what it resets before main_on_submit.                           *)
Reset_KeepsError(r) ==
    /\ cancelled' = [cancelled EXCEPT ![r] = FALSE]
    /\ locked' = [locked EXCEPT ![r] = TRUE]
    /\ exception' = [exception EXCEPT ![r] = 0]
    /\ UNCHANGED error
Reset(r) ==
    /\ cancelled' = [cancelled EXCEPT ![r] = FALSE]
    /\ locked' = [locked EXCEPT ![r] = TRUE]
    /\ exception' = [exception EXCEPT ![r] = 0]
    /\ error' = [error EXCEPT ![r] = "none"]

TrySubmit(r) ==
    /\ InLoop /\ MayTry(r)
    /\ Reset(r)
    /\ inFlight' = [inFlight EXCEPT ![r] = TRUE]
    /\ fetching' = [fetching EXCEPT ![r] = TRUE]
    /\ unhandled' = Append(unhandled, r)
    /\ half' = [half EXCEPT ![r] = "none"]
    /\ answer' = [answer EXCEPT ![r] = NoAnswer]
    /\ sent' = [sent EXCEPT ![r] = body[r]]
    /\ thrown' = [thrown EXCEPT ![r] = 0]
    /\ timely' = [timely EXCEPT ![r] = FALSE]
    /\ heard' = [heard EXCEPT ![r] = FALSE]
    /\ dropped' = [dropped EXCEPT ![r] = FALSE]
    /\ told' = [told EXCEPT ![r] = Untold]
    /\ UNCHANGED <<life, main, config, body>>

(* try_submit, main_on_submit throwing or emscripten_fetch returning null: *)
(* nothing is in flight or listed.                                         *)
SubmitRefused(r) ==
    /\ InLoop /\ MayTry(r)
    /\ Reset(r)
    /\ UNCHANGED <<life, unhandled, main, config, fetching, inFlight, body,
                   answer, half, history>>

(* fetch_post::try_update_postdata.                                        *)
TryUpdatePostdata(r, b) ==
    /\ InLoop /\ ~inFlight[r]
    /\ body' = [body EXCEPT ![r] = b]
    /\ UNCHANGED <<life, unhandled, main, config, fetching, inFlight, cancelled,
                   locked, error, exception, answer, half, history>>

(* cancel, from any thread; cancel_all, from main.                         *)
CancelSet(S) ==
    /\ cancelled' = [r \in Requests |-> cancelled[r] \/ r \in S]
    /\ timely' = [r \in Requests |-> timely[r] \/
                     (r \in S /\ inFlight[r] /\ ~heard[r] /\ half[r] # "spent")]

Cancel(r) ==
    /\ CancelSet({r})
    /\ UNCHANGED <<life, unhandled, main, config, fetching, inFlight, locked,
                   error, exception, body, answer, half, sent, thrown, heard,
                   dropped, told>>

CancelAll ==
    /\ InLoop /\ life = "open"
    /\ CancelSet(Listed)
    /\ UNCHANGED <<life, unhandled, main, config, fetching, inFlight, locked,
                   error, exception, body, answer, half, sent, thrown, heard,
                   dropped, told>>

-----------------------------------------------------------------------------
(* The browser calls back.                                                 *)

(* One more throw of request r: the first is kept.                         *)
Capture_Last(r) ==
    /\ thrown[r] < ThrowsBound
    /\ thrown' = [thrown EXCEPT ![r] = @ + 1]
    /\ exception' = [exception EXCEPT ![r] = thrown[r] + 1]
Capture(r) ==
    /\ thrown[r] < ThrowsBound
    /\ thrown' = [thrown EXCEPT ![r] = @ + 1]
    /\ exception' = [exception EXCEPT ![r] = IF @ = 0 THEN thrown[r] + 1 ELSE @]

(* on_progress, the handler throwing: otherwise it changes nothing here.   *)
OnProgress(r) ==
    /\ InLoop /\ fetching[r] /\ ~cancelled[r]
    /\ Capture(r)
    /\ UNCHANGED <<life, unhandled, main, config, fetching, inFlight, cancelled,
                   locked, error, body, answer, half, sent, timely, heard,
                   dropped, told>>

(* on_success and on_error: main_finish, up to its call of the submitter.  *)
OnAnswer(r, status) ==
    /\ InLoop /\ fetching[r]
    /\ answer' = [answer EXCEPT ![r] =
                     [status |-> status, copied |-> ~cancelled[r]]]
    /\ fetching' = [fetching EXCEPT ![r] = FALSE]
    /\ half' = [half EXCEPT ![r] = "offered"]
    /\ main' = Submitter(r)
    /\ UNCHANGED <<life, unhandled, config, flags, history>>

(* ~task_state, of a task that never ran.                                  *)
Drop_KeepsLock(r) ==
    /\ error' = [error EXCEPT ![r] = "cancelled"]
    /\ half' = [half EXCEPT ![r] = "spent"]
    /\ dropped' = [dropped EXCEPT ![r] = TRUE]
    /\ UNCHANGED locked
Drop(r) ==
    /\ error' = [error EXCEPT ![r] = "cancelled"]
    /\ locked' = [locked EXCEPT ![r] = FALSE]
    /\ half' = [half EXCEPT ![r] = "spent"]
    /\ dropped' = [dropped EXCEPT ![r] = TRUE]

(* The submitter returns, having kept, run or discarded the task.          *)
SubmitReturn(r) ==
    /\ main = Submitter(r)
    /\ main' = Loop
    /\ \/ /\ half[r] = "offered"
          /\ half' = [half EXCEPT ![r] = "kept"]
          /\ UNCHANGED <<error, locked, dropped>>
       \/ half[r] = "offered" /\ Drop(r)
       \/ half[r] # "offered" /\ UNCHANGED <<error, locked, half, dropped>>
    /\ UNCHANGED <<life, unhandled, config, fetching, inFlight, cancelled,
                   exception, body, answer, sent, thrown, timely, heard, told>>

(* The submitter throws: its exception replaces any the handler threw.     *)
SubmitThrow(r) ==
    /\ SubmitterThrows
    /\ main = Submitter(r)
    /\ main' = Loop
    /\ thrown[r] < ThrowsBound
    /\ thrown' = [thrown EXCEPT ![r] = @ + 1]
    /\ exception' = [exception EXCEPT ![r] = thrown[r] + 1]
    /\ \/ half[r] = "offered" /\ Drop(r)
       \/ half[r] = "spent" /\ UNCHANGED <<error, locked, half, dropped>>
    /\ UNCHANGED <<life, unhandled, config, fetching, inFlight, cancelled, body,
                   answer, sent, timely, heard, told>>

-----------------------------------------------------------------------------
(* The worker half.                                                        *)

(* A pool destroys a task it kept.                                         *)
PoolDrop(r) ==
    /\ half[r] = "kept"
    /\ Drop(r)
    /\ UNCHANGED <<life, unhandled, main, config, fetching, inFlight, cancelled,
                   exception, body, answer, sent, thrown, timely, heard, told>>

(* The task begins: its second look at the cancel flag.                    *)
HalfStart_LooksAtCopy(r) ==
    /\ half[r] \in Unrun
    /\ half' = [half EXCEPT ![r] = "started"]
    /\ heard' = [heard EXCEPT ![r] = TRUE]
    /\ UNCHANGED <<error, locked>>
    /\ UNCHANGED <<life, unhandled, main, config, fetching, inFlight, cancelled,
                   exception, body, answer, sent, thrown, timely, dropped, told>>
HalfStart(r) ==
    /\ half[r] \in Unrun
    /\ IF cancelled[r]
       THEN /\ error' = [error EXCEPT ![r] = "cancelled"]
            /\ locked' = [locked EXCEPT ![r] = FALSE]
            /\ half' = [half EXCEPT ![r] = "spent"]
            /\ UNCHANGED heard
       ELSE /\ half' = [half EXCEPT ![r] = "started"]
            /\ heard' = [heard EXCEPT ![r] = TRUE]
            /\ UNCHANGED <<error, locked>>
    /\ UNCHANGED <<life, unhandled, main, config, fetching, inFlight, cancelled,
                   exception, body, answer, sent, thrown, timely, dropped, told>>

(* The errors the task can decide on, nothing having thrown: the time      *)
(* taken, the length of the body and the handler's refusal are left open;  *)
(* error[r] stands for leaving m_RequestError as it is, worker_on_complete *)
(* having been called.                                                     *)
Failed(r) ==
    /\ answer[r].status \notin 200..299
    /\ answer[r].status = 0 \/
       (answer[r].status >= 400 /\ config[r].fail_on_http_error)
HalfErrors(r) ==
    IF Failed(r)
    THEN IF answer[r].status # 0 THEN {"http_error"}
                                 ELSE {"timed_out", "network_error"}
    ELSE IF config[r].resume /\ answer[r].status # 206
         THEN {"range_not_satisfied"}
         ELSE {"aborted_by_handler", error[r]}

HalfEnd(r) ==
    /\ half[r] = "started"
    /\ half' = [half EXCEPT ![r] = "spent"]
    /\ \/ \E e \in HalfErrors(r) : error' = [error EXCEPT ![r] =
                IF exception[r] # 0 THEN "handler_threw" ELSE e]
          /\ UNCHANGED <<thrown, exception>>
       \/ Capture(r) /\ error' = [error EXCEPT ![r] = "handler_threw"]
    /\ locked' = [locked EXCEPT ![r] = FALSE]
    /\ UNCHANGED <<life, unhandled, main, config, fetching, inFlight, cancelled,
                   body, answer, sent, timely, heard, dropped, told>>

-----------------------------------------------------------------------------
(* main_try_handle_completed_request.                                      *)

Beyond(i) == i > Len(unhandled)

StartPoll ==
    /\ InLoop /\ life = "open"
    /\ main' = Poll("aborting", 1)
    /\ UNCHANGED <<life, unhandled, config, fetching, flags, answer, half, history>>

(* main_abort_if_cancelled, for each request in turn.                      *)
AbortStep_KeepsLock ==
    LET i == main.index
        r == unhandled[i]
    IN
    /\ main.at = "aborting" /\ ~Beyond(i)
    /\ main' = Poll("aborting", i + 1)
    /\ fetching' = [fetching EXCEPT ![r] = @ /\ ~cancelled[r]]
    /\ UNCHANGED <<life, unhandled, config, flags, answer, half, history>>
AbortStep ==
    LET i == main.index
        r == unhandled[i]
    IN
    /\ main.at = "aborting" /\ ~Beyond(i)
    /\ main' = Poll("aborting", i + 1)
    /\ IF inFlight[r] /\ cancelled[r] /\ fetching[r]
       THEN /\ fetching' = [fetching EXCEPT ![r] = FALSE]
            /\ error' = [error EXCEPT ![r] = "cancelled"]
            /\ locked' = [locked EXCEPT ![r] = FALSE]
       ELSE UNCHANGED <<fetching, error, locked>>
    /\ UNCHANGED <<life, unhandled, config, inFlight, cancelled, exception,
                   body, answer, half, history>>

AbortsDone ==
    /\ main.at = "aborting" /\ Beyond(main.index)
    /\ main' = Poll("claiming", 1)
    /\ UNCHANGED <<life, unhandled, config, fetching, flags, answer, half, history>>

(* main_try_claim fails.                                                   *)
ClaimNext ==
    /\ main.at = "claiming" /\ ~Beyond(main.index)
    /\ locked[unhandled[main.index]]
    /\ main' = Poll("claiming", main.index + 1)
    /\ UNCHANGED <<life, unhandled, config, fetching, flags, answer, half, history>>

PollEnd ==
    /\ main.at = "claiming" /\ Beyond(main.index)
    /\ main' = Loop
    /\ UNCHANGED <<life, unhandled, config, fetching, flags, answer, half, history>>

(* main_run_handlers.                                                      *)
Report(r) ==
    [report |-> IF exception[r] # 0 THEN "rethrown"
                ELSE IF error[r] = "none" THEN "success" ELSE error[r],
     exception |-> exception[r]]

DropAt_Front(i) == Tail(unhandled)
DropAt(i) == RemoveAt(unhandled, i)

Handle ==
    LET i == main.index
        r == unhandled[i]
    IN
    /\ main.at = "claiming" /\ ~Beyond(i)
    /\ ~locked[r]
    /\ main' = Loop
    /\ unhandled' = DropAt(i)
    /\ locked' = [locked EXCEPT ![r] = TRUE]
    /\ inFlight' = [inFlight EXCEPT ![r] = FALSE]
    /\ fetching' = [fetching EXCEPT ![r] = FALSE]
    /\ exception' = [exception EXCEPT ![r] = 0]
    /\ told' = [told EXCEPT ![r] = Report(r)]
    /\ UNCHANGED <<life, config, cancelled, error, body, answer, half, sent,
                   thrown, timely, heard, dropped>>

-----------------------------------------------------------------------------
(* The destructor: main_abandon for every request, then the list dies.     *)

BeginDestroy_NoClose ==
    /\ InLoop /\ life = "open"
    /\ life' = "closing"
    /\ CancelSet(Listed)
    /\ UNCHANGED <<unhandled, main, config, fetching, inFlight, locked, error,
                   exception, body, answer, half, sent, thrown, heard, dropped,
                   told>>
BeginDestroy ==
    /\ InLoop /\ life = "open"
    /\ life' = "closing"
    /\ CancelSet(Listed)
    /\ fetching' = [r \in Requests |-> fetching[r] /\ r \notin Listed]
    /\ UNCHANGED <<unhandled, main, config, inFlight, locked, error, exception,
                   body, answer, half, sent, thrown, heard, dropped, told>>

EndDestroy ==
    /\ life = "closing"
    /\ life' = "destroyed"
    /\ unhandled' = <<>>
    /\ UNCHANGED <<main, config, fetching, flags, answer, half, history>>

-----------------------------------------------------------------------------

Polling == StartPoll \/ AbortStep \/ AbortsDone \/ ClaimNext \/ PollEnd \/ Handle

Pool(r) == HalfStart(r) \/ PoolDrop(r)

Answered(r) == \E status \in Statuses : OnAnswer(r, status)

Next ==
    \/ \E r \in Requests :
          \/ TrySubmit(r) \/ SubmitRefused(r)
          \/ \E b \in Bodies : TryUpdatePostdata(r, b)
          \/ Cancel(r)
          \/ OnProgress(r) \/ Answered(r)
          \/ SubmitReturn(r) \/ SubmitThrow(r)
          \/ HalfStart(r) \/ HalfEnd(r) \/ PoolDrop(r)
    \/ CancelAll
    \/ Polling
    \/ BeginDestroy \/ EndDestroy

Spec == Init /\ [][Next]_vars

(* Main goes on polling, the submitter returns, and a pool runs or drops   *)
(* what it was given.                                                      *)
Fairness ==
    /\ WF_vars(Polling)
    /\ \A r \in Requests : /\ WF_vars(SubmitReturn(r))
                           /\ WF_vars(Pool(r))
                           /\ WF_vars(HalfEnd(r))

FairSpec == Spec /\ Fairness

(* That the browser answers every fetch is assumed apart, and strongly: its*)
(* answer waits for main's event loop, to which main keeps returning.      *)
BrowserAnswers == \A r \in Requests : SF_vars(Answered(r))

-----------------------------------------------------------------------------
(* What must hold.                                                         *)

(* While a fetch is pending its request is the browser's alone: in flight, *)
(* listed, locked, with no worker half yet, its POST body as submitted     *)
(* (try_submit, main_finish, main_abort_if_cancelled, main_abandon).       *)
PendingIsPrivate ==
    \A r \in Requests : fetching[r] =>
        /\ life = "open"
        /\ inFlight[r] /\ r \in Listed /\ locked[r]
        /\ half[r] = "none"
        /\ body[r] = sent[r]

(* The list is exactly what is in flight, each request once, and a         *)
(* request main cannot claim yet has a fetch or a worker half that will    *)
(* unlock it, whatever the submitter did with the task.                    *)
NothingStranded ==
    life = "open" =>
        /\ \A i, j \in 1..Len(unhandled) : unhandled[i] = unhandled[j] => i = j
        /\ \A r \in Requests :
              /\ inFlight[r] = (r \in Listed)
              /\ inFlight[r] /\ locked[r] =>
                    fetching[r] \/ half[r] \in {"offered", "kept", "started"}

(* A request cancelled before its worker half began never hands its        *)
(* handler a response, and is told as cancelled unless something threw,    *)
(* though main_finish and the half each look at the flag by themselves.    *)
TimelyCancelWins ==
    \A r \in Requests : timely[r] =>
        /\ ~heard[r]
        /\ told[r] # Untold =>
              told[r].report = IF thrown[r] > 0 THEN "rethrown" ELSE "cancelled"

(* What main is told is this submission's: success only of a response that *)
(* was copied whole and of the status and range asked for, a failure only  *)
(* for its own reason, none left from an earlier submission                *)
(* (m_RequestError is reset by try_submit and by nothing else).            *)
ToldWhatHappened ==
    \A r \in Requests : told[r] # Untold =>
        LET report == told[r].report
            status == answer[r].status
        IN
        /\ report = "success" =>
              /\ heard[r] /\ answer[r].copied /\ ~dropped[r] /\ thrown[r] = 0
              /\ ~Failed(r)
              /\ config[r].resume => status = 206
        /\ report \in {"timed_out", "network_error"} => heard[r] /\ status = 0
        /\ report = "http_error" =>
              heard[r] /\ status >= 400 /\ config[r].fail_on_http_error
        /\ report = "range_not_satisfied" =>
              heard[r] /\ config[r].resume /\ status # 206
        /\ report = "cancelled" => ~heard[r] /\ (timely[r] \/ dropped[r])
        /\ (report = "rethrown") = (thrown[r] > 0)

(* The exception main rethrows is the first that was thrown over this      *)
(* submission (on_progress and the worker half keep an earlier one).       *)
FirstExceptionIsTold ==
    \A r \in Requests : told[r].report = "rethrown" => told[r].exception = 1

(* The context is an HttpContext whose destructor does not wait.  An       *)
(* answer counts as settled when main can next look at it: once it is      *)
(* unlocked and main has left the submitter, which may still throw.        *)
Contract == INSTANCE HttpContext WITH
    Verdicts <- [report : Reports, exception : Throws],
    NoVerdict <- Untold,
    ClosingWaits <- FALSE,
    stage    <- [r \in Requests |-> IF r \notin Listed THEN "idle"
                    ELSE IF locked[r] \/ main = Submitter(r) THEN "submitted"
                    ELSE "settled"],
    verdict  <- [r \in Requests |-> IF r \in Listed /\ ~locked[r]
                                       /\ main # Submitter(r)
                                    THEN Report(r) ELSE Untold],
    life     <- IF life = "destroyed" THEN "closed" ELSE life

ImplementsContract == Contract!Spec

(* If the browser answers, every submission is handled, unless the context *)
(* dies first: also when the submitter discards the task.                  *)
EverySubmissionIsHandled ==
    BrowserAnswers =>
    \A r \in Requests : (life = "open" /\ inFlight[r]) ~>
                        (~inFlight[r] \/ life # "open")

(* A cancelled fetch is handled by main's own polling, even if the browser *)
(* never answers it.                                                       *)
CancelIsPrompt ==
    \A r \in Requests : (life = "open" /\ inFlight[r] /\ cancelled[r]) ~>
                        (~inFlight[r] \/ life # "open")

=============================================================================
