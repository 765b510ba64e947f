---------------------------- MODULE CurlTransfer ----------------------------
(***************************************************************************)
(* One curl_request's exchange, over any number of submissions: the worker *)
(* in perform_transfer, libcurl calling the header, write and progress     *)
(* callbacks, the handler they reach, cancel from any thread, and what     *)
(* main is told in the end.  CurlContext has all of it as one step with    *)
(* any outcome; this module says which outcome is the right one.           *)
(*                                                                         *)
(* libcurl is external: the actions Redirect to TransportFailure decide    *)
(* what it does next, by its documentation.  Assumed of it: it makes no    *)
(* callback after one that refused but the closing progress report, and    *)
(* that one only if progress is not what refused; it hands over no body of *)
(* a redirect it follows; it knows the response code once it has a status  *)
(* line.  A handler is the buffering_response_handler or the program's own *)
(* class, which may refuse data, may throw from every callback, and starts *)
(* afresh in main_on_submit.                                               *)
(***************************************************************************)
EXTENDS Naturals

CONSTANTS
    Configs,        \* a subset of Config: the requests that are tried
    Statuses,       \* the status codes a server answers with
    MaximumHops,    \* request_config::maximum_redirects
    MaximumBytes,   \* buffering_config::maximum_bytes
    ContentBytes    \* bound: the longest body a server sends

Config == [resume : BOOLEAN, fail_on_http_error : BOOLEAN,
           follow_redirects : BOOLEAN, own_handler : BOOLEAN]

ASSUME ConfigsAssumption == Configs \subseteq Config
ASSUME StatusesAssumption == Statuses \subseteq 100..999
ASSUME BoundsAssumption ==
    MaximumHops \in Nat /\ MaximumBytes \in Nat /\ ContentBytes \in Nat

VARIABLES
    config,     \* the request_config and which handler, fixed
    stage,      \* how far this submission is
    cancelled,  \* m_bCancelled
    sink,       \* m_ResponseSink
    error,      \* m_RequestError
    exception,  \* m_HandlerException: the ordinal of the throw, 0 for null
    handler,    \* what the handler holds: m_Status, m_Buffer's size,
                \* m_bExceededLimit
    wire        \* libcurl and the server: the part of the response awaited,
                \* the response code, the content of this response handed
                \* over so far, redirects followed, curl_easy_perform's result

(* History.                                                                *)
VARIABLES
    thrown,     \* how often the handler has thrown in this submission
    refused,    \* whether it refused data
    timely,     \* whether cancel came before the worker decided
    told        \* what main told the program of this submission

requestVars == <<config, cancelled, error, exception>>
historyVars == <<thrown, refused, timely, told>>
vars == <<config, stage, cancelled, sink, error, exception, handler, wire,
          historyVars>>

Stages == {"idle", "queued", "performing", "closing", "returned", "deciding",
           "completing", "finishing", "finished"}
(* The worker is done with the exchange, and has perhaps given the lock    *)
(* back.                                                                   *)
Over == {"finishing", "finished"}
(* Before perform_transfer decides what the submission came to: a          *)
(* cancellation is seen by its look at the flag, the first of them if the  *)
(* task is still queued, unless a captured exception is reported instead.  *)
Undecided == {"queued", "performing", "closing", "returned", "deciding"}

TransportErrors == {"UNSUPPORTED_PROTOCOL", "COULDNT_CONNECT", "RECV_ERROR",
                    "OPERATION_TIMEDOUT", "PARTIAL_FILE"}
CurlCodes == TransportErrors \cup {"OK", "WRITE_ERROR", "ABORTED_BY_CALLBACK",
    "HTTP_RETURNED_ERROR", "RANGE_ERROR", "TOO_MANY_REDIRECTS"}

Errors == {"none", "unsupported_protocol", "network_error", "timed_out",
           "cancelled", "handler_threw", "aborted_by_handler",
           "too_many_redirects", "range_not_satisfied", "http_error",
           "unhandled_error"}

(* _curlcode_to_error.                                                     *)
ErrorOf == [c \in CurlCodes |->
    CASE c = "OK" -> "none"
      [] c = "UNSUPPORTED_PROTOCOL" -> "unsupported_protocol"
      [] c = "HTTP_RETURNED_ERROR" -> "http_error"
      [] c = "RANGE_ERROR" -> "range_not_satisfied"
      [] c = "TOO_MANY_REDIRECTS" -> "too_many_redirects"
      [] c \in {"ABORTED_BY_CALLBACK", "WRITE_ERROR"} -> "aborted_by_handler"
      [] c = "OPERATION_TIMEDOUT" -> "timed_out"
      [] c \in {"COULDNT_CONNECT", "RECV_ERROR"} -> "network_error"
      [] OTHER -> "unhandled_error"]

NewSink == [status |-> 0, reported |-> FALSE, aborted |-> FALSE, exception |-> 0]
NewHandler == [status |-> 0, held |-> 0, exceeded |-> FALSE]
NoWire == [part |-> "none", code |-> 0, content |-> 0, hops |-> 0, result |-> "OK"]

(* A submission's throws: one callback ends the transfer, the closing      *)
(* progress report and the status reported late may throw after it.        *)
Throw == 0..3

Sinks == [status : Statuses \cup {0}, reported : BOOLEAN, aborted : BOOLEAN,
          exception : Throw]
Handlers == [status : Statuses \cup {0}, held : 0..ContentBytes,
             exceeded : BOOLEAN]
Wires == [part : {"none", "status", "headers", "body"},
          code : Statuses \cup {0}, content : 0..ContentBytes,
          hops : 0..MaximumHops, result : CurlCodes]

Answers == [handler : {"success", "failure", "rethrown"},
            error : Errors \cup {"response_too_large"},
            status : Statuses \cup {0}, held : 0..ContentBytes,
            exception : Throw]
NotTold == [handler |-> "none", error |-> "none", status |-> 0, held |-> 0,
            exception |-> 0]

TypeOK ==
    /\ config \in Configs
    /\ stage \in Stages
    /\ cancelled \in BOOLEAN
    /\ sink \in Sinks
    /\ error \in Errors
    /\ exception \in Throw
    /\ handler \in Handlers
    /\ wire \in Wires
    /\ thrown \in Throw
    /\ refused \in BOOLEAN
    /\ timely \in BOOLEAN
    /\ told \in Answers \cup {NotTold}

Init ==
    /\ config \in Configs
    /\ stage = "idle"
    /\ cancelled = FALSE
    /\ sink = NewSink
    /\ error = "none"
    /\ exception = 0
    /\ handler = NewHandler
    /\ wire = NoWire
    /\ thrown = 0
    /\ refused = FALSE
    /\ timely = FALSE
    /\ told = NotTold

-----------------------------------------------------------------------------
(* Main, and any thread.                                                   *)

(* buffering_response_handler::main_on_submit.                             *)
MainOnSubmit_KeepsLimit == [NewHandler EXCEPT !.exceeded = handler.exceeded]
MainOnSubmit == NewHandler

(* try_submit, the context alive and nothing thrown.                       *)
Submit ==
    /\ stage = "idle"
    /\ stage' = "queued"
    /\ cancelled' = FALSE
    /\ handler' = MainOnSubmit
    /\ wire' = NoWire
    /\ thrown' = 0
    /\ refused' = FALSE
    /\ timely' = FALSE
    /\ told' = NotTold
    /\ UNCHANGED <<config, sink, error, exception>>

Cancel ==
    /\ cancelled' = TRUE
    /\ timely' = (timely \/ stage \in Undecided)
    /\ UNCHANGED <<config, stage, sink, error, exception, handler, wire,
                   thrown, refused, told>>

(* main_run_handlers and, below it, the buffering handler's two functors.  *)
Answer_LooksAtCancel ==
    LET sort == IF exception # 0 THEN "rethrown"
                ELSE IF error = "none" THEN "success" ELSE "failure"
    IN [handler |-> sort,
        error |-> IF cancelled THEN "cancelled" ELSE error,
        status |-> handler.status, held |-> handler.held,
        exception |-> exception]
Answer ==
    LET sort == IF exception # 0 THEN "rethrown"
                ELSE IF error = "none" THEN "success" ELSE "failure"
    IN [handler |-> sort,
        error |-> IF sort = "failure" /\ handler.exceeded
                  THEN "response_too_large" ELSE error,
        status |-> handler.status, held |-> handler.held,
        exception |-> exception]

Handle ==
    /\ stage = "finished"
    /\ stage' = "idle"
    /\ told' = Answer
    /\ exception' = 0
    /\ UNCHANGED <<config, cancelled, sink, error, handler, wire, thrown,
                   refused, timely>>

-----------------------------------------------------------------------------
(* The worker, before libcurl.                                             *)

(* worker_abandon.                                                         *)
Abandon ==
    /\ stage = "queued"
    /\ stage' = "finished"
    /\ exception' = 0
    /\ error' = "cancelled"
    /\ UNCHANGED <<config, cancelled, sink, handler, wire, historyVars>>

(* worker_fetch_task, up to curl_easy_perform.                             *)
Start ==
    /\ stage = "queued"
    /\ exception' = 0
    /\ sink' = NewSink
    /\ IF cancelled
       THEN /\ error' = "cancelled"
            /\ stage' = "finishing"
            /\ UNCHANGED wire
       ELSE /\ stage' = "performing"
            /\ wire' = [wire EXCEPT !.part = "status"]
            /\ UNCHANGED error
    /\ UNCHANGED <<config, cancelled, handler, historyVars>>

-----------------------------------------------------------------------------
(* What libcurl's callbacks do.                                            *)

Awaiting(part) == stage = "performing" /\ wire.part = part

(* libcurl gives the transfer up, or ends it, with a result.               *)
Stop(at, result) ==
    /\ stage' = "closing"
    /\ wire' = [at EXCEPT !.result = result]

(* capture_handler_exception: the handler threw, called with sink s.       *)
Capture_Last(s) == [s EXCEPT !.exception = thrown + 1, !.aborted = TRUE]
Capture(s) ==
    [s EXCEPT !.exception = IF @ = 0 THEN thrown + 1 ELSE @, !.aborted = TRUE]

Throws(s) ==
    /\ config.own_handler
    /\ sink' = Capture(s)
    /\ thrown' = thrown + 1

(* The sink and the wire once a status line has been read.                 *)
Read(code) == [sink EXCEPT !.status = code, !.reported = TRUE]
Answered(code) ==
    [wire EXCEPT !.part = "headers", !.code = code, !.content = 0]

(* receive_response_header, given a status line.                           *)
StatusLine(code) ==
    LET answered == Answered(code)
        read == Read(code)
    IN
    /\ Awaiting("status")
    /\ \/ /\ cancelled
          /\ Stop(answered, "WRITE_ERROR")
          /\ UNCHANGED <<sink, handler, thrown>>
       \/ /\ ~cancelled
          /\ handler' = [handler EXCEPT !.status = code]
          /\ \/ /\ sink' = read
                /\ wire' = answered
                /\ UNCHANGED <<stage, thrown>>
             \/ Throws(read) /\ Stop(answered, "WRITE_ERROR")
    /\ UNCHANGED <<requestVars, refused, timely, told>>

(* receive_response_header, given a header: one that is read changes       *)
(* nothing here.                                                           *)
HeaderLine ==
    /\ Awaiting("headers")
    /\ Stop(wire, "WRITE_ERROR")
    /\ \/ cancelled /\ UNCHANGED <<sink, thrown>>
       \/ ~cancelled /\ Throws(sink)
    /\ UNCHANGED <<requestVars, handler, refused, timely, told>>

(* Whether the buffering handler's worker_on_data takes n bytes more.      *)
Fits(n) == handler.held + n <= MaximumBytes

(* write_response_chunk.                                                   *)
Chunk(n) ==
    LET sent == [wire EXCEPT !.content = @ + n] IN
    /\ Awaiting("body")
    /\ wire.content + n <= ContentBytes
    /\ \/ /\ sink.exception # 0 \/ cancelled
          /\ Stop(sent, "WRITE_ERROR")
          /\ UNCHANGED <<sink, handler, thrown, refused>>
       \/ /\ sink.exception = 0 /\ ~cancelled
          /\ \/ /\ config.own_handler \/ Fits(n)
                /\ handler' = [handler EXCEPT !.held = @ + n]
                /\ wire' = sent
                /\ UNCHANGED <<stage, sink, thrown, refused>>
             \/ /\ config.own_handler \/ ~Fits(n)
                /\ handler' = [handler EXCEPT !.exceeded = ~config.own_handler]
                /\ sink' = [sink EXCEPT !.aborted = TRUE]
                /\ refused' = TRUE
                /\ Stop(sent, "WRITE_ERROR")
                /\ UNCHANGED thrown
             \/ /\ Throws(sink)
                /\ Stop(sent, "WRITE_ERROR")
                /\ UNCHANGED <<handler, refused>>
    /\ UNCHANGED <<requestVars, timely, told>>

(* report_transfer_progress: called now and then whatever the network      *)
(* does.  A call that returns 0 changes nothing here.                      *)
Progress_Uncancelled ==
    /\ stage = "performing"
    /\ Stop(wire, "ABORTED_BY_CALLBACK")
    /\ Throws(sink)
    /\ UNCHANGED <<requestVars, handler, refused, timely, told>>
Progress ==
    /\ stage = "performing"
    /\ Stop(wire, "ABORTED_BY_CALLBACK")
    /\ \/ cancelled /\ UNCHANGED <<sink, thrown>>
       \/ ~cancelled /\ Throws(sink)
    /\ UNCHANGED <<requestVars, handler, refused, timely, told>>

(* The progress report libcurl closes a transfer with, unless one ended    *)
(* it: refusing it turns a good result into an abort.                      *)
ClosingProgress ==
    LET aborts == wire' = [wire EXCEPT !.result =
                      IF @ = "OK" THEN "ABORTED_BY_CALLBACK" ELSE @]
        called == wire.result # "ABORTED_BY_CALLBACK"
    IN
    /\ stage = "closing"
    /\ stage' = "returned"
    /\ \/ (called => ~cancelled) /\ UNCHANGED <<wire, sink, thrown>>
       \/ called /\ cancelled /\ aborts /\ UNCHANGED <<sink, thrown>>
       \/ called /\ ~cancelled /\ aborts /\ Throws(sink)
    /\ UNCHANGED <<requestVars, handler, refused, timely, told>>

-----------------------------------------------------------------------------
(* What libcurl decides by itself.                                         *)

libcurlVars == <<requestVars, sink, handler, historyVars>>

(* An informational response: another status line follows.                 *)
Informational ==
    /\ Awaiting("headers")
    /\ wire.code < 200
    /\ wire' = [wire EXCEPT !.part = "status"]
    /\ UNCHANGED <<stage, libcurlVars>>

Redirecting == config.follow_redirects /\ wire.code \in 300..399
Failing == config.fail_on_http_error /\ wire.code >= 400

Redirect ==
    /\ Awaiting("headers")
    /\ Redirecting
    /\ IF wire.hops = MaximumHops
       THEN Stop(wire, "TOO_MANY_REDIRECTS")
       ELSE wire' = [wire EXCEPT !.part = "status", !.hops = @ + 1]
            /\ UNCHANGED stage
    /\ UNCHANGED libcurlVars

HttpError ==
    /\ Awaiting("headers")
    /\ Failing
    /\ Stop(wire, "HTTP_RETURNED_ERROR")
    /\ UNCHANGED libcurlVars

(* The response to a resumed GET that names no range: refused, or taken to *)
(* mean there is nothing left to fetch.                                    *)
RangeIgnored ==
    /\ Awaiting("headers")
    /\ config.resume
    /\ wire.code >= 200 /\ ~Redirecting /\ ~Failing
    /\ \/ Stop(wire, "RANGE_ERROR")
       \/ wire.code # 206 /\ Stop(wire, "OK")
    /\ UNCHANGED libcurlVars

BodyBegins ==
    /\ Awaiting("headers")
    /\ wire.code >= 200 /\ ~Redirecting /\ ~Failing
    /\ wire' = [wire EXCEPT !.part = "body"]
    /\ UNCHANGED <<stage, libcurlVars>>

BodyEnds ==
    /\ Awaiting("body")
    /\ Stop(wire, "OK")
    /\ UNCHANGED libcurlVars

TransportFailure ==
    /\ stage = "performing"
    /\ \E e \in TransportErrors : Stop(wire, e)
    /\ UNCHANGED libcurlVars

-----------------------------------------------------------------------------
(* perform_transfer, after curl_easy_perform.                              *)

(* report_response_status: for a status line the header callback was given *)
(* and did not pass on.                                                    *)
Report_Never ==
    /\ stage = "returned"
    /\ stage' = "deciding"
    /\ UNCHANGED <<requestVars, wire, sink, handler, historyVars>>
Report ==
    /\ stage = "returned"
    /\ stage' = "deciding"
    /\ IF sink.reported \/ wire.code = 0
       THEN UNCHANGED <<sink, handler, thrown>>
       ELSE /\ handler' = [handler EXCEPT !.status = wire.code]
            /\ \/ sink' = Read(wire.code) /\ UNCHANGED thrown
               \/ Throws(Read(wire.code))
    /\ UNCHANGED <<requestVars, wire, refused, timely, told>>

(* The error of a transfer nothing threw in and nobody cancelled.          *)
TransferError_NoRangeCheck ==
    IF sink.aborted THEN "aborted_by_handler" ELSE ErrorOf[wire.result]
TransferError ==
    LET e == IF sink.aborted THEN "aborted_by_handler" ELSE ErrorOf[wire.result]
    IN IF e = "none" /\ config.resume /\ sink.status # 206
       THEN "range_not_satisfied" ELSE e

Decision_SkipsCancel ==
    IF sink.exception # 0 THEN "handler_threw" ELSE TransferError
Decision ==
    IF sink.exception # 0 THEN "handler_threw"
    ELSE IF cancelled THEN "cancelled"
    ELSE TransferError

Decide ==
    /\ stage = "deciding"
    /\ error' = Decision
    /\ exception' = sink.exception
    /\ stage' = IF Decision = "none" THEN "completing" ELSE "finishing"
    /\ UNCHANGED <<config, cancelled, sink, handler, wire, historyVars>>

(* worker_on_complete returns, or throws into worker_fetch_task's catch.   *)
Complete_KeepsError ==
    /\ stage = "completing"
    /\ stage' = "finishing"
    /\ \/ UNCHANGED <<exception, thrown>>
       \/ /\ config.own_handler
          /\ thrown' = thrown + 1
          /\ exception' = IF exception = 0 THEN thrown + 1 ELSE exception
    /\ UNCHANGED <<config, cancelled, sink, error, handler, wire, refused, timely,
                   told>>
Complete ==
    /\ stage = "completing"
    /\ stage' = "finishing"
    /\ \/ UNCHANGED <<error, exception, thrown>>
       \/ /\ config.own_handler
          /\ thrown' = thrown + 1
          /\ exception' = IF exception = 0 THEN thrown + 1 ELSE exception
          /\ error' = "handler_threw"
    /\ UNCHANGED <<config, cancelled, sink, handler, wire, refused, timely, told>>

(* m_bResponseLocked is cleared: main may claim the answer.                *)
Finish ==
    /\ stage = "finishing"
    /\ stage' = "finished"
    /\ UNCHANGED <<requestVars, sink, handler, wire, historyVars>>

-----------------------------------------------------------------------------

LibcurlNext ==
    \/ \E code \in Statuses : StatusLine(code)
    \/ HeaderLine
    \/ \E n \in 1..ContentBytes : Chunk(n)
    \/ Informational \/ Redirect \/ HttpError \/ RangeIgnored
    \/ BodyBegins \/ BodyEnds \/ TransportFailure

WorkerNext ==
    Start \/ ClosingProgress \/ Report \/ Decide \/ Complete \/ Finish

Next ==
    \/ Submit \/ Cancel \/ Handle
    \/ Abandon \/ Progress
    \/ LibcurlNext
    \/ WorkerNext

(* A worker goes on; libcurl keeps reporting progress.  Nothing is assumed *)
(* of the network.                                                         *)
Fairness == WF_vars(WorkerNext) /\ WF_vars(Progress)

Spec == Init /\ [][Next]_vars

FairSpec == Spec /\ Fairness

-----------------------------------------------------------------------------
(* What must hold.                                                         *)

Told == told # NotTold

(* The exception main rethrows is the first one the handler threw in this  *)
(* submission, and none is swallowed (capture_handler_exception, and       *)
(* worker_fetch_task's catch): although libcurl reports progress once more *)
(* after a callback that threw.                                            *)
FirstExceptionIsTold ==
    Told => /\ told.handler = "rethrown" <=> thrown > 0
            /\ thrown > 0 => told.exception = 1

(* Success means that libcurl finished, the handler took every byte of the *)
(* response, the status told is that response's and, for a resumed request,*)
(* the server honoured the range: no earlier hop's and no earlier          *)
(* submission's data is in it.                                             *)
SuccessIsWhole ==
    Told /\ told.handler = "success" =>
        /\ wire.result = "OK"
        /\ told.held = wire.content
        /\ told.status = wire.code
        /\ config.resume => wire.code = 206
        /\ ~config.own_handler => told.held <= MaximumBytes

(* A cancellation that can be seen when perform_transfer decides is never  *)
(* told as a success, a transport error or a refusal by the program's own  *)
(* handler, whether or not a callback of libcurl noticed it: it is told as *)
(* a cancellation, unless the handler threw or the buffering handler's     *)
(* limit explains it.                                                      *)
TimelyCancelIsTold ==
    Told /\ timely =>
        \/ told.handler = "rethrown"
        \/ /\ told.handler = "failure"
           /\ told.error \in {"cancelled", "response_too_large"}

(* The handler's refusal is told when it refused, and only then; the       *)
(* buffering handler explains it as the limit, and only a body over the    *)
(* limit in this very submission (sink.aborted, m_bExceededLimit).         *)
RefusalIsTold ==
    Told =>
        /\ told.error = "aborted_by_handler" => refused /\ config.own_handler
        /\ told.error = "response_too_large" =>
              refused /\ wire.content > MaximumBytes
        /\ refused /\ ~timely /\ thrown = 0 =>
              told.error \in {"aborted_by_handler", "response_too_large"}

(* The status told is 0 exactly when the server never answered, and the    *)
(* last response's unless a cancellation cut the headers short             *)
(* (report_response_status makes up for the callback that returned early). *)
StatusIsTheServers ==
    Told => /\ told.status = 0 <=> wire.code = 0
            /\ ~timely => told.status = wire.code

-----------------------------------------------------------------------------
(* The inductive invariant behind them, part by part.                      *)

Performed == {"closing", "returned", "deciding"}

(* A throw ends the transfer; at most the closing progress report and the  *)
(* late report of the status throw after it.                               *)
ThrowInv ==
    /\ stage \in {"performing"} \cup Performed =>
          /\ exception = 0
          /\ sink.exception = IF thrown = 0 THEN 0 ELSE 1
    /\ stage = "performing" => thrown = 0
    /\ stage = "closing" => thrown <= 1
    /\ stage = "returned" => thrown <= 2
    /\ stage \in {"queued", "completing"} => exception = 0 /\ thrown = 0
    /\ stage = "idle" => exception = 0
    /\ stage \in Over =>
          /\ exception = IF thrown = 0 THEN 0 ELSE 1
          /\ thrown > 0 => error = "handler_threw"

(* Until the outcome is decided a cancellation is timely; after that, a    *)
(* timely one has decided the error.                                       *)
CancelInv ==
    /\ stage \in Undecided => (timely <=> cancelled)
    /\ stage = "completing" => ~timely
    /\ stage \in Over /\ timely => exception # 0 \/ error = "cancelled"

(* The handler has the bytes of this response, short of the chunk that     *)
(* ended it.                                                               *)
ContentInv ==
    /\ stage = "queued" => wire.part = "none"
    /\ stage \in {"performing"} \cup Performed => wire.part # "none"
    /\ stage \in {"queued", "performing"} =>
          /\ wire.result = "OK" /\ handler.held = wire.content
          /\ wire.part # "body" => wire.content = 0
    /\ handler.held <= wire.content
    /\ stage \notin {"idle", "queued"} /\ wire.result = "OK" =>
          handler.held = wire.content
    /\ ~config.own_handler => handler.held <= MaximumBytes

(* The handler has the status of the last response, unless cancelled while *)
(* the headers came in, and then only until the late report.               *)
StatusInv ==
    /\ stage = "queued" => handler.status = 0 /\ wire.code = 0
    /\ stage \in {"performing"} \cup Performed =>
          /\ sink.status = handler.status
          /\ sink.reported <=> handler.status # 0
          /\ sink.reported => wire.code # 0
          /\ stage = "performing" \/ ~cancelled => handler.status = wire.code
    /\ stage \in {"performing", "closing", "returned"} /\ wire.part # "status" =>
          wire.code # 0
    /\ stage \in {"deciding", "completing"} \cup Over =>
          /\ handler.status = 0 <=> wire.code = 0
          /\ ~timely => handler.status = wire.code

(* Why a transfer was aborted.                                             *)
RefusalInv ==
    /\ handler.exceeded =>
          refused /\ wire.content > MaximumBytes /\ ~config.own_handler
    /\ refused /\ ~config.own_handler => handler.exceeded
    /\ stage \in {"queued", "performing", "completing"} => ~refused
    /\ stage = "performing" => ~sink.aborted
    /\ stage \in Performed =>
          /\ sink.aborted <=> refused \/ thrown > 0
          /\ wire.result \in {"WRITE_ERROR", "ABORTED_BY_CALLBACK"} =>
                cancelled \/ sink.aborted
    /\ stage \in Over /\ error = "aborted_by_handler" => refused
    /\ stage \in Over /\ refused /\ ~timely /\ thrown = 0 =>
          error = "aborted_by_handler"

(* Why it was not.                                                         *)
SuccessInv ==
    /\ stage = "completing" \/ (stage \in Over /\ error = "none") =>
          /\ wire.result = "OK"
          /\ config.resume => wire.code = 206
          /\ ~timely
    /\ stage = "completing" => error = "none"

ToldInv == Told => stage = "idle"

IInv ==
    /\ TypeOK
    /\ ThrowInv /\ CancelInv /\ ContentInv /\ StatusInv /\ RefusalInv /\ SuccessInv
    /\ ToldInv
    /\ FirstExceptionIsTold /\ SuccessIsWhole /\ TimelyCancelIsTold
    /\ RefusalIsTold /\ StatusIsTheServers

-----------------------------------------------------------------------------

(* A finished answer stays as it is until main is told it, whoever cancels *)
(* then, and is told once: the exchange is a one-request HttpContext.      *)
Contract == INSTANCE HttpContext WITH
    Requests <- {"it"},
    Verdicts <- Answers,
    NoVerdict <- NotTold,
    ClosingWaits <- TRUE,
    stage    <- [r \in {"it"} |-> IF stage = "idle" THEN "idle"
                                  ELSE IF stage = "finished" THEN "settled"
                                  ELSE "submitted"],
    verdict  <- [r \in {"it"} |-> IF stage = "finished" THEN Answer ELSE NotTold],
    told     <- [r \in {"it"} |-> told],
    life     <- "open"

ImplementsContract == Contract!Spec

(* A cancelled transfer ends even if the network has stalled for good:     *)
(* libcurl goes on reporting progress, and that callback looks at the flag.*)
CancelledTransferEnds ==
    (stage = "performing" /\ cancelled) ~> (stage = "finished")

-----------------------------------------------------------------------------
(* The exchange takes place in a task of CurlContext, which has the whole  *)
(* transfer as one step.  A task's life is CurlContext's from "queued" to  *)
(* "ran"; submission and polling, of several steps there, are main's.      *)

Of(x) == [r \in {"it"} |-> x]

PhaseOf == [s \in Stages |->
    CASE s = "idle" -> "free"
      [] s \in {"performing"} \cup Performed -> "transferring"
      [] s = "finished" -> "ran"
      [] OTHER -> s]

ClassOf == [e \in Errors |->
    IF e \in {"none", "cancelled", "handler_threw"} THEN e ELSE "failed"]

(* libcurl was never called in this submission.                            *)
Unperformed == wire.part = "none"

Outcome ==
    IF stage \notin Over THEN "pending"
    ELSE CASE error = "none" -> "completed"
           [] error = "handler_threw" -> "threw"
           [] error = "cancelled" -> IF Unperformed THEN "never ran" ELSE "stopped"
           [] OTHER -> "failed"

Task == INSTANCE CurlContext WITH
    Requests <- {"it"}, Tasks <- {"task"}, Bodies <- {"body"},
    Endings <- {"failed", "threw"}, Reentry <- "none",
    unhandled <- IF stage = "idle" THEN <<>> ELSE <<"it">>,
    inFlight  <- Of(stage # "idle"),
    cancelled <- Of(cancelled),
    locked    <- Of(stage # "finished"),
    error     <- Of(ClassOf[error]),
    exception <- Of(exception # 0),
    body      <- Of("body"),
    count     <- IF stage = "idle" THEN 0 ELSE 1,
    phase     <- [t \in {"task"} |-> PhaseOf[stage]],
    taskReq   <- [t \in {"task"} |-> "it"],
    frames    <- <<>>, scan <- 0, life <- "open", loaded <- 0,
    outcome   <- Of(Outcome),
    told      <- Of("nothing"),
    doomed    <- Of(timely /\ Unperformed),
    promised  <- Of("body"),
    reentered <- {}

(* What CurlContext lets a worker do with the task, or anyone with the     *)
(* flag, or its pool by dropping it.                                       *)
TaskStep ==
    \/ Task!TaskRun("task")
    \/ Task!TransferThrew("task")
    \/ Task!TransferStopped("task")
    \/ Task!TransferEnded("task")
    \/ Task!CompleteReturns("task")
    \/ Task!CompleteThrows("task")
    \/ Task!TaskFinish("task")
    \/ Task!Cancel("it")
    \/ stage = "queued" /\ Task!Abandon("it")

(* From its submission until main handles it, an exchange does what        *)
(* CurlContext's one-step transfer may do: the exception and the error of  *)
(* a throw come together, worker_on_complete follows a good transfer of a  *)
(* request that was not cancelled, one cancelled before it begins never    *)
(* reaches libcurl, and only the end of the worker gives the answer away   *)
(* (worker_fetch_task, perform_transfer, worker_abandon).                  *)
ExchangeIsATask ==
    [][stage # "idle" /\ stage' # "idle" => TaskStep \/ UNCHANGED Task!vars]_vars

=============================================================================
