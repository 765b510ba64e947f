---------------------------- MODULE CurlContext ----------------------------
(***************************************************************************)
(* curl_context and the half of curl_request that main and the workers     *)
(* share: submission, the caller-supplied submitter, the fetch task and    *)
(* its task_state, cancellation, the handling of completed requests and    *)
(* the context's destructor.  The HTTP exchange inside a task is one step  *)
(* with any of its outcomes.                                               *)
(*                                                                         *)
(* Threads.  Main runs everything between TrySubmit and EndDestroy below,  *)
(* one call at a time; the submitter it calls may call the context back,   *)
(* so its active calls form a stack (frames).  The caller's pool runs or   *)
(* drops the tasks it was given, each on a thread of its own.  cancel may  *)
(* come from any thread.                                                   *)
(*                                                                         *)
(* Assumed of the code outside the library: a task is run at most once, a  *)
(* submitter that throws has kept no task, main_on_submit does not submit  *)
(* the request it is called for, and a context is destroyed by main.       *)
(***************************************************************************)
EXTENDS Naturals, Sequences, FiniteSets

CONSTANTS
    Requests,   \* the request objects made by this context
    Tasks,      \* identities of task_state objects: bounds those alive at once
    Bodies,     \* the bodies a POST can be given
    Endings,    \* how a transfer may end besides completing or being stopped:
                \* "failed" (the exchange), "threw" (a handler's callback)
    Reentry     \* what the submitter does in its call: "none" never calls the
                \* context back, "returns" may and then never throws, "throws"
                \* may and may then throw as well

ASSUME TasksAssumption == IsFiniteSet(Tasks)
ASSUME EndingsAssumption == Endings \subseteq {"failed", "threw"}
ASSUME ReentryAssumption == Reentry \in {"none", "returns", "throws"}

VARIABLES
    unhandled,  \* m_UnhandledRequests
    inFlight,   \* m_bInFlight
    cancelled,  \* m_bCancelled
    locked,     \* m_bResponseLocked
    error,      \* m_RequestError, its transport errors as one "failed"
    exception,  \* m_HandlerException is not null
    body,       \* m_PostData
    count,      \* *m_pInFlightTaskCount
    phase,      \* where each task_state is in its life
    taskReq,    \* task_state::request, NoRequest once released
    frames,     \* calls of m_Policy.submit active on main, innermost last
    scan,       \* index of main_try_handle_completed_request's loop, 0 outside
    life,       \* the context: open, then the destructor's steps, then gone
    loaded      \* the destructor's local copy of the count

(* History, read by the properties and by one guard (SubmitThrow) only.    *)
VARIABLES
    outcome,    \* what became of the request's last submission
    told,       \* which handler main last ran for it
    doomed,     \* cancel was asked for before the submission's task started,
                \* until it is handled
    promised,   \* the body the request had when it was submitted
    reentered   \* tasks of the frames that have changed the list since

requestVars == <<inFlight, cancelled, locked, error, exception, body>>
historyVars == <<outcome, told, doomed, promised, reentered>>
mainVars    == <<unhandled, frames, scan, life, loaded>>
taskVars    == <<phase, taskReq, count>>
vars == <<requestVars, historyVars, mainVars, taskVars>>

-----------------------------------------------------------------------------
(* A task_state: made by submit and held by its call (and by the vector    *)
(* lent to the submitter) only, "offered"; kept by the pool, "queued"; on  *)
(* a worker, "transferring", "completing" in worker_on_complete,           *)
(* "finishing" with m_RequestError written; "ran", still held by the pool; *)
(* "spent", held by submit's call only.  Its destructor has run past       *)
(* worker_abandon when "dying", past fetch_sub when "notifying".           *)
NoRequest == "no request"

Phases == {"free", "offered", "queued", "transferring", "completing",
           "finishing", "ran", "spent", "dying", "notifying"}
Unstarted == {"offered", "queued"}
Running   == {"transferring", "completing", "finishing"}
Owing     == Unstarted \cup Running
Uncounted == {"free", "notifying"}

Errors == {"none", "cancelled", "handler_threw", "failed"}
Outcomes == {"none", "pending", "never ran", "stopped", "failed", "threw",
             "completed"}
Reports == {"success", "cancelled", "failed", "rethrown"}

Listed    == {unhandled[i] : i \in DOMAIN unhandled}
InFrames  == {frames[i] : i \in DOMAIN frames}
Top       == frames[Len(frames)]
AllButLast(s) == SubSeq(s, 1, Len(s) - 1)
DropAt_Front(s, i) == Tail(s)
DropAt(s, i)  == SubSeq(s, 1, i - 1) \o SubSeq(s, i + 1, Len(s))

(* A task of r that has yet to give the response lock back.                *)
Owed(r) == \E t \in Tasks : taskReq[t] = r /\ phase[t] \in Owing

TypeOK ==
    /\ unhandled \in Seq(Requests)
    /\ inFlight \in [Requests -> BOOLEAN]
    /\ cancelled \in [Requests -> BOOLEAN]
    /\ locked \in [Requests -> BOOLEAN]
    /\ error \in [Requests -> Errors]
    /\ exception \in [Requests -> BOOLEAN]
    /\ body \in [Requests -> Bodies]
    /\ count \in Nat
    /\ phase \in [Tasks -> Phases]
    /\ taskReq \in [Tasks -> Requests \cup {NoRequest}]
    /\ frames \in Seq(Tasks)
    /\ scan \in Nat
    /\ life \in {"open", "loading", "comparing", "blocked", "destroyed"}
    /\ loaded \in Nat
    /\ outcome \in [Requests -> Outcomes]
    /\ told \in [Requests -> Reports \cup {"nothing"}]
    /\ doomed \in [Requests -> BOOLEAN]
    /\ promised \in [Requests -> Bodies]
    /\ reentered \in SUBSET Tasks

Init ==
    /\ unhandled = <<>>
    /\ inFlight = [r \in Requests |-> FALSE]
    /\ cancelled = [r \in Requests |-> FALSE]
    /\ locked = [r \in Requests |-> TRUE]
    /\ error = [r \in Requests |-> "none"]
    /\ exception = [r \in Requests |-> FALSE]
    /\ body \in [Requests -> Bodies]
    /\ count = 0
    /\ phase = [t \in Tasks |-> "free"]
    /\ taskReq = [t \in Tasks |-> NoRequest]
    /\ frames = <<>>
    /\ scan = 0
    /\ life = "open"
    /\ loaded = 0
    /\ outcome = [r \in Requests |-> "none"]
    /\ told = [r \in Requests |-> "nothing"]
    /\ doomed = [r \in Requests |-> FALSE]
    /\ promised = body
    /\ reentered = {}

-----------------------------------------------------------------------------
(* Main: submission.                                                       *)

(* Main is outside the library, or inside user code the library called.    *)
(* A task_state it is destroying keeps it busy.                            *)
MainFree ==
    /\ life = "open"
    /\ scan = 0
    /\ frames # <<>> => /\ Reentry # "none"
                        /\ phase[Top] \notin {"dying", "notifying"}

Idle_Unchecked(r) == TRUE
Idle(r) == ~inFlight[r]

(* curl_request::try_submit up to the call of the submitter.  Once the     *)
(* destructor has begun, m_pContext.lock() gives nothing.                  *)
TrySubmit(r, t) ==
    /\ MainFree
    /\ Idle(r)
    /\ phase[t] = "free"
    /\ cancelled' = [cancelled EXCEPT ![r] = FALSE]
    /\ locked' = [locked EXCEPT ![r] = TRUE]
    /\ inFlight' = [inFlight EXCEPT ![r] = TRUE]
    /\ count' = count + 1
    /\ phase' = [phase EXCEPT ![t] = "offered"]
    /\ taskReq' = [taskReq EXCEPT ![t] = r]
    /\ unhandled' = Append(unhandled, r)
    /\ frames' = Append(frames, t)
    /\ outcome' = [outcome EXCEPT ![r] = "pending"]
    /\ told' = [told EXCEPT ![r] = "nothing"]
    /\ doomed' = [doomed EXCEPT ![r] = FALSE]
    /\ promised' = [promised EXCEPT ![r] = body[r]]
    /\ reentered' = (reentered \cup InFrames) \ {t}
    /\ UNCHANGED <<error, exception, body, scan, life, loaded>>

(* main_on_submit throws: try_submit has cleared one flag, taken the       *)
(* other, and done nothing else.                                           *)
SubmitHookThrows(r) ==
    /\ MainFree
    /\ Idle(r)
    /\ cancelled' = [cancelled EXCEPT ![r] = FALSE]
    /\ locked' = [locked EXCEPT ![r] = TRUE]
    /\ UNCHANGED <<inFlight, error, exception, body, historyVars, mainVars,
                   taskVars>>

(* The submitter moves or copies a task into the pool.                     *)
Keep(t) ==
    /\ scan = 0
    /\ frames # <<>> /\ t = Top
    /\ phase[t] = "offered"
    /\ phase' = [phase EXCEPT ![t] = "queued"]
    /\ UNCHANGED <<requestVars, historyVars, mainVars, taskReq, count>>

(* curl_request::worker_abandon.                                           *)
Abandon_KeepsError(r) ==
    /\ locked' = [locked EXCEPT ![r] = FALSE]
    /\ outcome' = [outcome EXCEPT ![r] = "never ran"]
    /\ UNCHANGED <<exception, error>>
Abandon(r) ==
    /\ exception' = [exception EXCEPT ![r] = FALSE]
    /\ error' = [error EXCEPT ![r] = "cancelled"]
    /\ locked' = [locked EXCEPT ![r] = FALSE]
    /\ outcome' = [outcome EXCEPT ![r] = "never ran"]

(* The task_state destructor's first line, when nothing holds t any more.  *)
Die_WithoutAbandon(t) ==
    /\ phase' = [phase EXCEPT ![t] = "dying"]
    /\ UNCHANGED <<exception, error, locked, outcome>>
Die(t) ==
    /\ phase' = [phase EXCEPT ![t] = "dying"]
    /\ IF phase[t] \in Unstarted
       THEN Abandon(taskReq[t])
       ELSE UNCHANGED <<exception, error, locked, outcome>>

(* The submitter returns while the pool holds the task: submit and         *)
(* try_submit return true.                                                 *)
SubmitReturn ==
    /\ scan = 0
    /\ frames # <<>>
    /\ phase[Top] \notin {"offered", "spent", "dying", "notifying"}
    /\ frames' = AllButLast(frames)
    /\ reentered' = reentered \ {Top}
    /\ UNCHANGED <<requestVars, outcome, told, doomed, promised, taskVars,
                   unhandled, scan, life, loaded>>

(* The submitter returns and submit's call held the task's last reference: *)
(* main destroys it before the frame is gone.                              *)
SubmitReturnLast ==
    /\ scan = 0
    /\ frames # <<>>
    /\ phase[Top] \in {"offered", "spent"}
    /\ Die(Top)
    /\ UNCHANGED <<inFlight, cancelled, body, told, doomed, promised,
                   reentered, mainVars, taskReq, count>>

(* The submitter throws, having kept no task: the last entry of the list   *)
(* goes, the task dies with the call, the request is no longer in flight.  *)
(* (pop_back of an empty list, which a submitter that drained it can       *)
(* reach, is undefined and not modelled.)                                  *)
SubmitThrow ==
    /\ scan = 0
    /\ frames # <<>>
    /\ phase[Top] \in {"offered", "spent"}
    /\ Reentry = "throws" \/ Top \notin reentered
    /\ unhandled # <<>>
    /\ unhandled' = AllButLast(unhandled)
    /\ Die(Top)
    /\ inFlight' = [inFlight EXCEPT ![taskReq[Top]] = FALSE]
    /\ doomed' = [doomed EXCEPT ![taskReq[Top]] = FALSE]
    /\ UNCHANGED <<cancelled, body, told, promised, reentered, frames, scan,
                   life, loaded, taskReq, count>>

-----------------------------------------------------------------------------
(* Cancellation and the POST body.                                         *)

Doom(R) == doomed' = [r \in Requests |->
    doomed[r] \/ (r \in R /\ \E t \in Tasks : taskReq[t] = r /\ phase[t] \in Unstarted)]

(* request::cancel, on any thread at any time.                             *)
Cancel(r) ==
    /\ cancelled' = [cancelled EXCEPT ![r] = TRUE]
    /\ Doom({r})
    /\ UNCHANGED <<inFlight, locked, error, exception, body, outcome, told,
                   promised, reentered, mainVars, taskVars>>

CancelListed ==
    /\ cancelled' = [r \in Requests |-> cancelled[r] \/ r \in Listed]
    /\ Doom(Listed)

CancelAll ==
    /\ MainFree
    /\ CancelListed
    /\ UNCHANGED <<inFlight, locked, error, exception, body, outcome, told,
                   promised, reentered, mainVars, taskVars>>

(* curl_post::try_update_postdata returning true.                          *)
TryUpdatePostdata(r, b) ==
    /\ MainFree
    /\ Idle(r)
    /\ body' = [body EXCEPT ![r] = b]
    /\ UNCHANGED <<inFlight, cancelled, locked, error, exception, historyVars,
                   mainVars, taskVars>>

-----------------------------------------------------------------------------
(* The pool and its workers.                                               *)

Move(t, to) == phase' = [phase EXCEPT ![t] = to]

(* perform_transfer's two looks at the cancel flag.                        *)
StopAsked_Ignored(r) == FALSE
StopAsked(r) == cancelled[r]

(* worker_fetch_task up to curl_easy_perform, or up to the first look at   *)
(* the cancel flag when it is set.                                         *)
TaskRun(t) ==
    LET r == taskReq[t] IN
    /\ phase[t] = "queued"
    /\ locked' = [locked EXCEPT ![r] = TRUE]
    /\ exception' = [exception EXCEPT ![r] = FALSE]
    /\ IF StopAsked(r)
       THEN /\ Move(t, "finishing")
            /\ error' = [error EXCEPT ![r] = "cancelled"]
            /\ outcome' = [outcome EXCEPT ![r] = "never ran"]
       ELSE /\ Move(t, "transferring")
            /\ UNCHANGED <<error, outcome>>
    /\ UNCHANGED <<inFlight, cancelled, body, told, doomed, promised,
                   reentered, mainVars, taskReq, count>>

(* curl_easy_perform is back and a handler callback threw.                 *)
TransferThrew(t) ==
    LET r == taskReq[t] IN
    /\ phase[t] = "transferring"
    /\ "threw" \in Endings
    /\ Move(t, "finishing")
    /\ exception' = [exception EXCEPT ![r] = TRUE]
    /\ error' = [error EXCEPT ![r] = "handler_threw"]
    /\ outcome' = [outcome EXCEPT ![r] = "threw"]
    /\ UNCHANGED <<inFlight, cancelled, locked, body, told, doomed, promised,
                   reentered, mainVars, taskReq, count>>

(* It is back, nothing threw, and the request is cancelled by now.         *)
TransferStopped(t) ==
    LET r == taskReq[t] IN
    /\ phase[t] = "transferring"
    /\ StopAsked(r)
    /\ Move(t, "finishing")
    /\ error' = [error EXCEPT ![r] = "cancelled"]
    /\ outcome' = [outcome EXCEPT ![r] = "stopped"]
    /\ UNCHANGED <<inFlight, cancelled, locked, exception, body, told, doomed,
                   promised, reentered, mainVars, taskReq, count>>

(* It is back with an answer or an error of the exchange.  Only the former *)
(* leads to worker_on_complete.                                            *)
TransferEnded(t) ==
    LET r == taskReq[t] IN
    /\ phase[t] = "transferring"
    /\ ~StopAsked(r)
    /\ \/ /\ Move(t, "completing")
          /\ error' = [error EXCEPT ![r] = "none"]
          /\ UNCHANGED outcome
       \/ /\ "failed" \in Endings
          /\ Move(t, "finishing")
          /\ error' = [error EXCEPT ![r] = "failed"]
          /\ outcome' = [outcome EXCEPT ![r] = "failed"]
    /\ UNCHANGED <<inFlight, cancelled, locked, exception, body, told, doomed,
                   promised, reentered, mainVars, taskReq, count>>

CompleteReturns(t) ==
    /\ phase[t] = "completing"
    /\ Move(t, "finishing")
    /\ outcome' = [outcome EXCEPT ![taskReq[t]] = "completed"]
    /\ UNCHANGED <<requestVars, told, doomed, promised, reentered, mainVars,
                   taskReq, count>>

(* worker_on_complete throws into worker_fetch_task's catch.               *)
CompleteThrows(t) ==
    LET r == taskReq[t] IN
    /\ phase[t] = "completing"
    /\ "threw" \in Endings
    /\ Move(t, "finishing")
    /\ exception' = [exception EXCEPT ![r] = TRUE]
    /\ error' = [error EXCEPT ![r] = "handler_threw"]
    /\ outcome' = [outcome EXCEPT ![r] = "threw"]
    /\ UNCHANGED <<inFlight, cancelled, locked, body, told, doomed, promised,
                   reentered, mainVars, taskReq, count>>

(* worker_fetch_task's last line.                                          *)
TaskFinish(t) ==
    /\ phase[t] = "finishing"
    /\ Move(t, "ran")
    /\ locked' = [locked EXCEPT ![taskReq[t]] = FALSE]
    /\ UNCHANGED <<inFlight, cancelled, error, exception, body, historyVars,
                   mainVars, taskReq, count>>

(* The pool lets its copy go, run or not; another reference may remain in  *)
(* submit's call.                                                          *)
PoolDropHeld(t) ==
    /\ t \in InFrames
    /\ \/ phase[t] = "queued" /\ Move(t, "offered")
       \/ phase[t] = "ran" /\ Move(t, "spent")
    /\ UNCHANGED <<requestVars, historyVars, mainVars, taskReq, count>>

PoolDropLast(t) ==
    /\ t \notin InFrames
    /\ phase[t] \in {"queued", "ran"}
    /\ Die(t)
    /\ UNCHANGED <<inFlight, cancelled, body, told, doomed, promised,
                   reentered, mainVars, taskReq, count>>

(* The rest of ~task_state: fetch_sub, then notify_all.                    *)
Decrement_Forgotten(t) ==
    /\ phase[t] = "dying"
    /\ Move(t, "notifying")
    /\ UNCHANGED <<requestVars, historyVars, mainVars, taskReq, count>>
Decrement(t) ==
    /\ phase[t] = "dying"
    /\ Move(t, "notifying")
    /\ count' = count - 1
    /\ UNCHANGED <<requestVars, historyVars, mainVars, taskReq>>

Wake_Lost == UNCHANGED life
Wake == life' = IF life = "blocked" THEN "comparing" ELSE life

Notify(t) ==
    /\ phase[t] = "notifying"
    /\ Move(t, "free")
    /\ taskReq' = [taskReq EXCEPT ![t] = NoRequest]
    /\ frames' = IF t \in InFrames THEN AllButLast(frames) ELSE frames
    /\ reentered' = reentered \ {t}
    /\ Wake
    /\ UNCHANGED <<requestVars, outcome, told, doomed, promised, unhandled,
                   scan, loaded, count>>

-----------------------------------------------------------------------------
(* Main: completed requests.                                               *)

StartPoll ==
    /\ MainFree
    /\ scan' = 1
    /\ UNCHANGED <<requestVars, historyVars, taskVars, unhandled, frames, life,
                   loaded>>

(* The list is exhausted: main_try_handle_completed_request returns false. *)
ScanEnd ==
    /\ scan > Len(unhandled)
    /\ scan # 0
    /\ scan' = 0
    /\ UNCHANGED <<requestVars, historyVars, taskVars, unhandled, frames, life,
                   loaded>>

(* main_try_claim fails: test_and_set found the lock held.                 *)
ScanPast ==
    /\ scan \in DOMAIN unhandled
    /\ locked[unhandled[scan]]
    /\ scan' = scan + 1
    /\ UNCHANGED <<requestVars, historyVars, taskVars, unhandled, frames, life,
                   loaded>>

(* What main_run_handlers does with a claimed request.                     *)
HandlerFor(r) ==
    IF exception[r] THEN "rethrown"
    ELSE IF error[r] = "none" THEN "success"
    ELSE IF error[r] = "cancelled" THEN "cancelled"
    ELSE "failed"

(* It succeeds: the request leaves the list and its handler runs, which is *)
(* user code: what it calls are main's next steps.                         *)
Handle ==
    LET r == unhandled[scan] IN
    /\ scan \in DOMAIN unhandled
    /\ ~locked[r]
    /\ locked' = [locked EXCEPT ![r] = TRUE]
    /\ unhandled' = DropAt(unhandled, scan)
    /\ scan' = 0
    /\ inFlight' = [inFlight EXCEPT ![r] = FALSE]
    /\ exception' = [exception EXCEPT ![r] = FALSE]
    /\ told' = [told EXCEPT ![r] = HandlerFor(r)]
    /\ doomed' = [doomed EXCEPT ![r] = FALSE]
    /\ reentered' = reentered \cup InFrames
    /\ UNCHANGED <<cancelled, error, body, outcome, promised, frames, life,
                   loaded, taskVars>>

-----------------------------------------------------------------------------
(* Main: ~curl_context, from the release of the last reference.  try_submit *)
(* holds one, so no frame is active.                                       *)

BeginDestroy ==
    /\ MainFree
    /\ frames = <<>>
    /\ life' = "loading"
    /\ CancelListed
    /\ UNCHANGED <<inFlight, locked, error, exception, body, outcome, told,
                   promised, reentered, unhandled, frames, scan, loaded,
                   taskVars>>

DestroyLoad ==
    /\ life = "loading"
    /\ count # 0
    /\ loaded' = count
    /\ life' = "comparing"
    /\ UNCHANGED <<requestVars, historyVars, taskVars, unhandled, frames, scan>>

(* atomic::wait returns if the value has changed, else blocks; a notify    *)
(* makes it compare again.                                                 *)
DestroyCompare_Late ==
    /\ life = "comparing"
    /\ life' = "blocked"
    /\ UNCHANGED <<requestVars, historyVars, taskVars, unhandled, frames, scan,
                   loaded>>
DestroyCompare_Once ==
    /\ life = "comparing"
    /\ life' = IF count = loaded THEN "blocked" ELSE "destroyed"
    /\ UNCHANGED <<requestVars, historyVars, taskVars, unhandled, frames, scan,
                   loaded>>
DestroyCompare ==
    /\ life = "comparing"
    /\ life' = IF count = loaded THEN "blocked" ELSE "loading"
    /\ UNCHANGED <<requestVars, historyVars, taskVars, unhandled, frames, scan,
                   loaded>>

(* The loop ends and the members go, the list with its references.         *)
EndDestroy ==
    /\ life = "loading"
    /\ count = 0
    /\ life' = "destroyed"
    /\ unhandled' = <<>>
    /\ UNCHANGED <<requestVars, historyVars, taskVars, frames, scan, loaded>>

-----------------------------------------------------------------------------

MainNext ==
    \/ \E r \in Requests :
          \/ \E t \in Tasks : TrySubmit(r, t)
          \/ SubmitHookThrows(r)
          \/ \E b \in Bodies : TryUpdatePostdata(r, b)
    \/ SubmitReturn \/ SubmitReturnLast \/ SubmitThrow
    \/ CancelAll
    \/ StartPoll \/ ScanEnd \/ ScanPast \/ Handle
    \/ BeginDestroy \/ DestroyLoad \/ DestroyCompare \/ EndDestroy

TaskNext(t) ==
    \/ Keep(t) \/ TaskRun(t)
    \/ TransferThrew(t) \/ TransferStopped(t) \/ TransferEnded(t)
    \/ CompleteReturns(t) \/ CompleteThrows(t) \/ TaskFinish(t)
    \/ PoolDropHeld(t) \/ PoolDropLast(t)
    \/ Decrement(t) \/ Notify(t)

Next ==
    \/ MainNext
    \/ \E t \in Tasks : TaskNext(t)
    \/ \E r \in Requests : Cancel(r)

(* What a worker, the pool, or the thread that drops the last reference    *)
(* does with a task once the pool has it.                                  *)
Progress(t) ==
    \/ TaskRun(t)
    \/ TransferThrew(t) \/ TransferStopped(t) \/ TransferEnded(t)
    \/ CompleteReturns(t) \/ CompleteThrows(t) \/ TaskFinish(t)
    \/ PoolDropHeld(t) \/ PoolDropLast(t)
    \/ Decrement(t) \/ Notify(t)

(* The submitter's calls end; every task given to the pool is run or       *)
(* dropped and every transfer ends; main keeps asking for completed        *)
(* requests; a call main has entered goes on.                              *)
Fairness ==
    /\ WF_vars(SubmitReturn \/ SubmitReturnLast \/ SubmitThrow)
    /\ \A t \in Tasks : WF_vars(Progress(t))
    /\ SF_vars(StartPoll)
    /\ WF_vars(ScanEnd \/ ScanPast \/ Handle)
    /\ WF_vars(DestroyLoad \/ DestroyCompare \/ EndDestroy)

Spec == Init /\ [][Next]_vars

FairSpec == Spec /\ Fairness

-----------------------------------------------------------------------------
(* What must hold.                                                         *)

(* A request's curl handle, sink and handler belong to at most one task at *)
(* a time, and while a task that has not given the response lock back      *)
(* exists, main has neither handled the request nor lets it be resubmitted *)
(* or its body replaced (m_bInFlight, m_bResponseLocked).                  *)
TaskOwnsRequest ==
    \A t \in Tasks : phase[t] \in Owing =>
        /\ inFlight[taskReq[t]]
        /\ locked[taskReq[t]]
        /\ \A u \in Tasks \ {t} :
              phase[u] \in Owing => taskReq[u] # taskReq[t]

(* outstanding_request_count counts the requests submitted and not yet     *)
(* handled by main, each once (m_UnhandledRequests against m_bInFlight).   *)
OutstandingIsOwed ==
    life # "destroyed" =>
        /\ Listed = {r \in Requests : inFlight[r]}
        /\ \A i, j \in DOMAIN unhandled :
              unhandled[i] = unhandled[j] => i = j

(* No outstanding request is stranded: one whose response lock is held has *)
(* a task that will give it back, whatever the submitter did with it.      *)
NothingStranded ==
    \A r \in Listed : locked[r] => Owed(r)

(* Once the destructor has returned no task runs, and none will touch a    *)
(* request or the count again but for the notification.                    *)
DestroyedIsQuiet ==
    life = "destroyed" => \A t \in Tasks : phase[t] \in Uncounted

(* The count the destructor waits on is the number of task_states that     *)
(* have not reached their fetch_sub.                                       *)
CountIsExact ==
    count = Cardinality({t \in Tasks : phase[t] \notin Uncounted})

(* The destructor sleeps only while the count is still the one it loaded,  *)
(* and not zero, or a notification is on its way: it is never asleep with  *)
(* nobody left to wake it (the load, the comparison and the wait against   *)
(* fetch_sub and notify_all of the workers).                               *)
NoWakeUpIsLost ==
    life = "blocked" =>
        \/ count = loaded /\ loaded # 0
        \/ \E t \in Tasks : phase[t] = "notifying"

HandlerOf == [o \in Outcomes |->
    CASE o = "completed" -> "success"
      [] o = "failed"    -> "failed"
      [] o = "threw"     -> "rethrown"
      [] OTHER           -> "cancelled"]

(* The handler main runs is the one for what became of this submission,    *)
(* never of an earlier one: success only after worker_on_complete          *)
(* returned, an exception exactly when a handler threw, cancelled for a    *)
(* task that was dropped.                                                  *)
ToldWhatHappened ==
    \A r \in Requests : told[r] # "nothing" =>
        /\ outcome[r] \notin {"none", "pending"}
        /\ told[r] = HandlerOf[outcome[r]]

(* A request cancelled after it was submitted and before its task started  *)
(* never reaches the network: the clearing of the flag by try_submit and   *)
(* the worker's first look at it lose no cancellation in between.          *)
CancelledBeforeStartNeverRuns ==
    /\ \A t \in Tasks :
          phase[t] \in {"transferring", "completing"} => ~doomed[taskReq[t]]
    /\ \A r \in Listed :
          doomed[r] /\ ~locked[r] => outcome[r] = "never ran"

(* The body a worker reads is the one the request had when it was          *)
(* submitted.                                                              *)
BodyIsTheSubmittedOne ==
    \A t \in Tasks : phase[t] \in Owing =>
        body[taskReq[t]] = promised[taskReq[t]]

-----------------------------------------------------------------------------
(* The inductive invariant behind the safety properties.                   *)

(* The stack of submitter calls: a task dying in its own call is the       *)
(* innermost one, no call outlives its task_state.                         *)
StackInv ==
    /\ \A i, j \in DOMAIN frames : frames[i] = frames[j] => i = j
    /\ \A t \in Tasks : phase[t] \in {"offered", "spent"} => t \in InFrames
    /\ \A i \in DOMAIN frames :
          /\ phase[frames[i]] # "free"
          /\ phase[frames[i]] \in {"dying", "notifying"} => i = Len(frames)
    /\ \A t \in Tasks : phase[t] # "free" => taskReq[t] \in Requests

(* What main may be inside of while the context is open, and after.        *)
LifeInv ==
    /\ life # "open" => frames = <<>> /\ scan = 0
    /\ life = "destroyed" => unhandled = <<>>

(* An answer that main may claim is this submission's.                     *)
Answered(r) ==
    /\ outcome[r] \notin {"none", "pending"}
    /\ HandlerFor(r) = HandlerOf[outcome[r]]

AnswerInv ==
    /\ \A r \in Requests : inFlight[r] => told[r] = "nothing"
    /\ \A r \in Listed : ~locked[r] => Answered(r)
    /\ \A t \in Tasks :
          LET r == taskReq[t] IN
          /\ phase[t] = "transferring" => ~exception[r]
          /\ phase[t] = "completing" => ~exception[r] /\ error[r] = "none"
          /\ phase[t] = "finishing" => Answered(r)

DoomInv ==
    /\ \A r \in Requests : doomed[r] => cancelled[r] /\ inFlight[r]
    /\ \A t \in Tasks : phase[t] = "finishing" /\ doomed[taskReq[t]] =>
          outcome[taskReq[t]] = "never ran"

(* A submitter that has not called back may still throw: the entry its     *)
(* call appended is the last one and no later task has its request.        *)
ThrowInv ==
    \A i \in DOMAIN frames :
        frames[i] \notin reentered /\ phase[frames[i]] \notin {"dying", "notifying"} =>
            LET r == taskReq[frames[i]] IN
            /\ i = Len(frames)
            /\ unhandled # <<>>
            /\ unhandled[Len(unhandled)] = r
            /\ \A u \in Tasks \ {frames[i]} : phase[u] \in Owing => taskReq[u] # r

(* The destructor waits only on a count that was not zero.                 *)
LoadedInv == life \in {"comparing", "blocked"} => loaded # 0

(* What holds whatever the submitter does, throwing after it called the    *)
(* context back included.                                                  *)
BaseInv ==
    /\ TypeOK
    /\ CountIsExact
    /\ StackInv
    /\ LifeInv
    /\ LoadedInv
    /\ NoWakeUpIsLost
    /\ DestroyedIsQuiet

IInv ==
    /\ TypeOK
    /\ CountIsExact
    /\ StackInv
    /\ LifeInv
    /\ OutstandingIsOwed
    /\ TaskOwnsRequest
    /\ NothingStranded
    /\ AnswerInv
    /\ ToldWhatHappened
    /\ DoomInv
    /\ CancelledBeforeStartNeverRuns
    /\ BodyIsTheSubmittedOne
    /\ DestroyedIsQuiet
    /\ ThrowInv

-----------------------------------------------------------------------------
(* Every request that was submitted is handled while the context lives.    *)
EverySubmissionIsHandled ==
    \A r \in Requests : inFlight[r] ~> (~inFlight[r] \/ life # "open")

(* The destructor returns: no wake-up is lost between the load of the      *)
(* count and the wait on it.                                               *)
DestructorReturns == (life = "loading") ~> (life = "destroyed")

(* The context is an HttpContext: answers settle once, are told once, a    *)
(* settled answer does not change, closing waits for the workers.          *)
Contract == INSTANCE HttpContext WITH
    Verdicts <- Reports,
    NoVerdict <- "no verdict",
    ClosingWaits <- TRUE,
    stage    <- [r \in Requests |-> IF r \notin Listed THEN "idle"
                                    ELSE IF locked[r] THEN "submitted"
                                    ELSE "settled"],
    verdict  <- [r \in Requests |-> IF r \in Listed /\ ~locked[r]
                                    THEN HandlerFor(r) ELSE "no verdict"],
    told     <- [r \in Requests |-> IF told[r] = "nothing" THEN "no verdict"
                                    ELSE told[r]],
    life     <- CASE life = "open" -> "open"
                  [] life = "destroyed" -> "closed"
                  [] OTHER -> "closing"

ImplementsContract == Contract!Spec

=============================================================================
