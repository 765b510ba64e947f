--------------------------- MODULE FetchLifetime ---------------------------
(***************************************************************************)
(* How long the Emscripten backend's objects live: fetch_requests, the     *)
(* emscripten_fetch_ts they start and the holder each of these keeps its   *)
(* request alive by, closed from a callback, a poll or the context's       *)
(* destructor.  FetchContext has each closing as one step; here it is as   *)
(* many as close_fetch takes, since emscripten_fetch_close calls on_error  *)
(* back on a fetch that is still pending.                                  *)
(*                                                                         *)
(* Everything here is main's but for the task_states, the program's        *)
(* references and cancel.  Main's calls form a stack: a handler may submit *)
(* again and poll.  The passes and the order of a poll are FetchContext's, *)
(* the answers too.  Assumed: the browser calls back from main's event     *)
(* loop, or from emscripten_fetch_close; neither a submitter nor           *)
(* main_on_submit calls the context back; main does not destroy the        *)
(* context in one of its calls.                                            *)
(***************************************************************************)
EXTENDS Naturals, Sequences, SequencesExt

CONSTANTS
    Requests,   \* request objects of one context
    Fetches,    \* the memory an emscripten_fetch_t may take
    Null,       \* a null pointer
    TasksBound, \* bound: spent task_states of one request alive at once
    CallsBound  \* bound: main's calls inside one another

ASSUME FetchPointersAssumption == Null \notin Requests \cup Fetches
ASSUME FetchBoundsAssumption == TasksBound \in Nat /\ CallsBound \in Nat

VARIABLES
    life,       \* "open", "abandoning", "gone": the context
    todo,       \* the requests its destructor has yet to abandon
    calls,      \* main's calls, the innermost last
    alive,      \* the request is not destroyed
    named,      \* the program has a reference to it
    listed,     \* m_UnhandledRequests has one
    inFlight,   \* m_bInFlight
    cancelled,  \* m_bCancelled
    locked,     \* m_bResponseLocked
    pFetch,     \* m_pFetch
    working,    \* the submission's task_state has not unlocked the request
    spent,      \* task_states that have, and still hold it
    state,      \* each fetch
    userData,   \* the request of the holder userData points at
    holder      \* the request that the fetch's holder refers to

(* History: how often the present submission has been unlocked for main.   *)
VARIABLE ended

flags == <<inFlight, cancelled, locked>>
tasks == <<working, spent>>
fetchVars == <<pFetch, state, userData, holder>>
vars == <<life, todo, calls, alive, named, listed, flags, fetchVars, tasks, ended>>

Call(at, r, f) == [at |-> at, request |-> r, fetch |-> f]

(* "answering": on_success or on_error; "finishing": main_finish, before   *)
(* it closes; "finished": after; "submitting": in the submitter;           *)
(* "aborting": main_abort_if_cancelled; "handling": main_run_handlers;     *)
(* "closing", "deleting": close_fetch, before and after                    *)
(* emscripten_fetch_close.                                                 *)
Places == {"answering", "finishing", "finished", "submitting", "aborting",
           "handling", "closing", "deleting"}
Calls == [at : Places, request : Requests \cup {Null}, fetch : Fetches \cup {Null}]

TypeOK ==
    /\ life \in {"open", "abandoning", "gone"}
    /\ todo \subseteq Requests
    /\ calls \in Seq(Calls)
    /\ alive \in [Requests -> BOOLEAN]
    /\ named \in [Requests -> BOOLEAN]
    /\ listed \in [Requests -> BOOLEAN]
    /\ inFlight \in [Requests -> BOOLEAN]
    /\ cancelled \in [Requests -> BOOLEAN]
    /\ locked \in [Requests -> BOOLEAN]
    /\ pFetch \in [Requests -> Fetches \cup {Null}]
    /\ working \in [Requests -> BOOLEAN]
    /\ spent \in [Requests -> Nat]
    /\ state \in [Fetches -> {"free", "pending", "answered", "closed"}]
    /\ userData \in [Fetches -> Requests \cup {Null}]
    /\ holder \in [Fetches -> Requests \cup {Null}]
    /\ ended \in [Requests -> Nat]

Init ==
    /\ life = "open"
    /\ todo = {}
    /\ calls = <<>>
    /\ alive = [r \in Requests |-> TRUE]
    /\ named = [r \in Requests |-> TRUE]
    /\ listed = [r \in Requests |-> FALSE]
    /\ inFlight = [r \in Requests |-> FALSE]
    /\ cancelled = [r \in Requests |-> FALSE]
    /\ locked = [r \in Requests |-> TRUE]
    /\ pFetch = [r \in Requests |-> Null]
    /\ working = [r \in Requests |-> FALSE]
    /\ spent = [r \in Requests |-> 0]
    /\ state = [f \in Fetches |-> "free"]
    /\ userData = [f \in Fetches |-> Null]
    /\ holder = [f \in Fetches |-> Null]
    /\ ended = [r \in Requests |-> 0]

-----------------------------------------------------------------------------
(* Main's calls.                                                           *)

InLoop == calls = <<>>
In(place) == calls # <<>> /\ Last(calls).at = place
InProgram == InLoop \/ In("handling")
Here == Last(calls)
Return == Front(calls)
MayCall == Len(calls) < CallsBound

(* close_fetch, called with the calls given beneath it: m_pFetch and       *)
(* userData are cleared first.                                             *)
CloseFetch_KeepsUserData(r, beneath) ==
    IF pFetch[r] = Null
    THEN calls' = beneath /\ UNCHANGED <<pFetch, userData>>
    ELSE /\ calls' = Append(beneath, Call("closing", r, pFetch[r]))
         /\ pFetch' = [pFetch EXCEPT ![r] = Null]
         /\ UNCHANGED userData
CloseFetch(r, beneath) ==
    IF pFetch[r] = Null
    THEN calls' = beneath /\ UNCHANGED <<pFetch, userData>>
    ELSE /\ calls' = Append(beneath, Call("closing", r, pFetch[r]))
         /\ pFetch' = [pFetch EXCEPT ![r] = Null]
         /\ userData' = [userData EXCEPT ![pFetch[r]] = Null]

(* emscripten_fetch_close: a pending fetch ends with onerror.              *)
EmscriptenFetchClose ==
    LET f == Here.fetch
        closed == Append(Return, Call("deleting", Here.request, f))
    IN
    /\ In("closing")
    /\ IF state[f] = "pending"
       THEN /\ state' = [state EXCEPT ![f] = "closed"]
            /\ calls' = Append(closed, Call("answering", Null, f))
       ELSE /\ calls' = closed
            /\ UNCHANGED state
    /\ UNCHANGED <<life, todo, alive, named, listed, flags, pFetch, userData,
                   holder, tasks, ended>>

(* The fetch is freed, and close_fetch deletes the holder.                 *)
DeleteHolder ==
    /\ In("deleting")
    /\ calls' = Return
    /\ state' = [state EXCEPT ![Here.fetch] = "free"]
    /\ holder' = [holder EXCEPT ![Here.fetch] = Null]
    /\ UNCHANGED <<life, todo, alive, named, listed, flags, pFetch, userData,
                   tasks, ended>>

-----------------------------------------------------------------------------
(* The program.                                                            *)

(* try_submit: emscripten_fetch returns a fetch ...                        *)
TrySubmit(r, f) ==
    /\ InProgram /\ life = "open" /\ named[r] /\ ~inFlight[r]
    /\ state[f] = "free" /\ spent[r] < TasksBound
    /\ cancelled' = [cancelled EXCEPT ![r] = FALSE]
    /\ locked' = [locked EXCEPT ![r] = TRUE]
    /\ inFlight' = [inFlight EXCEPT ![r] = TRUE]
    /\ listed' = [listed EXCEPT ![r] = TRUE]
    /\ pFetch' = [pFetch EXCEPT ![r] = f]
    /\ state' = [state EXCEPT ![f] = "pending"]
    /\ userData' = [userData EXCEPT ![f] = r]
    /\ holder' = [holder EXCEPT ![f] = r]
    /\ ended' = [ended EXCEPT ![r] = 0]
    /\ UNCHANGED <<life, todo, calls, alive, named, tasks>>

(* ... or null, or main_on_submit throws.                                  *)
SubmitRefused(r) ==
    /\ InProgram /\ life = "open" /\ named[r] /\ ~inFlight[r]
    /\ cancelled' = [cancelled EXCEPT ![r] = FALSE]
    /\ locked' = [locked EXCEPT ![r] = TRUE]
    /\ UNCHANGED <<life, todo, calls, alive, named, listed, inFlight, fetchVars,
                   tasks, ended>>

(* cancel from any thread, and cancel_all.                                 *)
Cancel(r) ==
    /\ named[r] \/ listed[r]
    /\ cancelled' = [cancelled EXCEPT ![r] = TRUE]
    /\ UNCHANGED <<life, todo, calls, alive, named, listed, inFlight, locked,
                   fetchVars, tasks, ended>>

DropName(r) ==
    /\ named[r]
    /\ named' = [named EXCEPT ![r] = FALSE]
    /\ UNCHANGED <<life, todo, calls, alive, listed, flags, fetchVars, tasks, ended>>

-----------------------------------------------------------------------------
(* The browser, and what main makes of its answers.                        *)

Answer(f) ==
    /\ InLoop /\ life # "abandoning" /\ state[f] = "pending"
    /\ state' = [state EXCEPT ![f] = "answered"]
    /\ calls' = <<Call("answering", Null, f)>>
    /\ UNCHANGED <<life, todo, alive, named, listed, flags, pFetch, userData,
                   holder, tasks, ended>>

(* on_success, on_error: the holder, if there is one, is copied.           *)
OnAnswer ==
    LET r == userData[Here.fetch] IN
    /\ In("answering")
    /\ calls' = IF r = Null THEN Return
                ELSE Append(Return, Call("finishing", r, Here.fetch))
    /\ UNCHANGED <<life, todo, alive, named, listed, flags, fetchVars, tasks, ended>>

(* main_finish reads the fetch and closes it ...                           *)
MainFinish ==
    /\ In("finishing")
    /\ CloseFetch(Here.request, Append(Return, Call("finished", Here.request, Null)))
    /\ UNCHANGED <<life, todo, alive, named, listed, flags, state, holder, tasks,
                   ended>>

(* ... and gives the task to the submitter, unless the context is gone.    *)
RunWorkerHalf ==
    LET r == Here.request IN
    /\ In("finished")
    /\ IF life = "open"
       THEN /\ working' = [working EXCEPT ![r] = TRUE]
            /\ calls' = Append(Return, Call("submitting", r, Null))
       ELSE /\ calls' = Return
            /\ UNCHANGED working
    /\ UNCHANGED <<life, todo, alive, named, listed, flags, fetchVars, spent, ended>>

SubmitterReturns ==
    /\ In("submitting")
    /\ calls' = Return
    /\ UNCHANGED <<life, todo, alive, named, listed, flags, fetchVars, tasks, ended>>

Unlock(r) ==
    /\ locked' = [locked EXCEPT ![r] = FALSE]
    /\ ended' = [ended EXCEPT ![r] = @ + 1]

(* The task has run, or is destroyed unrun: in either case it unlocks.     *)
TaskEnds(r) ==
    /\ working[r]
    /\ Unlock(r)
    /\ working' = [working EXCEPT ![r] = FALSE]
    /\ spent' = [spent EXCEPT ![r] = @ + 1]
    /\ UNCHANGED <<life, todo, calls, alive, named, listed, inFlight, cancelled,
                   fetchVars>>

Release(r) ==
    /\ spent[r] > 0
    /\ spent' = [spent EXCEPT ![r] = @ - 1]
    /\ UNCHANGED <<life, todo, calls, alive, named, listed, flags, fetchVars,
                   working, ended>>

-----------------------------------------------------------------------------
(* Polling.                                                                *)

(* main_abort_if_cancelled ...                                             *)
Abort(r) ==
    /\ InProgram /\ MayCall /\ life = "open" /\ listed[r]
    /\ inFlight[r] /\ cancelled[r] /\ pFetch[r] # Null
    /\ CloseFetch(r, Append(calls, Call("aborting", r, Null)))
    /\ UNCHANGED <<life, todo, alive, named, listed, flags, state, holder, tasks,
                   ended>>

(* ... after close_fetch.                                                  *)
AbortEnds ==
    /\ In("aborting")
    /\ calls' = Return
    /\ Unlock(Here.request)
    /\ UNCHANGED <<life, todo, alive, named, listed, inFlight, cancelled,
                   fetchVars, tasks>>

(* main_try_claim, the erasure, and main_run_handlers up to the handler.   *)
Claim(r) ==
    /\ InProgram /\ MayCall /\ life = "open" /\ listed[r]
    /\ ~locked[r]
    /\ locked' = [locked EXCEPT ![r] = TRUE]
    /\ listed' = [listed EXCEPT ![r] = FALSE]
    /\ inFlight' = [inFlight EXCEPT ![r] = FALSE]
    /\ CloseFetch(r, Append(calls, Call("handling", r, Null)))
    /\ UNCHANGED <<life, todo, alive, named, cancelled, state, holder, tasks, ended>>

HandlerReturns ==
    /\ In("handling")
    /\ calls' = Return
    /\ UNCHANGED <<life, todo, alive, named, listed, flags, fetchVars, tasks, ended>>

-----------------------------------------------------------------------------
(* Destruction.                                                            *)

BeginDestroy ==
    /\ InLoop /\ life = "open"
    /\ life' = "abandoning"
    /\ todo' = {r \in Requests : listed[r]}
    /\ UNCHANGED <<calls, alive, named, listed, flags, fetchVars, tasks, ended>>

(* main_abandon.                                                           *)
Abandon(r) ==
    /\ InLoop /\ r \in todo
    /\ todo' = todo \ {r}
    /\ cancelled' = [cancelled EXCEPT ![r] = TRUE]
    /\ CloseFetch(r, calls)
    /\ UNCHANGED <<life, alive, named, listed, inFlight, locked, state, holder,
                   tasks, ended>>

(* The context's members are destroyed, the list among them.               *)
EndDestroy ==
    /\ InLoop /\ life = "abandoning" /\ todo = {}
    /\ life' = "gone"
    /\ listed' = [r \in Requests |-> FALSE]
    /\ UNCHANGED <<todo, calls, alive, named, flags, fetchVars, tasks, ended>>

(* The calls that have a reference to their request of their own: pRequest *)
(* of a callback and of a poll, pSelf of main_finish.                      *)
Pinning_NotInPolls == {"finishing", "finished", "submitting"}
Pinning == {"finishing", "finished", "submitting", "handling"}

Pinned(r) ==
    \E i \in DOMAIN calls : calls[i].at \in Pinning /\ calls[i].request = r

Referenced(r) ==
    \/ named[r] \/ listed[r] \/ working[r] \/ spent[r] > 0
    \/ \E f \in Fetches : holder[f] = r
    \/ Pinned(r)

(* ~fetch_request, on whatever thread: its close_fetch finds no fetch.     *)
Destroy(r) ==
    /\ alive[r] /\ ~Referenced(r)
    /\ alive' = [alive EXCEPT ![r] = FALSE]
    /\ UNCHANGED <<life, todo, calls, named, listed, flags, fetchVars, tasks, ended>>

-----------------------------------------------------------------------------

Returns ==
    \/ EmscriptenFetchClose \/ DeleteHolder
    \/ OnAnswer \/ MainFinish \/ RunWorkerHalf \/ SubmitterReturns
    \/ AbortEnds \/ HandlerReturns

Next ==
    \/ \E r \in Requests :
          \/ \E f \in Fetches : TrySubmit(r, f)
          \/ SubmitRefused(r) \/ Cancel(r) \/ DropName(r)
          \/ TaskEnds(r) \/ Release(r)
          \/ Abort(r) \/ Claim(r) \/ Abandon(r)
          \/ Destroy(r)
    \/ \E f \in Fetches : Answer(f)
    \/ Returns
    \/ BeginDestroy \/ EndDestroy

Spec == Init /\ [][Next]_vars

-----------------------------------------------------------------------------
(* What must hold.                                                         *)

(* A submission is unlocked for main once: by its task_state or by an      *)
(* abort, never by both, although closing a pending fetch calls on_error   *)
(* back, which would finish the request (close_fetch clears userData       *)
(* first).                                                                 *)
EndedOnce ==
    \A r \in Requests :
        /\ ended[r] <= 1
        /\ listed[r] /\ ~locked[r] => ended[r] = 1

BeingClosed(f) ==
    \E i \in DOMAIN calls :
        calls[i].at \in {"closing", "deleting"} /\ calls[i].fetch = f

(* Whatever main is doing to a request or a fetch, it is still there, and  *)
(* so is the request a worker half is to unlock, though the context's      *)
(* destructor does not wait for it; a destroyed request has no fetch left  *)
(* to close; and a fetch that is not freed has a request that will close it*)
(* or is closing it, so none is left when the context is gone.             *)
NothingDangles ==
    /\ \A i \in DOMAIN calls :
          /\ calls[i].request # Null => alive[calls[i].request]
          /\ calls[i].fetch # Null => state[calls[i].fetch] # "free"
    /\ \A r \in Requests :
          /\ working[r] => alive[r]
          /\ pFetch[r] # Null => alive[r] /\ state[pFetch[r]] # "free"
    /\ \A f \in Fetches : state[f] # "free" =>
          BeingClosed(f) \/ \E r \in Requests : pFetch[r] = f
    /\ life = "gone" => \A f \in Fetches : state[f] = "free"

-----------------------------------------------------------------------------
(* The inductive invariant behind them, part by part.                      *)

(* Which call may be made within which: a handler polls; main_finish and  *)
(* main_abort_if_cancelled close; and emscripten_fetch_close has on_error  *)
(* called.                                                                 *)
Within(c, d) ==
    \/ c.at = "handling" /\ d.at \in {"handling", "aborting"}
    \/ c.at \in {"aborting", "finished"} /\ d.at \in {"closing", "deleting"}
    \/ c.at = "deleting" /\ d.at = "answering" /\ d.fetch = c.fetch

(* What a call is about, and the context it needs.                         *)
Sound(c) ==
    /\ c.request = Null <=> c.at = "answering"
    /\ c.fetch # Null <=>
          c.at \in {"answering", "finishing", "closing", "deleting"}
    /\ c.at \notin {"answering", "closing", "deleting"} => life = "open"

CallsInv ==
    /\ \A i \in DOMAIN calls : Sound(calls[i])
    /\ \A i \in DOMAIN calls : i # 1 => Within(calls[i - 1], calls[i])
    /\ calls # <<>> /\ calls[1].at = "answering" =>
          life = "open" /\ state[calls[1].fetch] = "answered"

(* A submission nothing has ended yet, nor is about to.                    *)
Unended(r) ==
    listed[r] /\ inFlight[r] /\ locked[r] /\ ~working[r] /\ ended[r] = 0

(* A request has a fetch while its submission is unended, and then the     *)
(* fetch has the request; the context is there, or its destructor is about *)
(* to see to it.                                                           *)
Fetching(r) ==
    LET f == pFetch[r] IN
    /\ f \in Fetches /\ holder[f] = r /\ userData[f] = r
    /\ state[f] \in {"pending", "answered"}
    /\ Unended(r)
    /\ life = "open" \/ (life = "abandoning" /\ r \in todo)

(* A fetch has a holder until it is freed, and userData until a close.     *)
Held(f) ==
    /\ state[f] = "free" => holder[f] = Null
    /\ userData[f] # Null => pFetch[userData[f]] = f
    /\ state[f] # "free" => userData[f] # Null \/ BeingClosed(f)

(* main_finish has its request's fetch; close_fetch has taken it.          *)
HasFetch(c) ==
    /\ c.at = "finishing" => pFetch[c.request] = c.fetch
    /\ c.at \in {"closing", "deleting"} =>
          holder[c.fetch] = c.request /\ userData[c.fetch] = Null

FetchInv ==
    /\ \A r \in Requests : pFetch[r] # Null => Fetching(r)
    /\ \A f \in Fetches : Held(f)
    /\ \A i \in DOMAIN calls : HasFetch(calls[i])
    /\ life = "gone" => calls = <<>> /\ \A f \in Fetches : state[f] = "free"

(* What is to end a submission is alone in that, and ends it once.         *)
Ending(c) ==
    c.at \in {"aborting", "finished"} =>
        Unended(c.request) /\ pFetch[c.request] = Null

Ended(r) ==
    /\ working[r] => inFlight[r] /\ locked[r] /\ ended[r] = 0
    /\ ~locked[r] => ended[r] = 1
    /\ ended[r] <= 1

EndInv ==
    /\ \A i \in DOMAIN calls : Ending(calls[i])
    /\ \A r \in Requests : Ended(r)

ReferenceInv == \A r \in Requests : Referenced(r) => alive[r]

IInv ==
    /\ TypeOK
    /\ CallsInv
    /\ FetchInv
    /\ EndInv
    /\ ReferenceInv

=============================================================================
