---------------------------- MODULE CurlLifetime ----------------------------
(***************************************************************************)
(* How long the curl backend's objects live: contexts, the curl_share each *)
(* context's requests draw on, curl_requests with their handles, and       *)
(* libcurl's own global state, which every share and every request holds   *)
(* through a curl_global.  Several contexts, each with a main thread of    *)
(* its own, and the workers lent to them create and destroy these objects; *)
(* the last reference to a request may be a task_state's, released by a    *)
(* worker after the context's destructor has stopped waiting for it.       *)
(*                                                                         *)
(* A context's name stands for the context and for its share, which        *)
(* outlives it.  libcurl is external: its global count is read and written *)
(* apart, as in a build without its own lock; a handle that transfers, or  *)
(* is cleaned up, locks the share's caches, one at a time.                 *)
(***************************************************************************)
EXTENDS Naturals, FiniteSets

CONSTANTS
    Contexts,   \* contexts, and their shares
    Requests,   \* request objects
    MadeBy,     \* the context that makes each request
    TasksBound  \* bound: task_states of one request alive at once

Nobody == "nobody"

ASSUME LifetimeSetsAssumption ==
    /\ IsFiniteSet(Contexts) /\ IsFiniteSet(Requests)
    /\ Contexts \cap Requests = {} /\ Nobody \notin Requests
ASSUME MadeByAssumption == MadeBy \in [Requests -> Contexts]
ASSUME TasksBoundAssumption == TasksBound \in Nat \ {0}

Users == Contexts \cup Requests  \* those with a curl_global

VARIABLES
    globals,    \* libcurl's count of curl_global_init without cleanup
    seen,       \* that count as a user inside curl_global read it
    stage,      \* each user, from construction to destruction
    context,    \* each context, apart from its share
    named,      \* the program has a reference to the request
    listed,     \* m_UnhandledRequests has one
    working,    \* a worker is in worker_fetch_task, or will be
    pending,    \* task_states of a request before their fetch_sub ...
    counted,    \* ... and after it, still holding the request
    locking     \* the request whose handle has locked a share's cache

vars == <<globals, seen, stage, context, named, listed, working, pending,
          counted, locking>>
references == <<context, named, listed, working, pending, counted>>

(* "holding": its curl_global is made and nothing else; "cleaning": in     *)
(* curl_easy_cleanup or curl_share_cleanup; "closed": after it; "released":*)
(* its curl_global alone is left.                                          *)
Stages == {"unborn", "initializing", "holding", "alive", "cleaning", "closed",
           "released", "finalizing", "gone"}
InGlobalLock == {"initializing", "finalizing"}
Initialized == {"holding", "alive", "cleaning", "closed", "released", "finalizing"}
CallsLibcurl == {"holding", "alive", "cleaning"}
HoldsShare == {"alive", "cleaning", "closed"}

TypeOK ==
    /\ globals \in Nat
    /\ seen \in Nat
    /\ stage \in [Users -> Stages]
    /\ context \in [Contexts -> {"unborn", "alive", "waiting", "gone"}]
    /\ named \in [Requests -> BOOLEAN]
    /\ listed \in [Requests -> BOOLEAN]
    /\ working \in [Requests -> BOOLEAN]
    /\ pending \in [Requests -> 0..TasksBound]
    /\ counted \in [Requests -> 0..TasksBound]
    /\ locking \in [Contexts -> Requests \cup {Nobody}]

Init ==
    /\ globals = 0
    /\ seen = 0
    /\ stage = [u \in Users |-> "unborn"]
    /\ context = [c \in Contexts |-> "unborn"]
    /\ named = [r \in Requests |-> FALSE]
    /\ listed = [r \in Requests |-> FALSE]
    /\ working = [r \in Requests |-> FALSE]
    /\ pending = [r \in Requests |-> 0]
    /\ counted = [r \in Requests |-> 0]
    /\ locking = [c \in Contexts |-> Nobody]

Become(u, new) == stage' = [stage EXCEPT ![u] = new]

Of(c) == {r \in Requests : MadeBy[r] = c}

(* Main of c is not inside a constructor.                                  *)
MainFree(c) ==
    context[c] = "alive" /\ \A r \in Of(c) : stage[r] \notin {"initializing", "holding"}

-----------------------------------------------------------------------------
(* curl_global.                                                            *)

(* g_GlobalMutex can be taken.                                             *)
GlobalMutexFree_Always == TRUE
GlobalMutexFree == \A u \in Users : stage[u] \notin InGlobalLock

MayBegin(u) ==
    IF u \in Contexts THEN TRUE ELSE MainFree(MadeBy[u])

(* make, make_get, make_post: the first member is the curl_global.         *)
Initialize(u) ==
    /\ stage[u] = "unborn" /\ MayBegin(u)
    /\ GlobalMutexFree
    /\ Become(u, "initializing")
    /\ seen' = globals
    /\ UNCHANGED <<globals, references, locking>>

(* curl_global_init succeeds, or fails and the constructor throws.         *)
InitReturns(u) ==
    /\ stage[u] = "initializing"
    /\ \/ globals' = seen + 1 /\ Become(u, "holding")
       \/ UNCHANGED globals /\ Become(u, "gone")
    /\ UNCHANGED <<seen, references, locking>>

Finalize(u) ==
    /\ stage[u] = "released"
    /\ GlobalMutexFree
    /\ Become(u, "finalizing")
    /\ seen' = globals
    /\ UNCHANGED <<globals, references, locking>>

CleanupReturns(u) ==
    /\ stage[u] = "finalizing"
    /\ globals' = seen - 1
    /\ Become(u, "gone")
    /\ UNCHANGED <<seen, references, locking>>

-----------------------------------------------------------------------------
(* The rest of the constructors.                                           *)

(* curl_share_init, and with it the context, or the exception of either.   *)
MakeShare(c) ==
    /\ stage[c] = "holding"
    /\ \/ Become(c, "alive") /\ context' = [context EXCEPT ![c] = "alive"]
       \/ Become(c, "released") /\ UNCHANGED context
    /\ UNCHANGED <<globals, seen, named, listed, working, pending, counted, locking>>

(* curl_easy_init fails; or the handle is attached to the share, and a     *)
(* header may be refused: that request is destroyed at once.               *)
MakeHandle(r) ==
    /\ stage[r] = "holding"
    /\ \/ Become(r, "released") /\ UNCHANGED named
       \/ Become(r, "alive") /\ \E kept \in BOOLEAN :
                                    named' = [named EXCEPT ![r] = kept]
    /\ UNCHANGED <<globals, seen, context, listed, working, pending, counted, locking>>

-----------------------------------------------------------------------------
(* References to a request come and go.                                    *)

DropName(r) ==
    /\ named[r]
    /\ named' = [named EXCEPT ![r] = FALSE]
    /\ UNCHANGED <<globals, seen, stage, context, listed, working, pending,
                   counted, locking>>

Submit(r) ==
    /\ MainFree(MadeBy[r]) /\ named[r] /\ ~listed[r]
    /\ pending[r] + counted[r] < TasksBound
    /\ pending' = [pending EXCEPT ![r] = @ + 1]
    /\ listed' = [listed EXCEPT ![r] = TRUE]
    /\ working' = [working EXCEPT ![r] = TRUE]
    /\ UNCHANGED <<globals, seen, stage, context, named, counted, locking>>

(* worker_fetch_task returns, or worker_abandon.                           *)
TaskEnds(r) ==
    /\ working[r] /\ locking[MadeBy[r]] # r
    /\ working' = [working EXCEPT ![r] = FALSE]
    /\ UNCHANGED <<globals, seen, stage, context, named, listed, pending,
                   counted, locking>>

Handle(r) ==
    /\ MainFree(MadeBy[r]) /\ listed[r] /\ ~working[r]
    /\ listed' = [listed EXCEPT ![r] = FALSE]
    /\ UNCHANGED <<globals, seen, stage, context, named, working, pending,
                   counted, locking>>

(* ~task_state: fetch_sub ...                                              *)
Count(r) ==
    /\ pending[r] > (IF working[r] THEN 1 ELSE 0)
    /\ pending' = [pending EXCEPT ![r] = @ - 1]
    /\ counted' = [counted EXCEPT ![r] = @ + 1]
    /\ UNCHANGED <<globals, seen, stage, context, named, listed, working, locking>>

(* ... and then, after notify_all, its members.                            *)
Release(r) ==
    /\ counted[r] > 0
    /\ counted' = [counted EXCEPT ![r] = @ - 1]
    /\ UNCHANGED <<globals, seen, stage, context, named, listed, working,
                   pending, locking>>

-----------------------------------------------------------------------------
(* curl_share::lock and unlock, called by libcurl.                         *)

UsesShare(r) == (working[r] /\ stage[r] = "alive") \/ stage[r] = "cleaning"

LockShare(r) ==
    /\ UsesShare(r)
    /\ locking[MadeBy[r]] = Nobody
    /\ locking' = [locking EXCEPT ![MadeBy[r]] = r]
    /\ UNCHANGED <<globals, seen, stage, references>>

UnlockShare_Never(r) == FALSE /\ UNCHANGED vars
UnlockShare(r) ==
    /\ locking[MadeBy[r]] = r
    /\ locking' = [locking EXCEPT ![MadeBy[r]] = Nobody]
    /\ UNCHANGED <<globals, seen, stage, references>>

-----------------------------------------------------------------------------
(* Destruction.                                                            *)

Referenced_NotByTask(r) == named[r] \/ listed[r]
Referenced(r) == named[r] \/ listed[r] \/ pending[r] + counted[r] > 0

(* ~curl_request, members in reverse order: m_pHandle's deleter ...        *)
CleanHandle(r) ==
    /\ stage[r] = "alive" /\ ~Referenced(r)
    /\ Become(r, "cleaning")
    /\ UNCHANGED <<globals, seen, references, locking>>

HandleClosed(r) ==
    /\ stage[r] = "cleaning" /\ locking[MadeBy[r]] # r
    /\ Become(r, "closed")
    /\ UNCHANGED <<globals, seen, references, locking>>

(* ... then m_pShare.                                                      *)
ReleaseShare(r) ==
    /\ stage[r] = "closed"
    /\ Become(r, "released")
    /\ UNCHANGED <<globals, seen, references, locking>>

(* ~curl_context: cancel_all and the wait ...                              *)
BeginDestroy(c) ==
    /\ MainFree(c)
    /\ context' = [context EXCEPT ![c] = "waiting"]
    /\ UNCHANGED <<globals, seen, stage, named, listed, working, pending,
                   counted, locking>>

(* ... over, and its members: the list, and the last of them m_pShare.     *)
EndDestroy(c) ==
    /\ context[c] = "waiting"
    /\ \A r \in Of(c) : pending[r] = 0
    /\ context' = [context EXCEPT ![c] = "gone"]
    /\ listed' = [r \in Requests |-> listed[r] /\ r \notin Of(c)]
    /\ UNCHANGED <<globals, seen, stage, named, working, pending, counted, locking>>

(* ~curl_share, when no shared_ptr is left.                                *)
ShareReferenced_ByContextOnly(c) == context[c] \in {"alive", "waiting"}
ShareReferenced(c) ==
    context[c] \in {"alive", "waiting"} \/ \E r \in Of(c) : stage[r] \in HoldsShare

CleanShare(c) ==
    /\ stage[c] = "alive" /\ ~ShareReferenced(c)
    /\ Become(c, "released")
    /\ UNCHANGED <<globals, seen, references, locking>>

-----------------------------------------------------------------------------

(* A thread in a constructor, in a destructor, in a task.                  *)
Constructing(u) ==
    \/ InitReturns(u)
    \/ u \in Contexts /\ MakeShare(u)
    \/ u \in Requests /\ MakeHandle(u)
Finalizing(u) == Finalize(u) \/ CleanupReturns(u)
Destroying(r) ==
    CleanHandle(r) \/ HandleClosed(r) \/ ReleaseShare(r) \/ Finalizing(r)
ContextEnds(c) == EndDestroy(c) \/ CleanShare(c) \/ Finalizing(c)

Next ==
    \/ \E u \in Users : Initialize(u) \/ Constructing(u)
    \/ \E c \in Contexts : BeginDestroy(c) \/ ContextEnds(c)
    \/ \E r \in Requests :
          \/ DropName(r) \/ Submit(r) \/ Handle(r)
          \/ TaskEnds(r) \/ Count(r) \/ Release(r)
          \/ LockShare(r) \/ UnlockShare(r)
          \/ Destroying(r)

Spec == Init /\ [][Next]_vars

(* Threads go on, whoever holds a mutex gives it back, and each mutex is   *)
(* in the end given to a thread that keeps asking for it: hence SF.        *)
Fairness ==
    /\ \A u \in Users : WF_vars(Constructing(u))
    /\ \A c \in Contexts : SF_vars(ContextEnds(c))
    /\ \A r \in Requests :
          /\ SF_vars(Destroying(r)) /\ SF_vars(TaskEnds(r))
          /\ WF_vars(Count(r)) /\ WF_vars(Release(r)) /\ WF_vars(UnlockShare(r))

FairSpec == Spec /\ Fairness

-----------------------------------------------------------------------------
(* What must hold.                                                         *)

(* libcurl's count is the number of curl_globals there are, though shares  *)
(* and requests come and go on any thread: it is torn down with the last   *)
(* of them and not before (g_GlobalMutex).                                 *)
GlobalCountIsExact ==
    globals = Cardinality({u \in Users : stage[u] \in Initialized})

(* libcurl is set up whenever a handle or a share may still call it.       *)
LibcurlOutlivesItsUsers ==
    (\E u \in Users : stage[u] \in CallsLibcurl) => globals > 0

(* A share is there as long as a handle is attached to it, and as long as  *)
(* one of its mutexes is locked: also when the context is gone and a       *)
(* worker or the program destroys the last request after it.               *)
ShareOutlivesHandles ==
    \A r \in Requests :
        /\ stage[r] \in HoldsShare => stage[MadeBy[r]] = "alive"
        /\ locking[MadeBy[r]] = r => stage[MadeBy[r]] = "alive" /\ UsesShare(r)

(* A request in a worker's, main's or the program's hands is not being     *)
(* destroyed, and the destructor of the context has outlasted every        *)
(* transfer, though not every task_state.                                  *)
RequestsOutliveTheirTasks ==
    \A r \in Requests :
        /\ named[r] \/ listed[r] \/ pending[r] + counted[r] > 0 =>
              stage[r] = "alive"
        /\ working[r] => pending[r] > 0 /\ context[MadeBy[r]] \in {"alive", "waiting"}

(* Once the context is destroyed and the program has dropped its requests, *)
(* everything of it is torn down: no reference is kept in a cycle, and no  *)
(* two of the mutexes wait for each other.                                 *)
EverythingIsTornDown ==
    \A c \in Contexts :
        (context[c] = "gone" /\ \A r \in Of(c) : ~named[r]) ~> (stage[c] = "gone")

=============================================================================
