-------------------------- MODULE CurlLifetimeProofs --------------------------
EXTENDS CurlLifetime, FiniteSetTheorems, TLAPS

-----------------------------------------------------------------------------
(* The inductive invariant: the properties, and what they rest on.         *)

(* A context that is not gone has its share, and its main does not destroy *)
(* it while it constructs a request.                                       *)
ContextsHoldShares ==
    /\ \A c \in Contexts : context[c] \in {"alive", "waiting"} => stage[c] = "alive"
    /\ \A r \in Requests :
          stage[r] \in {"initializing", "holding"} => context[MadeBy[r]] = "alive"

TasksAreBounded ==
    \A r \in Requests : pending[r] + counted[r] <= TasksBound

(* g_GlobalMutex: one user is inside, and it has read the present count.   *)
GlobalMutexHeldOnce ==
    /\ \A u, v \in Users :
          stage[u] \in InGlobalLock /\ stage[v] \in InGlobalLock => u = v
    /\ \A u \in Users : stage[u] \in InGlobalLock => seen = globals

IInv ==
    /\ TypeOK
    /\ GlobalMutexHeldOnce /\ GlobalCountIsExact
    /\ TasksAreBounded /\ RequestsOutliveTheirTasks
    /\ ContextsHoldShares /\ ShareOutlivesHandles

-----------------------------------------------------------------------------
(* libcurl's count.                                                        *)

Holders == {u \in Users : stage[u] \in Initialized}

LEMMA UsersFinite == IsFiniteSet(Users)
BY LifetimeSetsAssumption, FS_Union DEF Users

LEMMA HoldersFinite == IsFiniteSet(Holders) /\ Cardinality(Holders) \in Nat
BY UsersFinite, FS_Subset, FS_CardinalityType DEF Holders

(* A user that neither has nor wants g_GlobalMutex goes on with its life.  *)
Unlocked == Initialized \ InGlobalLock

Moves(u) ==
    /\ stage[u] \in Unlocked
    /\ \E new \in Unlocked : stage' = [stage EXCEPT ![u] = new]
    /\ UNCHANGED <<globals, seen>>

GlobalStep(u) ==
    Initialize(u) \/ InitReturns(u) \/ Finalize(u) \/ CleanupReturns(u)

LEMMA StageFacts ==
  ASSUME [Next]_vars
  PROVE  \/ UNCHANGED <<globals, seen, stage>>
         \/ \E u \in Users : Moves(u) \/ GlobalStep(u)
<1>1. ASSUME NEW u \in Users, Constructing(u)
      PROVE  Moves(u) \/ GlobalStep(u)
  <2>1. CASE u \in Contexts /\ MakeShare(u)
    BY <2>1 DEF MakeShare, Become, Moves, Unlocked, Initialized, InGlobalLock
  <2>2. CASE u \in Requests /\ MakeHandle(u)
    BY <2>2 DEF MakeHandle, Become, Moves, Unlocked, Initialized, InGlobalLock
  <2> QED
    BY <1>1, <2>1, <2>2 DEF Constructing, GlobalStep
<1>2. ASSUME NEW c \in Contexts, ContextEnds(c)
      PROVE  UNCHANGED <<globals, seen, stage>> \/ Moves(c) \/ GlobalStep(c)
  <2>1. CASE CleanShare(c)
    BY <2>1 DEF CleanShare, Become, Moves, Unlocked, Initialized, InGlobalLock
  <2> QED
    BY <1>2, <2>1 DEF ContextEnds, EndDestroy, Finalizing, GlobalStep
<1>3. ASSUME NEW r \in Requests, Destroying(r)
      PROVE  Moves(r) \/ GlobalStep(r)
  <2>1. CASE CleanHandle(r) \/ HandleClosed(r) \/ ReleaseShare(r)
    BY <2>1 DEF CleanHandle, HandleClosed, ReleaseShare, Become, Moves, Unlocked,
       Initialized, InGlobalLock
  <2> QED
    BY <1>3, <2>1 DEF Destroying, Finalizing, GlobalStep
<1>4. ASSUME NEW r \in Requests,
             \/ DropName(r) \/ Submit(r) \/ Handle(r)
             \/ TaskEnds(r) \/ Count(r) \/ Release(r)
             \/ LockShare(r) \/ UnlockShare(r)
      PROVE  UNCHANGED <<globals, seen, stage>>
  BY <1>4 DEF DropName, Submit, Handle, TaskEnds, Count, Release, LockShare,
     UnlockShare
<1>5. ASSUME NEW c \in Contexts, BeginDestroy(c)
      PROVE  UNCHANGED <<globals, seen, stage>>
  BY <1>5 DEF BeginDestroy
<1>6. CASE UNCHANGED vars
  BY <1>6 DEF vars
<1> QED
  BY <1>1, <1>2, <1>3, <1>4, <1>5, <1>6 DEF Next, Users, GlobalStep

LEMMA GlobalTypes ==
  ASSUME TypeOK, GlobalCountIsExact, GlobalMutexHeldOnce, [Next]_vars
  PROVE  /\ globals' \in Nat /\ seen' \in Nat /\ stage' \in [Users -> Stages]
         /\ GlobalMutexHeldOnce' /\ GlobalCountIsExact'
<1>0. /\ globals \in Nat /\ seen \in Nat /\ stage \in [Users -> Stages]
      /\ globals = Cardinality(Holders)
  BY DEF TypeOK, GlobalCountIsExact, Holders
<1>1. CASE UNCHANGED <<globals, seen, stage>>
  BY <1>0, <1>1 DEF GlobalMutexHeldOnce, GlobalCountIsExact
<1>2. ASSUME NEW u \in Users, Moves(u)
      PROVE  /\ globals' \in Nat /\ seen' \in Nat /\ stage' \in [Users -> Stages]
             /\ GlobalMutexHeldOnce' /\ GlobalCountIsExact'
  <2>1. stage' \in [Users -> Stages]
    BY <1>0, <1>2 DEF Moves, Unlocked, Initialized, InGlobalLock, Stages
  <2>2. \A v \in Users : /\ stage'[v] \in InGlobalLock <=> stage[v] \in InGlobalLock
                         /\ stage'[v] \in Initialized <=> stage[v] \in Initialized
    BY <1>0, <1>2 DEF Moves, Unlocked
  <2>3. Holders' = Holders
    BY <2>2 DEF Holders
  <2>4. GlobalMutexHeldOnce'
    BY <1>2, <2>2 DEF GlobalMutexHeldOnce, Moves
  <2> QED
    BY <1>0, <1>2, <2>1, <2>3, <2>4 DEF GlobalCountIsExact, Holders, Moves
<1>3. ASSUME NEW u \in Users, Initialize(u) \/ Finalize(u)
      PROVE  /\ globals' \in Nat /\ seen' \in Nat /\ stage' \in [Users -> Stages]
             /\ GlobalMutexHeldOnce' /\ GlobalCountIsExact'
  <2>1. /\ globals' = globals /\ seen' = globals
        /\ \A v \in Users : stage[v] \notin InGlobalLock
        /\ \/ stage[u] = "unborn" /\ stage' = [stage EXCEPT ![u] = "initializing"]
           \/ stage[u] = "released" /\ stage' = [stage EXCEPT ![u] = "finalizing"]
    BY <1>3 DEF Initialize, Finalize, GlobalMutexFree, Become
  <2>2. stage' \in [Users -> Stages]
    BY <1>0, <2>1 DEF Stages
  <2>3. \A v \in Users : /\ stage'[v] \in Initialized <=> stage[v] \in Initialized
                         /\ stage'[v] \in InGlobalLock => v = u
    BY <1>0, <2>1 DEF Initialized
  <2>4. Holders' = Holders
    BY <2>3 DEF Holders
  <2> QED
    BY <1>0, <2>1, <2>2, <2>3, <2>4 DEF GlobalMutexHeldOnce, GlobalCountIsExact,
       Holders
<1>4. ASSUME NEW u \in Users, InitReturns(u) \/ CleanupReturns(u)
      PROVE  /\ globals' \in Nat /\ seen' \in Nat /\ stage' \in [Users -> Stages]
             /\ GlobalMutexHeldOnce' /\ GlobalCountIsExact'
  <2>1. /\ stage[u] \in InGlobalLock /\ seen' = seen
        /\ \/ /\ stage[u] = "initializing" /\ globals' = seen + 1
              /\ stage' = [stage EXCEPT ![u] = "holding"]
           \/ /\ stage[u] = "initializing" /\ globals' = globals
              /\ stage' = [stage EXCEPT ![u] = "gone"]
           \/ /\ stage[u] = "finalizing" /\ globals' = seen - 1
              /\ stage' = [stage EXCEPT ![u] = "gone"]
    BY <1>4 DEF InitReturns, CleanupReturns, Become, InGlobalLock
  <2>2. stage' \in [Users -> Stages]
    BY <1>0, <2>1 DEF Stages
  <2>3. /\ \A v \in Users : stage'[v] \notin InGlobalLock
        /\ seen = globals
    BY <1>0, <2>1 DEF GlobalMutexHeldOnce, InGlobalLock
  <2>4. CASE /\ stage[u] = "initializing" /\ globals' = seen + 1
             /\ stage' = [stage EXCEPT ![u] = "holding"]
    <3>1. Holders' = Holders \cup {u} /\ u \notin Holders
      BY <1>0, <2>4 DEF Holders, Initialized
    <3>2. Cardinality(Holders') = Cardinality(Holders) + 1
      BY <3>1, HoldersFinite, FS_AddElement
    <3> QED
      BY <1>0, <2>1, <2>2, <2>3, <2>4, <3>2
      DEF GlobalMutexHeldOnce, GlobalCountIsExact, Holders
  <2>5. CASE /\ stage[u] = "initializing" /\ globals' = globals
             /\ stage' = [stage EXCEPT ![u] = "gone"]
    <3>1. Holders' = Holders
      BY <1>0, <2>5 DEF Holders, Initialized
    <3> QED
      BY <1>0, <2>1, <2>2, <2>3, <2>5, <3>1
      DEF GlobalMutexHeldOnce, GlobalCountIsExact, Holders
  <2>6. CASE /\ stage[u] = "finalizing" /\ globals' = seen - 1
             /\ stage' = [stage EXCEPT ![u] = "gone"]
    <3>1. Holders' = Holders \ {u} /\ u \in Holders
      BY <1>0, <2>6 DEF Holders, Initialized
    <3>2. Cardinality(Holders') = Cardinality(Holders) - 1
      BY <3>1, HoldersFinite, FS_RemoveElement
    <3>3. Cardinality(Holders') \in Nat
      BY <3>1, HoldersFinite, FS_RemoveElement, FS_CardinalityType
    <3> QED
      BY <1>0, <2>1, <2>2, <2>3, <2>6, <3>2, <3>3
      DEF GlobalMutexHeldOnce, GlobalCountIsExact, Holders
  <2> QED
    BY <2>1, <2>4, <2>5, <2>6
<1> QED
  BY <1>1, <1>2, <1>3, <1>4, StageFacts DEF GlobalStep

-----------------------------------------------------------------------------
(* References, contexts and shares.                                        *)

LEMMA ReferenceStep ==
  ASSUME TypeOK, RequestsOutliveTheirTasks, [Next]_vars
  PROVE  RequestsOutliveTheirTasks'
<1>0. /\ MadeBy \in [Requests -> Contexts] /\ Contexts \cap Requests = {}
      /\ Users = Contexts \cup Requests /\ Nobody \notin Requests
  BY MadeByAssumption, LifetimeSetsAssumption DEF Users
<1>1. ASSUME NEW u \in Users, GlobalStep(u)
      PROVE  RequestsOutliveTheirTasks'
  BY <1>0, <1>1 DEF GlobalStep, Initialize, InitReturns, Finalize,
     CleanupReturns, Become, references, MainFree, Of,
     RequestsOutliveTheirTasks, TypeOK
<1>2. ASSUME NEW c \in Contexts, MakeShare(c)
      PROVE  RequestsOutliveTheirTasks'
  BY <1>0, <1>2 DEF MakeShare, Become, RequestsOutliveTheirTasks, TypeOK
<1>3. ASSUME NEW r \in Requests, MakeHandle(r)
      PROVE  RequestsOutliveTheirTasks'
  BY <1>0, <1>3 DEF MakeHandle, Become, RequestsOutliveTheirTasks, TypeOK
<1>4. ASSUME NEW c \in Contexts, BeginDestroy(c) \/ EndDestroy(c)
      PROVE  RequestsOutliveTheirTasks'
  BY <1>0, <1>4 DEF BeginDestroy, EndDestroy, MainFree, Of,
     RequestsOutliveTheirTasks, TypeOK
<1>5. ASSUME NEW c \in Contexts, CleanShare(c)
      PROVE  RequestsOutliveTheirTasks'
  BY <1>0, <1>5 DEF CleanShare, Become, references, Of,
     RequestsOutliveTheirTasks, TypeOK
<1>6. ASSUME NEW r \in Requests, DropName(r) \/ Handle(r)
      PROVE  RequestsOutliveTheirTasks'
  BY <1>0, <1>6 DEF DropName, Handle, MainFree, Of,
     RequestsOutliveTheirTasks, TypeOK
<1>7. ASSUME NEW r \in Requests, Submit(r) \/ TaskEnds(r)
      PROVE  RequestsOutliveTheirTasks'
  BY <1>0, <1>7 DEF Submit, TaskEnds, MainFree, Of,
     RequestsOutliveTheirTasks, TypeOK
<1>8. ASSUME NEW r \in Requests, Count(r) \/ Release(r)
      PROVE  RequestsOutliveTheirTasks'
  BY <1>0, <1>8 DEF Count, Release, RequestsOutliveTheirTasks, TypeOK
<1>9. ASSUME NEW r \in Requests, LockShare(r) \/ UnlockShare(r)
      PROVE  RequestsOutliveTheirTasks'
  BY <1>0, <1>9 DEF LockShare, UnlockShare, references,
     RequestsOutliveTheirTasks, TypeOK
<1>10. ASSUME NEW r \in Requests, CleanHandle(r)
      PROVE  RequestsOutliveTheirTasks'
  BY <1>0, <1>10 DEF CleanHandle, Become, Referenced, references,
     RequestsOutliveTheirTasks, TypeOK
<1>11. ASSUME NEW r \in Requests, HandleClosed(r) \/ ReleaseShare(r)
      PROVE  RequestsOutliveTheirTasks'
  BY <1>0, <1>11 DEF HandleClosed, ReleaseShare, Become, references,
     RequestsOutliveTheirTasks, TypeOK
<1>12. CASE UNCHANGED vars
  BY <1>12 DEF vars, references, RequestsOutliveTheirTasks, TypeOK
<1> QED
  BY <1>0, <1>1, <1>2, <1>3, <1>4, <1>5, <1>6, <1>7, <1>8, <1>9, <1>10,
     <1>11, <1>12
  DEF Next, Constructing, Finalizing, Destroying, ContextEnds, GlobalStep

LEMMA ContextStep ==
  ASSUME TypeOK, ContextsHoldShares, [Next]_vars
  PROVE  ContextsHoldShares'
<1>0. /\ MadeBy \in [Requests -> Contexts] /\ Contexts \cap Requests = {}
      /\ Users = Contexts \cup Requests /\ Nobody \notin Requests
  BY MadeByAssumption, LifetimeSetsAssumption DEF Users
<1>1. ASSUME NEW u \in Users, GlobalStep(u)
      PROVE  ContextsHoldShares'
  BY <1>0, <1>1 DEF GlobalStep, Initialize, InitReturns, Finalize,
     CleanupReturns, Become, MayBegin, references, MainFree, Of,
     ContextsHoldShares, TypeOK
<1>2. ASSUME NEW c \in Contexts, MakeShare(c)
      PROVE  ContextsHoldShares'
  BY <1>0, <1>2 DEF MakeShare, Become, ContextsHoldShares, TypeOK
<1>3. ASSUME NEW r \in Requests, MakeHandle(r)
      PROVE  ContextsHoldShares'
  BY <1>0, <1>3 DEF MakeHandle, Become, ContextsHoldShares, TypeOK
<1>4. ASSUME NEW c \in Contexts, BeginDestroy(c) \/ EndDestroy(c)
      PROVE  ContextsHoldShares'
  BY <1>0, <1>4 DEF BeginDestroy, EndDestroy, MainFree, Of,
     ContextsHoldShares, TypeOK
<1>5. ASSUME NEW c \in Contexts, CleanShare(c)
      PROVE  ContextsHoldShares'
  BY <1>0, <1>5 DEF CleanShare, Become, ShareReferenced, references, Of,
     ContextsHoldShares, TypeOK
<1>6. ASSUME NEW r \in Requests, DropName(r) \/ Handle(r)
      PROVE  ContextsHoldShares'
  BY <1>0, <1>6 DEF DropName, Handle, MainFree, Of, ContextsHoldShares, TypeOK
<1>7. ASSUME NEW r \in Requests, Submit(r) \/ TaskEnds(r)
      PROVE  ContextsHoldShares'
  BY <1>0, <1>7 DEF Submit, TaskEnds, MainFree, Of, ContextsHoldShares, TypeOK
<1>8. ASSUME NEW r \in Requests, Count(r) \/ Release(r)
      PROVE  ContextsHoldShares'
  BY <1>0, <1>8 DEF Count, Release, ContextsHoldShares, TypeOK
<1>9. ASSUME NEW r \in Requests, LockShare(r) \/ UnlockShare(r)
      PROVE  ContextsHoldShares'
  BY <1>0, <1>9 DEF LockShare, UnlockShare, references, UsesShare,
     ContextsHoldShares, TypeOK
<1>10. ASSUME NEW r \in Requests, CleanHandle(r)
      PROVE  ContextsHoldShares'
  BY <1>0, <1>10 DEF CleanHandle, Become, references, ContextsHoldShares, TypeOK
<1>11. ASSUME NEW r \in Requests, HandleClosed(r) \/ ReleaseShare(r)
      PROVE  ContextsHoldShares'
  BY <1>0, <1>11 DEF HandleClosed, ReleaseShare, Become, references,
     ContextsHoldShares, TypeOK
<1>12. CASE UNCHANGED vars
  BY <1>12 DEF vars, references, ContextsHoldShares, TypeOK
<1> QED
  BY <1>0, <1>1, <1>2, <1>3, <1>4, <1>5, <1>6, <1>7, <1>8, <1>9, <1>10,
     <1>11, <1>12
  DEF Next, Constructing, Finalizing, Destroying, ContextEnds, GlobalStep

LEMMA ShareStep ==
  ASSUME TypeOK, ContextsHoldShares, ShareOutlivesHandles, [Next]_vars
  PROVE  ShareOutlivesHandles'
<1>0. /\ MadeBy \in [Requests -> Contexts] /\ Contexts \cap Requests = {}
      /\ Users = Contexts \cup Requests /\ Nobody \notin Requests
  BY MadeByAssumption, LifetimeSetsAssumption DEF Users
<1>1. ASSUME NEW u \in Users, GlobalStep(u)
      PROVE  ShareOutlivesHandles'
  BY <1>0, <1>1 DEF GlobalStep, Initialize, InitReturns, Finalize,
     CleanupReturns, Become, MayBegin, references, MainFree, Of,
     ContextsHoldShares, ShareOutlivesHandles, HoldsShare, UsesShare, TypeOK
<1>2. ASSUME NEW c \in Contexts, MakeShare(c)
      PROVE  ShareOutlivesHandles'
  BY <1>0, <1>2 DEF MakeShare, Become, ContextsHoldShares,
     ShareOutlivesHandles, HoldsShare, UsesShare, TypeOK
<1>3. ASSUME NEW r \in Requests, MakeHandle(r)
      PROVE  ShareOutlivesHandles'
  BY <1>0, <1>3 DEF MakeHandle, Become, ContextsHoldShares,
     ShareOutlivesHandles, HoldsShare, UsesShare, TypeOK
<1>4. ASSUME NEW c \in Contexts, BeginDestroy(c) \/ EndDestroy(c)
      PROVE  ShareOutlivesHandles'
  BY <1>0, <1>4 DEF BeginDestroy, EndDestroy, MainFree, Of,
     ContextsHoldShares, ShareOutlivesHandles, HoldsShare, UsesShare, TypeOK
<1>5. ASSUME NEW c \in Contexts, CleanShare(c)
      PROVE  ShareOutlivesHandles'
  BY <1>0, <1>5 DEF CleanShare, Become, ShareReferenced, references, Of,
     ContextsHoldShares, ShareOutlivesHandles, HoldsShare, UsesShare, TypeOK
<1>6. ASSUME NEW r \in Requests, DropName(r) \/ Handle(r)
      PROVE  ShareOutlivesHandles'
  BY <1>0, <1>6 DEF DropName, Handle, MainFree, Of, ContextsHoldShares,
     ShareOutlivesHandles, HoldsShare, UsesShare, TypeOK
<1>7. ASSUME NEW r \in Requests, Submit(r) \/ TaskEnds(r)
      PROVE  ShareOutlivesHandles'
  BY <1>0, <1>7 DEF Submit, TaskEnds, MainFree, Of, ContextsHoldShares,
     ShareOutlivesHandles, HoldsShare, UsesShare, TypeOK
<1>8. ASSUME NEW r \in Requests, Count(r) \/ Release(r)
      PROVE  ShareOutlivesHandles'
  BY <1>0, <1>8 DEF Count, Release, ContextsHoldShares, ShareOutlivesHandles,
     HoldsShare, UsesShare, TypeOK
<1>9. ASSUME NEW r \in Requests, LockShare(r) \/ UnlockShare(r)
      PROVE  ShareOutlivesHandles'
  BY <1>0, <1>9 DEF LockShare, UnlockShare, references, ContextsHoldShares,
     ShareOutlivesHandles, HoldsShare, UsesShare, TypeOK
<1>10. ASSUME NEW r \in Requests, CleanHandle(r)
      PROVE  ShareOutlivesHandles'
  BY <1>0, <1>10 DEF CleanHandle, Become, references, ContextsHoldShares,
     ShareOutlivesHandles, HoldsShare, UsesShare, TypeOK
<1>11. ASSUME NEW r \in Requests, HandleClosed(r) \/ ReleaseShare(r)
      PROVE  ShareOutlivesHandles'
  BY <1>0, <1>11 DEF HandleClosed, ReleaseShare, Become, references,
     ContextsHoldShares, ShareOutlivesHandles, HoldsShare, UsesShare, TypeOK
<1>12. CASE UNCHANGED vars
  BY <1>12 DEF vars, references, ContextsHoldShares, ShareOutlivesHandles,
     HoldsShare, UsesShare, TypeOK
<1> QED
  BY <1>0, <1>1, <1>2, <1>3, <1>4, <1>5, <1>6, <1>7, <1>8, <1>9, <1>10,
     <1>11, <1>12
  DEF Next, Constructing, Finalizing, Destroying, ContextEnds, GlobalStep

LEMMA OtherTypes ==
  ASSUME TypeOK, TasksAreBounded, [Next]_vars
  PROVE  /\ context' \in [Contexts -> {"unborn", "alive", "waiting", "gone"}]
         /\ named' \in [Requests -> BOOLEAN]
         /\ listed' \in [Requests -> BOOLEAN]
         /\ working' \in [Requests -> BOOLEAN]
         /\ pending' \in [Requests -> 0..TasksBound]
         /\ counted' \in [Requests -> 0..TasksBound]
         /\ locking' \in [Contexts -> Requests \cup {Nobody}]
         /\ TasksAreBounded'
<1> DEFINE Goal ==
             /\ context \in [Contexts -> {"unborn", "alive", "waiting", "gone"}]
             /\ named \in [Requests -> BOOLEAN]
             /\ listed \in [Requests -> BOOLEAN]
             /\ working \in [Requests -> BOOLEAN]
             /\ pending \in [Requests -> 0..TasksBound]
             /\ counted \in [Requests -> 0..TasksBound]
             /\ locking \in [Contexts -> Requests \cup {Nobody}]
             /\ TasksAreBounded
<1>1. Goal /\ Users = Contexts \cup Requests
  BY DEF TypeOK, Users
<1>2. MadeBy \in [Requests -> Contexts]
  BY MadeByAssumption
<1>3. CASE UNCHANGED <<references, locking>>
  BY <1>1, <1>3 DEF references, TasksAreBounded
<1>4. ASSUME NEW c \in Contexts, MakeShare(c) \/ BeginDestroy(c) \/ EndDestroy(c)
      PROVE  Goal'
  BY <1>1, <1>4 DEF MakeShare, BeginDestroy, EndDestroy, TasksAreBounded
<1>5. ASSUME NEW r \in Requests,
             MakeHandle(r) \/ DropName(r) \/ TaskEnds(r) \/ Handle(r)
      PROVE  Goal'
  BY <1>1, <1>5 DEF MakeHandle, DropName, TaskEnds, Handle, TasksAreBounded
<1>6. ASSUME NEW r \in Requests, LockShare(r) \/ UnlockShare(r)
      PROVE  Goal'
  BY <1>1, <1>2, <1>6 DEF LockShare, UnlockShare, references, TasksAreBounded
<1>7. ASSUME NEW r \in Requests, Submit(r) \/ Count(r) \/ Release(r)
      PROVE  Goal'
  <2>1. /\ TasksBound \in Nat /\ pending[r] \in Nat /\ counted[r] \in Nat
        /\ pending[r] + counted[r] <= TasksBound
    BY <1>1, TasksBoundAssumption DEF TasksAreBounded
  <2>2. CASE Submit(r)
    BY <1>1, <2>1, <2>2 DEF Submit, TasksAreBounded
  <2>3. CASE Count(r)
    <3>1. pending[r] > 0
      BY <2>1, <2>3 DEF Count
    <3> QED
      BY <1>1, <2>1, <2>3, <3>1 DEF Count, TasksAreBounded
  <2>4. CASE Release(r)
    BY <1>1, <2>1, <2>4 DEF Release, TasksAreBounded
  <2> QED
    BY <1>7, <2>2, <2>3, <2>4
<1>8. CASE UNCHANGED vars
  BY <1>1, <1>8 DEF vars, references, TasksAreBounded
<1>9. ASSUME NEW u, Initialize(u) \/ InitReturns(u) \/ Finalizing(u)
                    \/ CleanShare(u) \/ CleanHandle(u) \/ HandleClosed(u)
                    \/ ReleaseShare(u)
      PROVE  UNCHANGED <<references, locking>>
  BY <1>9 DEF Initialize, InitReturns, Finalizing, Finalize, CleanupReturns,
     CleanShare, CleanHandle, HandleClosed, ReleaseShare
<1> QED
  BY <1>3, <1>4, <1>5, <1>6, <1>7, <1>8, <1>9
  DEF Next, Constructing, Destroying, ContextEnds

-----------------------------------------------------------------------------

LEMMA InvInit == Init => IInv
<1> SUFFICES ASSUME Init
             PROVE  IInv
  OBVIOUS
<1>1. Users = Contexts \cup Requests /\ Nobody \notin Requests
  BY LifetimeSetsAssumption DEF Users
<1>2. TypeOK
  BY TasksBoundAssumption DEF Init, TypeOK, Stages
<1>3. GlobalMutexHeldOnce
  BY DEF Init, GlobalMutexHeldOnce, InGlobalLock
<1>4. GlobalCountIsExact
  <2>1. Holders = {}
    BY DEF Init, Holders, Initialized
  <2> QED
    BY <2>1, FS_EmptySet DEF Init, GlobalCountIsExact, Holders
<1>5. TasksAreBounded /\ RequestsOutliveTheirTasks
  BY TasksBoundAssumption DEF Init, TasksAreBounded, RequestsOutliveTheirTasks
<1>6. ContextsHoldShares /\ ShareOutlivesHandles
  BY <1>1, MadeByAssumption
  DEF Init, ContextsHoldShares, ShareOutlivesHandles, HoldsShare
<1> QED
  BY <1>2, <1>3, <1>4, <1>5, <1>6 DEF IInv

LEMMA InvStep == IInv /\ [Next]_vars => IInv'
<1> SUFFICES ASSUME IInv, [Next]_vars
             PROVE  IInv'
  OBVIOUS
<1>1. TypeOK'
  BY GlobalTypes, OtherTypes DEF IInv, TypeOK
<1> QED
  BY <1>1, GlobalTypes, OtherTypes, ReferenceStep, ContextStep, ShareStep DEF IInv

(* All of it is an invariant, for any finite number of contexts and        *)
(* requests, whichever context made which.                                 *)
THEOREM LifetimeInvariant == Spec => []IInv
<1>1. IInv /\ UNCHANGED vars => IInv'
  BY InvStep
<1> QED
  BY InvInit, InvStep, PTL DEF Spec

(* The objects' states, references and counts keep their types.            *)
THEOREM TypesAreKept == Spec => []TypeOK
BY LifetimeInvariant, PTL DEF IInv

(* libcurl's count is the number of curl_globals, whoever comes and goes   *)
(* and on whichever thread (g_GlobalMutex).                                *)
THEOREM LibcurlCountIsExact == Spec => []GlobalCountIsExact
BY LifetimeInvariant, PTL DEF IInv

(* libcurl is set up as long as a share or a handle may call it.           *)
THEOREM LibcurlIsThere == Spec => []LibcurlOutlivesItsUsers
<1>1. IInv => LibcurlOutlivesItsUsers
  <2> SUFFICES ASSUME IInv, NEW u \in Users, stage[u] \in CallsLibcurl
               PROVE  globals > 0
    BY DEF LibcurlOutlivesItsUsers
  <2>1. u \in Holders /\ globals = Cardinality(Holders)
    BY DEF Holders, CallsLibcurl, Initialized, IInv, GlobalCountIsExact
  <2>2. Cardinality(Holders) # 0 /\ Cardinality(Holders) \in Nat
    BY <2>1, HoldersFinite, FS_EmptySet
  <2> QED
    BY <2>1, <2>2
<1> QED
  BY <1>1, LifetimeInvariant, PTL

(* No share is cleaned up under a handle attached to it, nor with a mutex  *)
(* locked, although the request may outlive the context (m_pShare).        *)
THEOREM SharesAreThere == Spec => []ShareOutlivesHandles
BY LifetimeInvariant, PTL DEF IInv

(* No request is destroyed in anybody's hands, and the context waits for   *)
(* every transfer (task_state, ~curl_context).                             *)
THEOREM RequestsAreThere == Spec => []RequestsOutliveTheirTasks
BY LifetimeInvariant, PTL DEF IInv

=============================================================================
