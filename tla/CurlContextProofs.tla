------------------------- MODULE CurlContextProofs -------------------------
(***************************************************************************)
(* curl_context is safe, whatever the program and the pool do; what holds  *)
(* only of a submitter that does not both call back and throw says so; and *)
(* with such a submitter it implements HttpContext.                        *)
(***************************************************************************)
EXTENDS CurlContext, RemovalLemmas, FiniteSetTheorems, SequenceTheorems, TLAPS

LEMMA AllButLastFacts ==
  ASSUME NEW S, NEW s \in Seq(S), s # <<>>
  PROVE  /\ AllButLast(s) \in Seq(S)
         /\ Len(AllButLast(s)) = Len(s) - 1
         /\ DOMAIN AllButLast(s) = 1 .. Len(s) - 1
         /\ \A i \in 1 .. Len(s) - 1 : AllButLast(s)[i] = s[i]
<1> DEFINE n == Len(s) - 1
<1>1. n \in Nat
  BY EmptySeq
<1>2. \A i \in 1 .. n : s[i] \in S
  BY <1>1, ElementOfSeq
<1> HIDE DEF n
<1>3. /\ SubSeq(s, 1, n) \in Seq(S)
      /\ Len(SubSeq(s, 1, n)) = IF 1 <= n THEN n - 1 + 1 ELSE 0
      /\ \A i \in 1 .. n - 1 + 1 : SubSeq(s, 1, n)[i] = s[1 + i - 1]
  BY <1>1, <1>2, SubSeqProperties
<1>4. Len(SubSeq(s, 1, n)) = n
  BY <1>1, <1>3
<1>5. DOMAIN SubSeq(s, 1, n) = 1 .. n
  BY <1>3, <1>4, LenProperties
<1>6. \A i \in 1 .. n : SubSeq(s, 1, n)[i] = s[i]
  BY <1>1, <1>3
<1> QED
  BY <1>3, <1>4, <1>5, <1>6 DEF AllButLast, n

LEMMA DropAtFacts ==
  ASSUME NEW S, NEW s \in Seq(S), NEW i \in DOMAIN s
  PROVE  /\ DropAt(s, i) \in Seq(S)
         /\ Len(DropAt(s, i)) = Len(s) - 1
         /\ DOMAIN DropAt(s, i) = 1 .. Len(s) - 1
         /\ \A j \in 1 .. Len(s) - 1 :
               DropAt(s, i)[j] = IF j < i THEN s[j] ELSE s[j + 1]
BY RemoveAtFacts DEF DropAt, RemoveAt

-----------------------------------------------------------------------------
(* The moves of a task by the steps of the pool and its workers.           *)
Moves(from, to) ==
    \/ from = "offered" /\ to = "queued"
    \/ from = "queued" /\ to \in {"offered", "finishing", "transferring", "dying"}
    \/ from = "transferring" /\ to \in {"completing", "finishing"}
    \/ from = "completing" /\ to = "finishing"
    \/ from = "finishing" /\ to = "ran"
    \/ from = "ran" /\ to \in {"spent", "dying"}
    \/ from = "dying" /\ to = "notifying"
    \/ from = "notifying" /\ to = "free"

LEMMA MoveFacts ==
  ASSUME TypeOK, NEW t \in Tasks, NEW p, phase' = [phase EXCEPT ![t] = p]
  PROVE  phase'[t] = p /\ \A u \in Tasks \ {t} : phase'[u] = phase[u]
BY DEF TypeOK

Moved(t, p) == phase' = [phase EXCEPT ![t] = p] /\ Moves(phase[t], p)

LEMMA TaskMoves ==
  ASSUME TypeOK, NEW t \in Tasks, TaskNext(t)
  PROVE  /\ Moves(phase[t], phase'[t])
         /\ \A u \in Tasks \ {t} : phase'[u] = phase[u]
<1>1. \E p \in Phases : Moved(t, p)
  <2> USE DEF Phases, Moved, Moves, Move
  <2>1. Keep(t) => \E p \in Phases : Moved(t, p)
    BY DEF Keep
  <2>2. TaskRun(t) => \E p \in Phases : Moved(t, p)
    BY DEF TaskRun
  <2>3. TransferThrew(t) \/ TransferStopped(t) => \E p \in Phases : Moved(t, p)
    BY DEF TransferThrew, TransferStopped
  <2>4. TransferEnded(t) => \E p \in Phases : Moved(t, p)
    BY DEF TransferEnded
  <2>5. CompleteReturns(t) \/ CompleteThrows(t) => \E p \in Phases : Moved(t, p)
    BY DEF CompleteReturns, CompleteThrows
  <2>6. TaskFinish(t) => \E p \in Phases : Moved(t, p)
    BY DEF TaskFinish
  <2>7. PoolDropHeld(t) => \E p \in Phases : Moved(t, p)
    BY DEF PoolDropHeld
  <2>8. PoolDropLast(t) => \E p \in Phases : Moved(t, p)
    BY DEF PoolDropLast, Die
  <2>9. Decrement(t) => \E p \in Phases : Moved(t, p)
    BY DEF Decrement
  <2>10. Notify(t) => \E p \in Phases : Moved(t, p)
    BY DEF Notify
  <2> QED
    BY <2>1, <2>2, <2>3, <2>4, <2>5, <2>6, <2>7, <2>8, <2>9, <2>10 DEF TaskNext
<1>2. PICK p \in Phases : Moved(t, p)
  BY <1>1
<1> QED
  BY <1>2, MoveFacts DEF Moved

-----------------------------------------------------------------------------
(* Types and the count.                                                    *)

Counted == {t \in Tasks : phase[t] \notin Uncounted}

LEMMA CountedFacts ==
  ASSUME CountIsExact
  PROVE  /\ IsFiniteSet(Counted) /\ count = Cardinality(Counted)
         /\ count \in Nat
         /\ \A t \in Counted : count - 1 \in Nat
<1>1. IsFiniteSet(Counted)
  BY TasksAssumption, FS_Subset DEF Counted
<1>2. count = Cardinality(Counted) /\ count \in Nat
  BY <1>1, FS_CardinalityType DEF CountIsExact, Counted
<1>3. ASSUME NEW t \in Counted
      PROVE  count - 1 \in Nat
  <2>1. /\ IsFiniteSet(Counted \ {t})
        /\ Cardinality(Counted \ {t}) = Cardinality(Counted) - 1
    BY <1>1, FS_RemoveElement
  <2>2. Cardinality(Counted \ {t}) \in Nat
    BY <2>1, FS_CardinalityType
  <2> QED
    BY <1>2, <2>1, <2>2
<1> QED
  BY <1>1, <1>2, <1>3

LEMMA DieTypes ==
  ASSUME TypeOK, NEW t, Die(t)
  PROVE  /\ phase' \in [Tasks -> Phases]
         /\ exception' \in [Requests -> BOOLEAN]
         /\ error' \in [Requests -> Errors]
         /\ locked' \in [Requests -> BOOLEAN]
         /\ outcome' \in [Requests -> Outcomes]
<1>1. phase' \in [Tasks -> Phases]
  BY DEF TypeOK, Die, Phases
<1>2. CASE phase[t] \in Unstarted
  BY <1>1, <1>2 DEF TypeOK, Die, Abandon, Errors, Outcomes
<1>3. CASE phase[t] \notin Unstarted
  BY <1>1, <1>3 DEF TypeOK, Die
<1> QED
  BY <1>2, <1>3

(* The count has to be exact for its decrement to stay a natural number.   *)
LEMMA TypeStep == TypeOK /\ CountIsExact /\ [Next]_vars => TypeOK'
<1> SUFFICES ASSUME TypeOK, CountIsExact, [Next]_vars
             PROVE  TypeOK'
  OBVIOUS
<1> USE DEF TypeOK
<1>1. ASSUME NEW r \in Requests, NEW t \in Tasks, TrySubmit(r, t)
      PROVE  TypeOK'
  <2>1. unhandled' \in Seq(Requests) /\ frames' \in Seq(Tasks)
    BY <1>1 DEF TrySubmit
  <2>2. reentered' \in SUBSET Tasks
    BY <1>1, ElementOfSeq DEF TrySubmit, InFrames
  <2>3. count' \in Nat /\ phase' \in [Tasks -> Phases]
    BY <1>1 DEF TrySubmit, Phases
  <2>4. /\ taskReq' \in [Tasks -> Requests \cup {NoRequest}]
        /\ outcome' \in [Requests -> Outcomes]
        /\ told' \in [Requests -> Reports \cup {"nothing"}]
    BY <1>1 DEF TrySubmit, Outcomes, Reports
  <2>5. /\ cancelled' \in [Requests -> BOOLEAN]
        /\ locked' \in [Requests -> BOOLEAN]
        /\ inFlight' \in [Requests -> BOOLEAN]
        /\ doomed' \in [Requests -> BOOLEAN]
        /\ promised' \in [Requests -> Bodies]
    BY <1>1 DEF TrySubmit
  <2> QED
    BY <1>1, <2>1, <2>2, <2>3, <2>4, <2>5 DEF TrySubmit
<1>2. ASSUME NEW r \in Requests, SubmitHookThrows(r)
      PROVE  TypeOK'
  BY <1>2 DEF SubmitHookThrows, requestVars, historyVars, mainVars, taskVars
<1>3. ASSUME NEW r \in Requests, NEW b \in Bodies, TryUpdatePostdata(r, b)
      PROVE  TypeOK'
  BY <1>3 DEF TryUpdatePostdata, requestVars, historyVars, mainVars, taskVars
<1>4. ASSUME NEW r \in Requests, Cancel(r)
      PROVE  TypeOK'
  BY <1>4 DEF Cancel, Doom, requestVars, historyVars, mainVars, taskVars
<1>5. ASSUME SubmitReturn
      PROVE  TypeOK'
  BY <1>5, AllButLastFacts DEF SubmitReturn, requestVars, historyVars, mainVars,
     taskVars
<1>6. ASSUME SubmitReturnLast
      PROVE  TypeOK'
  BY <1>6, DieTypes DEF SubmitReturnLast, mainVars
<1>7. ASSUME SubmitThrow
      PROVE  TypeOK'
  <2>1. unhandled' \in Seq(Requests)
    BY <1>7, AllButLastFacts DEF SubmitThrow
  <2>2. /\ inFlight' \in [Requests -> BOOLEAN]
        /\ doomed' \in [Requests -> BOOLEAN]
    BY <1>7 DEF SubmitThrow
  <2> QED
    BY <1>7, <2>1, <2>2, DieTypes DEF SubmitThrow
<1>8. ASSUME CancelAll
      PROVE  TypeOK'
  BY <1>8 DEF CancelAll, CancelListed, Doom, requestVars, historyVars, mainVars,
     taskVars
<1>9. ASSUME StartPoll
      PROVE  TypeOK'
  BY <1>9 DEF StartPoll, requestVars, historyVars, mainVars, taskVars
<1>10. ASSUME ScanEnd
       PROVE  TypeOK'
  BY <1>10 DEF ScanEnd, requestVars, historyVars, mainVars, taskVars
<1>11. ASSUME ScanPast
       PROVE  TypeOK'
  BY <1>11 DEF ScanPast, requestVars, historyVars, mainVars, taskVars
<1>12. ASSUME Handle
       PROVE  TypeOK'
  BY <1>12, DropAtFacts DEF Handle, HandlerFor, Reports, InFrames, requestVars,
     historyVars, mainVars, taskVars
<1>13. ASSUME BeginDestroy
       PROVE  TypeOK'
  BY <1>13 DEF BeginDestroy, CancelListed, Doom, requestVars, historyVars,
     mainVars, taskVars
<1>14. ASSUME DestroyLoad
       PROVE  TypeOK'
  BY <1>14 DEF DestroyLoad, requestVars, historyVars, mainVars, taskVars
<1>15. ASSUME DestroyCompare
       PROVE  TypeOK'
  BY <1>15 DEF DestroyCompare, requestVars, historyVars, mainVars, taskVars
<1>16. ASSUME EndDestroy
       PROVE  TypeOK'
  BY <1>16 DEF EndDestroy, requestVars, historyVars, mainVars, taskVars
<1>17. ASSUME NEW t \in Tasks, Keep(t)
       PROVE  TypeOK'
  BY <1>17 DEF Keep, Phases, requestVars, historyVars, mainVars, taskVars
<1>18. ASSUME NEW t \in Tasks, TaskRun(t)
       PROVE  TypeOK'
  BY <1>18 DEF TaskRun, Move, Phases, Errors, Outcomes, requestVars,
     historyVars, mainVars, taskVars
<1>19. ASSUME NEW t \in Tasks, TransferThrew(t)
       PROVE  TypeOK'
  BY <1>19 DEF TransferThrew, Move, Phases, Errors, Outcomes, requestVars,
     historyVars, mainVars, taskVars
<1>20. ASSUME NEW t \in Tasks, TransferStopped(t)
       PROVE  TypeOK'
  BY <1>20 DEF TransferStopped, Move, Phases, Errors, Outcomes, requestVars,
     historyVars, mainVars, taskVars
<1>21. ASSUME NEW t \in Tasks, TransferEnded(t)
       PROVE  TypeOK'
  BY <1>21 DEF TransferEnded, Move, Phases, Errors, Outcomes, requestVars,
     historyVars, mainVars, taskVars
<1>22. ASSUME NEW t \in Tasks, CompleteReturns(t)
       PROVE  TypeOK'
  BY <1>22 DEF CompleteReturns, Move, Phases, Outcomes, requestVars,
     historyVars, mainVars, taskVars
<1>23. ASSUME NEW t \in Tasks, CompleteThrows(t)
       PROVE  TypeOK'
  BY <1>23 DEF CompleteThrows, Move, Phases, Errors, Outcomes, requestVars,
     historyVars, mainVars, taskVars
<1>24. ASSUME NEW t \in Tasks, TaskFinish(t)
       PROVE  TypeOK'
  BY <1>24 DEF TaskFinish, Move, Phases, requestVars, historyVars, mainVars, taskVars
<1>25. ASSUME NEW t \in Tasks, PoolDropHeld(t)
       PROVE  TypeOK'
  BY <1>25 DEF PoolDropHeld, Move, Phases, requestVars, historyVars, mainVars,
     taskVars
<1>26. ASSUME NEW t \in Tasks, PoolDropLast(t)
       PROVE  TypeOK'
  BY <1>26, DieTypes DEF PoolDropLast, mainVars
<1>27. ASSUME NEW t \in Tasks, Decrement(t)
       PROVE  TypeOK'
  BY <1>27, CountedFacts DEF Decrement, Move, Phases, Counted, Uncounted,
     requestVars, historyVars, mainVars, taskVars
<1>28. ASSUME NEW t \in Tasks, Notify(t)
       PROVE  TypeOK'
  BY <1>28, AllButLastFacts DEF Notify, Move, Wake, Phases, InFrames,
     requestVars, historyVars, mainVars, taskVars
<1>29. ASSUME UNCHANGED vars
      PROVE  TypeOK'
  BY <1>29 DEF vars, requestVars, historyVars, mainVars, taskVars
<1>30. ASSUME NEW t \in Tasks, TaskNext(t)
       PROVE  TypeOK'
  <2> HIDE DEF TypeOK
  <2> QED
    BY <1>17, <1>18, <1>19, <1>20, <1>21, <1>22, <1>23, <1>24, <1>25, <1>26,
       <1>27, <1>28, <1>30 DEF TaskNext
<1>31. ASSUME MainNext
       PROVE  TypeOK'
  <2> HIDE DEF TypeOK
  <2> QED
    BY <1>1, <1>2, <1>3, <1>5, <1>6, <1>7, <1>8, <1>9, <1>10, <1>11, <1>12,
       <1>13, <1>14, <1>15, <1>16, <1>31 DEF MainNext
<1> HIDE DEF TypeOK
<1> QED
  BY <1>4, <1>29, <1>30, <1>31 DEF Next

(* The three ways a step can change the set the count counts.              *)
LEMMA CountKept ==
  ASSUME CountIsExact, count' = count,
         \A t \in Tasks : phase'[t] \in Uncounted <=> phase[t] \in Uncounted
  PROVE  CountIsExact'
<1>1. {t \in Tasks : phase'[t] \notin Uncounted} = Counted
  BY DEF Counted
<1> QED
  BY <1>1 DEF CountIsExact, Counted

LEMMA CountUp ==
  ASSUME CountIsExact, count' = count + 1, NEW t \in Tasks,
         phase[t] \in Uncounted, phase'[t] \notin Uncounted,
         \A u \in Tasks \ {t} : phase'[u] = phase[u]
  PROVE  CountIsExact'
<1>1. {u \in Tasks : phase'[u] \notin Uncounted} = Counted \cup {t}
  BY DEF Counted
<1>2. Cardinality(Counted \cup {t}) = Cardinality(Counted) + 1
  BY CountedFacts, FS_AddElement DEF Counted
<1> QED
  BY <1>1, <1>2, CountedFacts DEF CountIsExact

LEMMA CountDown ==
  ASSUME CountIsExact, count' = count - 1, NEW t \in Tasks,
         phase[t] \notin Uncounted, phase'[t] \in Uncounted,
         \A u \in Tasks \ {t} : phase'[u] = phase[u]
  PROVE  CountIsExact'
<1>1. {u \in Tasks : phase'[u] \notin Uncounted} = Counted \ {t}
  BY DEF Counted
<1>2. Cardinality(Counted \ {t}) = Cardinality(Counted) - 1
  BY CountedFacts, FS_RemoveElement DEF Counted
<1> QED
  BY <1>1, <1>2, CountedFacts DEF CountIsExact

LEMMA CountStep == TypeOK /\ CountIsExact /\ [Next]_vars => CountIsExact'
<1> SUFFICES ASSUME TypeOK, CountIsExact, [Next]_vars
             PROVE  CountIsExact'
  OBVIOUS
<1> USE DEF TypeOK, Uncounted
<1>1. ASSUME NEW r \in Requests, NEW t \in Tasks, TrySubmit(r, t)
      PROVE  CountIsExact'
  <2>1. /\ count' = count + 1
        /\ phase[t] \in Uncounted /\ phase'[t] \notin Uncounted
        /\ \A u \in Tasks \ {t} : phase'[u] = phase[u]
    BY <1>1 DEF TrySubmit
  <2> QED
    BY <2>1, CountUp
<1>2. ASSUME NEW t \in Tasks, Decrement(t)
      PROVE  CountIsExact'
  <2>1. /\ count' = count - 1
        /\ phase[t] \notin Uncounted /\ phase'[t] \in Uncounted
        /\ \A u \in Tasks \ {t} : phase'[u] = phase[u]
    BY <1>2 DEF Decrement, Move
  <2> QED
    BY <2>1, CountDown
<1>3. ASSUME NEW t \in Tasks, TaskNext(t), ~Decrement(t)
      PROVE  CountIsExact'
  <2>1. /\ count' = count
        /\ \A u \in Tasks : phase'[u] \in Uncounted <=> phase[u] \in Uncounted
    <3>1. count' = count
      BY <1>3 DEF TaskNext, Keep, TaskRun, TransferThrew, TransferStopped,
         TransferEnded, CompleteReturns, CompleteThrows, TaskFinish,
         PoolDropHeld, PoolDropLast, Notify, taskVars
    <3>2. /\ Moves(phase[t], phase'[t])
          /\ \A u \in Tasks \ {t} : phase'[u] = phase[u]
      BY <1>3, TaskMoves
    <3>3. phase[t] # "dying"
      <4>1. phase[t] = "dying" => phase'[t] = "notifying"
        BY <3>2 DEF Moves
      <4> QED
        BY <1>3, <4>1 DEF TaskNext, Keep, TaskRun, TransferThrew, TransferStopped,
           TransferEnded, CompleteReturns, CompleteThrows, TaskFinish,
           PoolDropHeld, PoolDropLast, Notify, Move
    <3> QED
      BY <3>1, <3>2, <3>3 DEF Moves
  <2> QED
    BY <2>1, CountKept
<1>4. ASSUME SubmitReturnLast \/ SubmitThrow
      PROVE  CountIsExact'
  <2>1. Top \in Tasks
    BY <1>4, EmptySeq, ElementOfSeq DEF SubmitReturnLast, SubmitThrow, Top
  <2>2. /\ count' = count
        /\ \A u \in Tasks : phase'[u] \in Uncounted <=> phase[u] \in Uncounted
    BY <1>4, <2>1 DEF SubmitReturnLast, SubmitThrow, Die
  <2> QED
    BY <2>2, CountKept
<1>5. ASSUME NEW r \in Requests,
             \/ SubmitHookThrows(r) \/ Cancel(r)
             \/ \E b \in Bodies : TryUpdatePostdata(r, b)
      PROVE  CountIsExact'
  <2>1. count' = count /\ phase' = phase
    BY <1>5 DEF SubmitHookThrows, Cancel, TryUpdatePostdata, taskVars
  <2> QED
    BY <2>1, CountKept
<1>6. ASSUME \/ SubmitReturn \/ CancelAll
             \/ StartPoll \/ ScanEnd \/ ScanPast \/ Handle
             \/ BeginDestroy \/ DestroyLoad \/ DestroyCompare \/ EndDestroy
             \/ UNCHANGED vars
      PROVE  CountIsExact'
  <2>1. count' = count /\ phase' = phase
    BY <1>6 DEF SubmitReturn, CancelAll, StartPoll, ScanEnd, ScanPast, Handle,
       BeginDestroy, DestroyLoad, DestroyCompare, EndDestroy, vars, taskVars
  <2> QED
    BY <2>1, CountKept
<1> QED
  BY <1>1, <1>2, <1>3, <1>4, <1>5, <1>6 DEF Next, MainNext

LEMMA TypeInit == Init => TypeOK /\ CountIsExact
<1> SUFFICES ASSUME Init
             PROVE  TypeOK /\ CountIsExact
  OBVIOUS
<1>1. TypeOK
  BY EmptySeq DEF Init, TypeOK, Phases, Errors, Outcomes
<1>2. {t \in Tasks : phase[t] \notin Uncounted} = {}
  BY DEF Init, Uncounted
<1> QED
  BY <1>1, <1>2, FS_EmptySet DEF CountIsExact, Init

(* Whatever the submitter does, the variables keep their types and the     *)
(* count the destructor waits on is the number of task_states that have    *)
(* not reached their fetch_sub: it is never decremented below zero.        *)
THEOREM TypesAndCount == Spec => [](TypeOK /\ CountIsExact)
<1>1. TypeOK /\ CountIsExact /\ [Next]_vars => (TypeOK /\ CountIsExact)'
  BY TypeStep, CountStep
<1> QED
  BY TypeInit, <1>1, PTL DEF Spec

-----------------------------------------------------------------------------
(* The stack of submitter calls, and the life of the context.              *)

LEMMA TopFacts ==
  ASSUME TypeOK, frames # <<>>
  PROVE  /\ Len(frames) \in Nat \ {0}
         /\ DOMAIN frames = 1 .. Len(frames)
         /\ Len(frames) \in DOMAIN frames
         /\ Top \in Tasks
         /\ Top \in InFrames
<1>1. Len(frames) \in Nat \ {0} /\ DOMAIN frames = 1 .. Len(frames)
  BY EmptySeq, LenProperties DEF TypeOK
<1>2. Top \in Tasks
  BY <1>1, ElementOfSeq DEF TypeOK, Top
<1> QED
  BY <1>1, <1>2 DEF Top, InFrames

(* What the end of a submitter's call leaves of the stack.                 *)
LEMMA PopFacts ==
  ASSUME TypeOK, StackInv, frames # <<>>, frames' = AllButLast(frames)
  PROVE  /\ DOMAIN frames' = 1 .. Len(frames) - 1
         /\ Len(frames') = Len(frames) - 1
         /\ \A i \in DOMAIN frames' :
               /\ i \in DOMAIN frames /\ i # Len(frames)
               /\ frames'[i] = frames[i] /\ frames[i] # Top
         /\ InFrames' = InFrames \ {Top}
<1>1. /\ Len(frames) \in Nat \ {0} /\ DOMAIN frames = 1 .. Len(frames)
      /\ Len(frames') = Len(frames) - 1
      /\ DOMAIN frames' = 1 .. Len(frames) - 1
      /\ \A i \in 1 .. Len(frames) - 1 : frames'[i] = frames[i]
  BY TopFacts, AllButLastFacts DEF TypeOK
<1>2. \A i \in DOMAIN frames' :
         /\ i \in DOMAIN frames /\ i # Len(frames)
         /\ frames'[i] = frames[i] /\ frames[i] # Top
  <2> SUFFICES ASSUME NEW i \in 1 .. Len(frames) - 1
               PROVE  i \in DOMAIN frames /\ i # Len(frames) /\ frames[i] # Top
    BY <1>1
  <2>0. \A n \in Nat \ {0} : \A k \in 1 .. n - 1 : k \in 1 .. n /\ k # n /\ n \in 1 .. n
    OBVIOUS
  <2>1. i \in DOMAIN frames /\ i # Len(frames) /\ Len(frames) \in DOMAIN frames
    BY <1>1, <2>0, Zenon
  <2>2. frames[i] = frames[Len(frames)] => i = Len(frames)
    BY <2>1 DEF StackInv
  <2> QED
    BY <2>1, <2>2 DEF Top
<1>3. InFrames \ {Top} \subseteq InFrames'
  <2> SUFFICES ASSUME NEW i \in DOMAIN frames, frames[i] # Top
               PROVE  frames[i] \in InFrames'
    BY DEF InFrames
  <2>1. i \in DOMAIN frames' /\ frames'[i] = frames[i]
    BY <1>1 DEF Top
  <2> QED
    BY <2>1 DEF InFrames
<1>4. InFrames' \subseteq InFrames \ {Top}
  BY <1>2 DEF InFrames
<1>5. InFrames' = InFrames \ {Top}
  BY <1>3, <1>4
<1> QED
  BY <1>1, <1>2, <1>5

(* A step that only moves one task, that is not on the stack or stays      *)
(* alive, keeps the stack.                                                 *)
LEMMA StackStep == TypeOK /\ StackInv /\ [Next]_vars => StackInv'
<1> SUFFICES ASSUME TypeOK, StackInv, [Next]_vars
             PROVE  StackInv'
  OBVIOUS
<1> USE DEF StackInv
<1>1. ASSUME NEW r \in Requests, NEW t \in Tasks, TrySubmit(r, t)
      PROVE  StackInv'
  <2>1. /\ frames' = Append(frames, t)
        /\ phase' = [phase EXCEPT ![t] = "offered"]
        /\ taskReq' = [taskReq EXCEPT ![t] = r]
        /\ phase[t] = "free"
    BY <1>1 DEF TrySubmit
  <2>2. /\ DOMAIN frames = 1 .. Len(frames) /\ Len(frames) \in Nat
        /\ DOMAIN frames' = 1 .. Len(frames) + 1 /\ Len(frames') = Len(frames) + 1
        /\ \A i \in DOMAIN frames : frames'[i] = frames[i] /\ frames[i] # t
        /\ frames'[Len(frames) + 1] = t
    BY <2>1 DEF TypeOK
  <2>3. \A i \in DOMAIN frames : phase[frames[i]] \notin {"dying", "notifying"}
    BY <1>1, <2>2 DEF TrySubmit, MainFree, Top
  <2>4. \A i \in DOMAIN frames : frames[i] \in Tasks
    BY ElementOfSeq, <2>2 DEF TypeOK
  <2>5. \A i, j \in DOMAIN frames' : frames'[i] = frames'[j] => i = j
    BY <2>2
  <2>6. InFrames' = InFrames \cup {t}
    <3>1. Len(frames) + 1 \in DOMAIN frames'
      BY <2>2
    <3>2. InFrames \cup {t} \subseteq InFrames'
      BY <2>2, <3>1 DEF InFrames
    <3> QED
      BY <2>2, <3>2 DEF InFrames
  <2>7. ASSUME NEW u \in Tasks
        PROVE  /\ phase'[u] \in {"offered", "spent"} => u \in InFrames'
               /\ phase'[u] # "free" => taskReq'[u] \in Requests
    BY <2>1, <2>6 DEF TypeOK
  <2>8. ASSUME NEW i \in DOMAIN frames'
        PROVE  phase'[frames'[i]] \notin {"free", "dying", "notifying"}
    BY <2>1, <2>2, <2>3, <2>4 DEF TypeOK
  <2> QED
    BY <2>5, <2>7, <2>8
<1>2. ASSUME SubmitReturn
      PROVE  StackInv'
  <2>1. /\ frames' = AllButLast(frames) /\ frames # <<>>
        /\ phase' = phase /\ taskReq' = taskReq
        /\ phase[Top] \notin {"offered", "spent", "dying", "notifying"}
    BY <1>2 DEF SubmitReturn, taskVars
  <2>2. \A t \in Tasks : phase[t] \in {"offered", "spent"} => t # Top
    BY <2>1
  <2> QED
    BY <2>1, <2>2, PopFacts
<1>3. ASSUME SubmitReturnLast \/ SubmitThrow
      PROVE  StackInv'
  <2>1. /\ frames' = frames /\ frames # <<>> /\ taskReq' = taskReq
        /\ phase' = [phase EXCEPT ![Top] = "dying"]
        /\ phase[Top] \in {"offered", "spent"}
    BY <1>3 DEF SubmitReturnLast, SubmitThrow, Die, mainVars
  <2> QED
    BY <2>1, TopFacts DEF TypeOK, InFrames, Top
<1>4. ASSUME NEW t \in Tasks, TaskNext(t), ~Notify(t)
      PROVE  StackInv'
  <2>0. /\ Moves(phase[t], phase'[t])
        /\ \A u \in Tasks \ {t} : phase'[u] = phase[u]
    BY <1>4, TaskMoves
  <2>3. /\ frames' = frames /\ taskReq' = taskReq
        /\ phase'[t] # "free"
    <3>1. \A p \in Phases : phase' = [phase EXCEPT ![t] = p] => phase'[t] = p
      BY MoveFacts
    <3> QED
      BY <1>4, <3>1 DEF TaskNext, Keep, TaskRun, TransferThrew, TransferStopped,
         TransferEnded, CompleteReturns, CompleteThrows, TaskFinish,
         PoolDropHeld, PoolDropLast, Decrement, Die, Move, Phases, mainVars,
         taskVars
  <2>4. /\ phase'[t] \in {"offered", "spent"} => PoolDropHeld(t)
        /\ phase'[t] = "dying" => PoolDropLast(t)
    <3>1. /\ Keep(t) => phase'[t] = "queued"
          /\ TaskRun(t) => phase'[t] \in {"finishing", "transferring"}
          /\ TransferThrew(t) \/ TransferStopped(t) => phase'[t] = "finishing"
          /\ TransferEnded(t) => phase'[t] \in {"completing", "finishing"}
      BY MoveFacts DEF Keep, TaskRun, TransferThrew, TransferStopped,
         TransferEnded, Move
    <3>2. /\ CompleteReturns(t) \/ CompleteThrows(t) => phase'[t] = "finishing"
          /\ TaskFinish(t) => phase'[t] = "ran"
          /\ Decrement(t) => phase'[t] = "notifying"
      BY MoveFacts DEF CompleteReturns, CompleteThrows, TaskFinish, Decrement,
         Move
    <3>3. /\ PoolDropHeld(t) => phase'[t] \in {"offered", "spent"}
          /\ PoolDropLast(t) => phase'[t] = "dying"
      BY MoveFacts DEF PoolDropHeld, PoolDropLast, Die, Move
    <3> QED
      BY <1>4, <3>1, <3>2, <3>3 DEF TaskNext
  <2>1. /\ frames' = frames /\ taskReq' = taskReq
        /\ phase[t] # "free" /\ phase'[t] # "free"
        /\ \A u \in Tasks \ {t} : phase'[u] = phase[u]
        /\ phase'[t] \in {"offered", "spent"} => t \in InFrames
        /\ phase'[t] = "dying" => t \notin InFrames
        /\ phase'[t] = "notifying" => phase[t] = "dying"
    BY <2>0, <2>3, <2>4 DEF Moves, PoolDropHeld, PoolDropLast
  <2>2. InFrames' = InFrames /\ \A i \in DOMAIN frames : frames[i] \in Tasks
    BY <2>1, ElementOfSeq DEF InFrames, TypeOK
  <2> QED
    BY <2>1, <2>2 DEF InFrames
<1>5. ASSUME NEW t \in Tasks, Notify(t)
      PROVE  StackInv'
  <2>1. /\ phase[t] = "notifying"
        /\ phase' = [phase EXCEPT ![t] = "free"]
        /\ taskReq' = [taskReq EXCEPT ![t] = NoRequest]
        /\ frames' = IF t \in InFrames THEN AllButLast(frames) ELSE frames
    BY <1>5 DEF Notify, Move
  <2>2. CASE t \in InFrames
    <3>1. frames # <<>>
      BY <2>2 DEF InFrames
    <3>2. t = Top
      BY <2>1, <2>2 DEF InFrames, Top
    <3>3. /\ InFrames' = InFrames \ {t}
          /\ \A i \in DOMAIN frames' : /\ i \in DOMAIN frames /\ i # Len(frames)
                                      /\ frames'[i] = frames[i] /\ frames[i] # t
      BY <2>1, <2>2, <3>1, <3>2, PopFacts
    <3>4. \A i \in DOMAIN frames : frames[i] \in Tasks
      BY ElementOfSeq DEF TypeOK
    <3> QED
      BY <2>1, <3>3, <3>4 DEF TypeOK
  <2>3. CASE t \notin InFrames
    BY <2>1, <2>3 DEF TypeOK, InFrames
  <2> QED
    BY <2>2, <2>3
<1>6. ASSUME UNCHANGED <<frames, phase, taskReq>>
      PROVE  StackInv'
  BY <1>6 DEF InFrames
<1> QED
  BY <1>1, <1>2, <1>3, <1>4, <1>5, <1>6 DEF Next, MainNext, SubmitHookThrows,
     TryUpdatePostdata, Cancel, CancelAll, StartPoll, ScanEnd, ScanPast, Handle,
     BeginDestroy, DestroyLoad, DestroyCompare, EndDestroy, vars, taskVars,
     mainVars

LEMMA LifeStep == TypeOK /\ LifeInv /\ [Next]_vars => LifeInv'
<1> SUFFICES ASSUME TypeOK, LifeInv, [Next]_vars
             PROVE  LifeInv'
  OBVIOUS
<1> USE DEF LifeInv
<1>1. ASSUME NEW t \in Tasks, TaskNext(t)
      PROVE  LifeInv'
  <2>1. /\ unhandled' = unhandled /\ scan' = scan
        /\ ~Notify(t) => life' = life /\ frames' = frames
    BY <1>1 DEF TaskNext, Keep, TaskRun, TransferThrew, TransferStopped,
       TransferEnded, CompleteReturns, CompleteThrows, TaskFinish,
       PoolDropHeld, PoolDropLast, Decrement, Notify, mainVars
  <2>2. Notify(t) => /\ frames = <<>> => frames' = frames
                     /\ life' = life \/ (life = "blocked" /\ life' = "comparing")
    BY DEF Notify, Wake, InFrames
  <2> QED
    BY <2>1, <2>2
<1>2. ASSUME SubmitReturn \/ SubmitReturnLast \/ SubmitThrow
      PROVE  LifeInv'
  BY <1>2 DEF SubmitReturn, SubmitReturnLast, SubmitThrow, mainVars
<1>3. ASSUME NEW r \in Requests, NEW t \in Tasks, TrySubmit(r, t)
      PROVE  LifeInv'
  BY <1>3 DEF TrySubmit, MainFree
<1>4. ASSUME \/ StartPoll \/ ScanEnd \/ ScanPast \/ Handle
             \/ BeginDestroy \/ DestroyLoad \/ DestroyCompare \/ EndDestroy
      PROVE  LifeInv'
  BY <1>4 DEF StartPoll, ScanEnd, ScanPast, Handle, BeginDestroy, DestroyLoad,
     DestroyCompare, EndDestroy, MainFree, TypeOK
<1>5. ASSUME UNCHANGED mainVars
      PROVE  LifeInv'
  BY <1>5 DEF mainVars
<1> QED
  BY <1>1, <1>2, <1>3, <1>4, <1>5 DEF Next, MainNext, SubmitHookThrows,
     TryUpdatePostdata, Cancel, CancelAll, vars

-----------------------------------------------------------------------------
(* The list of unhandled requests.                                         *)

LEMMA AllButLastRange ==
  ASSUME NEW S, NEW s \in Seq(S), s # <<>>,
         \A j, k \in DOMAIN s : s[j] = s[k] => j = k
  PROVE  LET d == AllButLast(s) IN
         /\ {d[j] : j \in DOMAIN d} = {s[j] : j \in DOMAIN s} \ {s[Len(s)]}
         /\ \A j, k \in DOMAIN d : d[j] = d[k] => j = k
<1> DEFINE d == AllButLast(s)
           n == Len(s)
<1>1. /\ n \in Nat \ {0} /\ DOMAIN s = 1 .. n /\ DOMAIN d = 1 .. n - 1
      /\ \A j \in 1 .. n - 1 : d[j] = s[j]
  BY AllButLastFacts, EmptySeq, LenProperties
<1> HIDE DEF d, n
<1>2. \A j \in DOMAIN d : j \in DOMAIN s /\ j # n /\ n \in DOMAIN s /\ d[j] = s[j]
  BY <1>1
<1>3. \A j \in DOMAIN s : j # n => j \in DOMAIN d
  BY <1>1
<1>4. {d[j] : j \in DOMAIN d} = {s[j] : j \in DOMAIN s} \ {s[n]}
  BY <1>2, <1>3
<1> QED
  BY <1>2, <1>4 DEF d, n

LEMMA DropAtRange ==
  ASSUME NEW S, NEW s \in Seq(S), NEW i \in DOMAIN s,
         \A j, k \in DOMAIN s : s[j] = s[k] => j = k
  PROVE  LET d == DropAt(s, i) IN
         /\ {d[j] : j \in DOMAIN d} = {s[j] : j \in DOMAIN s} \ {s[i]}
         /\ \A j, k \in DOMAIN d : d[j] = d[k] => j = k
<1> DEFINE d == DropAt(s, i)
           n == Len(s)
           from(j) == IF j < i THEN j ELSE j + 1
<1>1. /\ n \in Nat \ {0} /\ DOMAIN s = 1 .. n /\ DOMAIN d = 1 .. n - 1
      /\ \A j \in 1 .. n - 1 : d[j] = IF j < i THEN s[j] ELSE s[j + 1]
  BY DropAtFacts, LenProperties
<1> HIDE DEF d, n
<1>2. \A j \in DOMAIN d : from(j) \in DOMAIN s /\ from(j) # i /\ d[j] = s[from(j)]
  BY <1>1
<1>3. \A k \in DOMAIN s : k # i => \E j \in DOMAIN d : k = from(j)
  <2> SUFFICES ASSUME NEW k \in DOMAIN s, k # i
               PROVE  \E j \in DOMAIN d : k = from(j)
    OBVIOUS
  <2>1. CASE k < i
    BY <1>1, <2>1
  <2>2. CASE ~(k < i)
    <3>1. k - 1 \in DOMAIN d /\ k = from(k - 1)
      BY <1>1, <2>2
    <3> QED
      BY <3>1
  <2> QED
    BY <2>1, <2>2
<1>4. \A j, k \in DOMAIN d : from(j) = from(k) => j = k
  BY <1>1
<1> HIDE DEF from
<1>5. {d[j] : j \in DOMAIN d} = {s[j] : j \in DOMAIN s} \ {s[i]}
  BY <1>2, <1>3
<1>6. \A j, k \in DOMAIN d : d[j] = d[k] => j = k
  BY <1>2, <1>4
<1> QED
  BY <1>5, <1>6 DEF d

(* While its submitter has not called back, the entry a throwing call pops *)
(* is its own.                                                             *)
LEMMA ThrowFacts ==
  ASSUME TypeOK, StackInv, LifeInv, ThrowInv, Reentry # "throws", SubmitThrow
  PROVE  /\ life = "open"
         /\ Top \in Tasks /\ taskReq[Top] \in Requests
         /\ unhandled # <<>>
         /\ unhandled[Len(unhandled)] = taskReq[Top]
         /\ \A u \in Tasks \ {Top} : phase[u] \in Owing => taskReq[u] # taskReq[Top]
<1>1. /\ frames # <<>> /\ Top \notin reentered
      /\ phase[Top] \in {"offered", "spent"}
  BY DEF SubmitThrow
<1>2. Top \in Tasks /\ Len(frames) \in DOMAIN frames
  BY <1>1, TopFacts
<1> QED
  BY <1>1, <1>2 DEF ThrowInv, StackInv, LifeInv, Top

LEMMA OutstandingStep ==
  ASSUME TypeOK, StackInv, LifeInv, ThrowInv, OutstandingIsOwed,
         Reentry # "throws", [Next]_vars
  PROVE  OutstandingIsOwed'
<1> USE DEF OutstandingIsOwed
<1>1. ASSUME NEW r \in Requests, NEW t \in Tasks, TrySubmit(r, t)
      PROVE  OutstandingIsOwed'
  <2>1. /\ life = "open" /\ ~inFlight[r]
        /\ unhandled' = Append(unhandled, r)
        /\ inFlight' = [inFlight EXCEPT ![r] = TRUE]
    BY <1>1 DEF TrySubmit, MainFree, Idle
  <2>2. r \notin Listed
    BY <2>1
  <2> DEFINE n == Len(unhandled)
  <2>3. /\ n \in Nat /\ DOMAIN unhandled = 1 .. n /\ DOMAIN unhandled' = 1 .. n + 1
        /\ \A i \in 1 .. n : unhandled'[i] = unhandled[i]
        /\ unhandled'[n + 1] = r
    BY <2>1 DEF TypeOK
  <2> HIDE DEF n
  <2>4. /\ n + 1 \in DOMAIN unhandled'
        /\ \A i \in DOMAIN unhandled' : i # n + 1 => i \in DOMAIN unhandled
        /\ \A i \in DOMAIN unhandled : i \in DOMAIN unhandled' /\ i # n + 1
    BY <2>3
  <2>5. Listed' = Listed \cup {r}
    BY <2>3, <2>4 DEF Listed
  <2>6. \A i, j \in DOMAIN unhandled' : unhandled'[i] = unhandled'[j] => i = j
    BY <2>1, <2>2, <2>3, <2>4 DEF Listed
  <2> QED
    BY <2>1, <2>5, <2>6 DEF TypeOK
<1>2. ASSUME SubmitThrow
      PROVE  OutstandingIsOwed'
  <2>1. /\ unhandled' = AllButLast(unhandled)
        /\ inFlight' = [inFlight EXCEPT ![taskReq[Top]] = FALSE]
    BY <1>2 DEF SubmitThrow
  <2> DEFINE d == AllButLast(unhandled)
  <2>0. /\ {d[j] : j \in DOMAIN d}
              = {unhandled[j] : j \in DOMAIN unhandled} \ {unhandled[Len(unhandled)]}
        /\ \A j, k \in DOMAIN d : d[j] = d[k] => j = k
    <3>1. life # "destroyed" /\ unhandled # <<>> /\ unhandled \in Seq(Requests)
      BY <1>2, ThrowFacts DEF TypeOK
    <3>2. \A j, k \in DOMAIN unhandled : unhandled[j] = unhandled[k] => j = k
      BY <3>1
    <3> QED
      BY <3>1, <3>2, AllButLastRange
  <2> HIDE DEF d
  <2>2. /\ Listed' = Listed \ {taskReq[Top]}
        /\ \A i, j \in DOMAIN unhandled' : unhandled'[i] = unhandled'[j] => i = j
    <3>1. unhandled' = d /\ unhandled[Len(unhandled)] = taskReq[Top]
      BY <1>2, <2>1, ThrowFacts DEF d
    <3> QED
      BY <2>0, <3>1 DEF Listed
  <2> QED
    BY <1>2, <2>1, <2>2, ThrowFacts DEF TypeOK
<1>3. ASSUME Handle
      PROVE  OutstandingIsOwed'
  <2> DEFINE r == unhandled[scan]
  <2>1. /\ scan \in DOMAIN unhandled
        /\ unhandled' = DropAt(unhandled, scan)
        /\ inFlight' = [inFlight EXCEPT ![r] = FALSE]
        /\ life' = life
    BY <1>3 DEF Handle
  <2>2. CASE life = "destroyed"
    BY <2>1, <2>2
  <2>3. CASE life # "destroyed"
    <3> DEFINE d == DropAt(unhandled, scan)
    <3>0. /\ {d[j] : j \in DOMAIN d}
                = {unhandled[j] : j \in DOMAIN unhandled} \ {unhandled[scan]}
          /\ \A j, k \in DOMAIN d : d[j] = d[k] => j = k
      BY <2>1, <2>3, DropAtRange DEF TypeOK
    <3> HIDE DEF d
    <3>1. /\ Listed' = Listed \ {r}
          /\ \A i, j \in DOMAIN unhandled' : unhandled'[i] = unhandled'[j] => i = j
      <4>1. unhandled' = d
        BY <2>1 DEF d
      <4> QED
        BY <3>0, <4>1 DEF Listed
    <3>2. r \in Requests
      BY <2>1, ElementOfSeq DEF TypeOK
    <3> QED
      BY <2>1, <2>3, <3>1, <3>2 DEF TypeOK
  <2> QED
    BY <2>2, <2>3
<1>4. ASSUME UNCHANGED <<unhandled, inFlight>>, life' # "destroyed" => life # "destroyed"
      PROVE  OutstandingIsOwed'
  BY <1>4 DEF Listed
<1>5. ASSUME NEW t \in Tasks, TaskNext(t)
      PROVE  OutstandingIsOwed'
  <2>1. UNCHANGED <<unhandled, inFlight>> /\ (life' # "destroyed" => life # "destroyed")
    BY <1>5 DEF TaskNext, Keep, TaskRun, TransferThrew, TransferStopped,
       TransferEnded, CompleteReturns, CompleteThrows, TaskFinish, PoolDropHeld,
       PoolDropLast, Decrement, Notify, Wake, mainVars, requestVars
  <2> QED
    BY <1>4, <2>1
<1>6. EndDestroy => OutstandingIsOwed'
  BY DEF EndDestroy
<1>7. ASSUME \/ UNCHANGED vars
             \/ SubmitReturn \/ SubmitReturnLast \/ CancelAll
             \/ StartPoll \/ ScanEnd \/ ScanPast
             \/ BeginDestroy \/ DestroyLoad \/ DestroyCompare
             \/ \E r \in Requests :
                   \/ SubmitHookThrows(r) \/ Cancel(r)
                   \/ \E b \in Bodies : TryUpdatePostdata(r, b)
      PROVE  OutstandingIsOwed'
  <2>1. UNCHANGED <<unhandled, inFlight>> /\ (life' # "destroyed" => life # "destroyed")
    BY <1>7 DEF SubmitReturn, SubmitReturnLast, CancelAll, StartPoll, ScanEnd,
       ScanPast, BeginDestroy, DestroyLoad, DestroyCompare, SubmitHookThrows,
       Cancel, TryUpdatePostdata, MainFree, vars, mainVars, requestVars
  <2> QED
    BY <1>4, <2>1
<1> QED
  BY <1>1, <1>2, <1>3, <1>5, <1>6, <1>7 DEF Next, MainNext

-----------------------------------------------------------------------------
(* Who holds a request.                                                    *)

OwnHyp == TypeOK /\ StackInv /\ LifeInv /\ ThrowInv /\ OutstandingIsOwed
          /\ TaskOwnsRequest

(* What the end of a task_state leaves as it was.                          *)
LEMMA DieFacts ==
  ASSUME TypeOK, StackInv, NEW t \in Tasks, phase[t] # "free", Die(t)
  PROVE  /\ taskReq[t] \in Requests
         /\ phase'[t] = "dying"
         /\ \A u \in Tasks \ {t} : phase'[u] = phase[u]
         /\ phase[t] \in Unstarted =>
               /\ ~locked'[taskReq[t]] /\ ~exception'[taskReq[t]]
               /\ error'[taskReq[t]] = "cancelled"
               /\ outcome'[taskReq[t]] = "never ran"
         /\ \A r \in Requests : r # taskReq[t] \/ phase[t] \notin Unstarted =>
               /\ locked'[r] = locked[r] /\ exception'[r] = exception[r]
               /\ error'[r] = error[r] /\ outcome'[r] = outcome[r]
<1>1. taskReq[t] \in Requests
  BY DEF StackInv
<1>2. phase'[t] = "dying" /\ \A u \in Tasks \ {t} : phase'[u] = phase[u]
  BY DEF Die, TypeOK
<1>3. CASE phase[t] \in Unstarted
  <2>1. /\ exception' = [exception EXCEPT ![taskReq[t]] = FALSE]
        /\ error' = [error EXCEPT ![taskReq[t]] = "cancelled"]
        /\ locked' = [locked EXCEPT ![taskReq[t]] = FALSE]
        /\ outcome' = [outcome EXCEPT ![taskReq[t]] = "never ran"]
    BY <1>3 DEF Die, Abandon
  <2>2. /\ ~exception'[taskReq[t]] /\ error'[taskReq[t]] = "cancelled"
        /\ ~locked'[taskReq[t]] /\ outcome'[taskReq[t]] = "never ran"
    BY <1>1, <2>1 DEF TypeOK
  <2>3. \A r \in Requests \ {taskReq[t]} :
           /\ locked'[r] = locked[r] /\ exception'[r] = exception[r]
           /\ error'[r] = error[r] /\ outcome'[r] = outcome[r]
    BY <2>1 DEF TypeOK
  <2> QED
    BY <1>1, <1>2, <1>3, <2>2, <2>3
<1>4. CASE phase[t] \notin Unstarted
  <2>1. UNCHANGED <<exception, error, locked, outcome>>
    BY <1>4 DEF Die
  <2> QED
    BY <1>1, <1>2, <1>4, <2>1
<1> QED
  BY <1>3, <1>4

(* A worker that takes the lock again finds it held for its task.          *)
LEMMA RunFacts ==
  ASSUME OwnHyp, NEW t \in Tasks, TaskRun(t)
  PROVE  /\ taskReq[t] \in Requests
         /\ locked' = locked /\ inFlight' = inFlight /\ taskReq' = taskReq
         /\ phase[t] = "queued" /\ phase'[t] \in {"finishing", "transferring"}
         /\ \A u \in Tasks \ {t} : phase'[u] = phase[u]
<1>1. taskReq[t] \in Requests /\ phase[t] = "queued"
  BY DEF OwnHyp, StackInv, TaskRun
<1>2. locked[taskReq[t]] = TRUE
  BY <1>1 DEF OwnHyp, TaskOwnsRequest, Owing, Unstarted, TypeOK
<1>3. locked' = locked
  BY <1>1, <1>2 DEF OwnHyp, TypeOK, TaskRun
<1>4. /\ inFlight' = inFlight /\ taskReq' = taskReq
      /\ \/ phase' = [phase EXCEPT ![t] = "finishing"]
         \/ phase' = [phase EXCEPT ![t] = "transferring"]
  BY DEF TaskRun, Move
<1>5. /\ phase'[t] \in {"finishing", "transferring"}
      /\ \A u \in Tasks \ {t} : phase'[u] = phase[u]
  BY <1>4 DEF OwnHyp, TypeOK
<1> QED
  BY <1>1, <1>3, <1>4, <1>5

(* A request that main finds unlocked, or not in flight, has no task.      *)
LEMMA HandleFacts ==
  ASSUME OwnHyp, Handle
  PROVE  /\ life = "open"
         /\ unhandled[scan] \in Requests
         /\ unhandled[scan] \in Listed
         /\ inFlight[unhandled[scan]]
         /\ \A t \in Tasks : phase[t] \in Owing => taskReq[t] # unhandled[scan]
<1>1. scan \in DOMAIN unhandled /\ ~locked[unhandled[scan]]
  BY DEF Handle
<1>2. unhandled[scan] \in Requests /\ unhandled[scan] \in Listed
  BY <1>1, ElementOfSeq DEF OwnHyp, TypeOK, Listed
<1>3. scan # 0
  BY <1>1 DEF OwnHyp, TypeOK
<1>4. life = "open"
  BY <1>3 DEF OwnHyp, LifeInv
<1> QED
  BY <1>1, <1>2, <1>4 DEF OwnHyp, TaskOwnsRequest, OutstandingIsOwed

LEMMA OwnStep ==
  ASSUME OwnHyp, Reentry # "throws", [Next]_vars
  PROVE  TaskOwnsRequest'
<1> USE DEF TaskOwnsRequest, OwnHyp, Owing, Unstarted, Running
<1>1. ASSUME NEW r \in Requests, NEW t \in Tasks, TrySubmit(r, t)
      PROVE  TaskOwnsRequest'
  BY <1>1 DEF TrySubmit, Idle, TypeOK, StackInv
<1>2. ASSUME NEW r \in Requests, SubmitHookThrows(r)
      PROVE  TaskOwnsRequest'
  BY <1>2 DEF SubmitHookThrows, Idle, TypeOK, StackInv, taskVars
<1>3. ASSUME NEW t \in Tasks, TaskNext(t)
      PROVE  TaskOwnsRequest'
  <2>1. ASSUME Keep(t) \/ PoolDropHeld(t) \/ CompleteReturns(t)
        PROVE  TaskOwnsRequest'
    <3>1. /\ locked' = locked /\ inFlight' = inFlight /\ taskReq' = taskReq
          /\ phase'[t] \in Owing => phase[t] \in Owing
          /\ \A u \in Tasks \ {t} : phase'[u] = phase[u]
      BY <2>1 DEF Keep, PoolDropHeld, CompleteReturns, Move, requestVars, TypeOK
    <3> QED
      BY <3>1
  <2>2. ASSUME TaskRun(t)
        PROVE  TaskOwnsRequest'
    BY <2>2, RunFacts
  <2>3. ASSUME \/ TransferThrew(t) \/ TransferStopped(t)
               \/ TransferEnded(t) \/ CompleteThrows(t)
        PROVE  TaskOwnsRequest'
    BY <2>3 DEF TransferThrew, TransferStopped, TransferEnded, CompleteThrows,
       Move, TypeOK
  <2>4. ASSUME TaskFinish(t)
        PROVE  TaskOwnsRequest'
    BY <2>4 DEF TaskFinish, Move, TypeOK, StackInv
  <2>5. ASSUME PoolDropLast(t)
        PROVE  TaskOwnsRequest'
    <3>1. /\ Die(t) /\ phase[t] # "free"
          /\ taskReq' = taskReq /\ inFlight' = inFlight
      BY <2>5 DEF PoolDropLast
    <3>2. /\ taskReq[t] \in Requests /\ phase'[t] = "dying"
          /\ \A u \in Tasks \ {t} : phase'[u] = phase[u]
          /\ \A r \in Requests : r # taskReq[t] \/ phase[t] \notin Unstarted =>
                locked'[r] = locked[r]
      <4>1. TypeOK /\ StackInv
        OBVIOUS
      <4> HIDE DEF OwnHyp, TaskOwnsRequest, Owing, Unstarted, Running
      <4> QED
        BY <3>1, <4>1, DieFacts
    <3>3. ASSUME NEW u \in Tasks, phase'[u] \in Owing
          PROVE  /\ u # t /\ phase[u] \in Owing /\ taskReq[u] \in Requests
                 /\ taskReq[u] # taskReq[t] \/ phase[t] \notin Unstarted
      <4>1. u # t /\ phase[u] \in Owing
        BY <3>2, <3>3
      <4>2. taskReq[u] \in Requests
        BY <4>1 DEF StackInv
      <4>3. phase[t] \in Unstarted => taskReq[u] # taskReq[t]
        BY <4>1
      <4> QED
        BY <4>1, <4>2, <4>3
    <3>4. ASSUME NEW u \in Tasks, phase'[u] \in Owing
          PROVE  /\ inFlight'[taskReq'[u]] /\ locked'[taskReq'[u]]
                 /\ \A v \in Tasks \ {u} :
                       phase'[v] \in Owing => taskReq'[v] # taskReq'[u]
      <4>1. /\ phase[u] \in Owing /\ locked'[taskReq[u]] = locked[taskReq[u]]
        BY <3>2, <3>3, <3>4
      <4> QED
        BY <3>1, <3>3, <3>4, <4>1
    <3> QED
      BY <3>4
  <2>6. ASSUME Decrement(t) \/ Notify(t)
        PROVE  TaskOwnsRequest'
    <3>1. /\ locked' = locked /\ inFlight' = inFlight
          /\ phase'[t] \notin Owing
          /\ \A u \in Tasks \ {t} : phase'[u] = phase[u] /\ taskReq'[u] = taskReq[u]
      BY <2>6 DEF Decrement, Notify, Move, requestVars, TypeOK
    <3> QED
      BY <3>1
  <2> QED
    BY <1>3, <2>1, <2>2, <2>3, <2>4, <2>5, <2>6 DEF TaskNext
<1>4. ASSUME SubmitReturnLast
      PROVE  TaskOwnsRequest'
  <2>1. Top \in Tasks
    BY <1>4, TopFacts DEF SubmitReturnLast
  <2>0. /\ Die(Top) /\ phase[Top] # "free"
        /\ taskReq' = taskReq /\ inFlight' = inFlight
    BY <1>4 DEF SubmitReturnLast
  <2>2. /\ taskReq[Top] \in Requests /\ phase'[Top] = "dying"
        /\ \A u \in Tasks \ {Top} : phase'[u] = phase[u]
        /\ \A r \in Requests : r # taskReq[Top] \/ phase[Top] \notin Unstarted =>
              locked'[r] = locked[r]
    <3>1. TypeOK /\ StackInv
      OBVIOUS
    <3> HIDE DEF OwnHyp, TaskOwnsRequest, Owing, Unstarted, Running
    <3> QED
      BY <2>1, <2>0, <3>1, DieFacts
  <2>3. ASSUME NEW u \in Tasks, phase'[u] \in Owing
        PROVE  /\ u # Top /\ phase[u] \in Owing /\ taskReq[u] \in Requests
               /\ taskReq[u] # taskReq[Top] \/ phase[Top] \notin Unstarted
    <3>1. u # Top /\ phase[u] \in Owing
      BY <2>2, <2>3
    <3>2. taskReq[u] \in Requests
      BY <3>1 DEF StackInv
    <3>3. phase[Top] \in Unstarted => taskReq[u] # taskReq[Top]
      BY <2>1, <3>1
    <3> QED
      BY <3>1, <3>2, <3>3
  <2>4. ASSUME NEW u \in Tasks, phase'[u] \in Owing
        PROVE  /\ inFlight'[taskReq'[u]] /\ locked'[taskReq'[u]]
               /\ \A v \in Tasks \ {u} :
                     phase'[v] \in Owing => taskReq'[v] # taskReq'[u]
    <3>1. /\ phase[u] \in Owing /\ locked'[taskReq[u]] = locked[taskReq[u]]
      BY <2>2, <2>3, <2>4
    <3> QED
      BY <2>0, <2>3, <2>4, <3>1
  <2> QED
    BY <2>4
<1>5. ASSUME SubmitThrow
      PROVE  TaskOwnsRequest'
  <2>1. /\ Top \in Tasks /\ taskReq[Top] \in Requests
        /\ \A u \in Tasks \ {Top} : phase[u] \in Owing => taskReq[u] # taskReq[Top]
    BY <1>5, ThrowFacts
  <2>6. TypeOK /\ StackInv /\ TaskOwnsRequest
    OBVIOUS
  <2> HIDE DEF OwnHyp, TaskOwnsRequest, Owing, Unstarted, Running
  <2>2. /\ Die(Top) /\ taskReq' = taskReq /\ phase[Top] # "free"
        /\ inFlight' = [inFlight EXCEPT ![taskReq[Top]] = FALSE]
    BY <1>5 DEF SubmitThrow
  <2>3. /\ phase'[Top] = "dying" /\ \A u \in Tasks \ {Top} : phase'[u] = phase[u]
        /\ \A r \in Requests \ {taskReq[Top]} : locked'[r] = locked[r]
    BY <2>1, <2>2, <2>6, DieFacts
  <2>4. \A r \in Requests \ {taskReq[Top]} : inFlight'[r] = inFlight[r]
    BY <2>2, <2>6 DEF TypeOK
  <2>5. ASSUME NEW u \in Tasks, phase'[u] \in Owing
        PROVE  /\ u # Top /\ phase[u] \in Owing /\ phase'[u] = phase[u]
               /\ taskReq[u] \in Requests \ {taskReq[Top]}
    <3>1. u # Top /\ phase[u] \in Owing
      BY <2>3, <2>5 DEF Owing, Unstarted, Running
    <3>2. taskReq[u] \in Requests
      BY <2>6, <3>1 DEF StackInv, Owing, Unstarted, Running
    <3> QED
      BY <2>1, <2>3, <3>1, <3>2
  <2> QED
    BY <2>2, <2>3, <2>4, <2>5, <2>6 DEF TaskOwnsRequest
<1>6. ASSUME Handle
      PROVE  TaskOwnsRequest'
  BY <1>6, HandleFacts DEF Handle, TypeOK, StackInv, taskVars
<1>7. ASSUME UNCHANGED <<phase, taskReq, inFlight, locked>>
      PROVE  TaskOwnsRequest'
  BY <1>7
<1> QED
  BY <1>1, <1>2, <1>3, <1>4, <1>5, <1>6, <1>7 DEF Next, MainNext,
     TryUpdatePostdata, Cancel, CancelAll, SubmitReturn, StartPoll, ScanEnd,
     ScanPast, BeginDestroy, DestroyLoad, DestroyCompare, EndDestroy, vars,
     taskVars, requestVars

(* A task of r other than t that owes its lock is still one after a step   *)
(* that only moves t.                                                      *)
(* In terms of m_bInFlight: the list is that set while the context lives.  *)
LEMMA StrandedStep ==
  ASSUME OwnHyp, NothingStranded, Reentry # "throws", [Next]_vars,
         OutstandingIsOwed', LifeInv'
  PROVE  NothingStranded'
<1> SUFFICES ASSUME NEW r \in Requests, life' # "destroyed", inFlight'[r], locked'[r]
             PROVE  Owed(r)'
  <2>1. \A r \in Listed' : life' # "destroyed" /\ r \in Requests /\ inFlight'[r]
    <3>1. life' = "destroyed" => Listed' = {}
      BY DEF LifeInv, Listed
    <3> QED
      BY <3>1 DEF OutstandingIsOwed
  <2> QED
    BY <2>1 DEF NothingStranded
<1> USE DEF OwnHyp, Owing, Unstarted, Running
<1>0. life # "destroyed" => (inFlight[r] /\ locked[r] => Owed(r))
  BY DEF NothingStranded, OutstandingIsOwed
<1>1. ASSUME NEW q \in Requests, NEW t \in Tasks, TrySubmit(q, t)
      PROVE  Owed(r)'
  <2>1. CASE q = r
    BY <1>1, <2>1 DEF TrySubmit, Owed, TypeOK
  <2>2. CASE q # r
    BY <1>0, <1>1, <2>2 DEF TrySubmit, MainFree, Owed, TypeOK
  <2> QED
    BY <2>1, <2>2
<1>2. ASSUME NEW q \in Requests, SubmitHookThrows(q)
      PROVE  Owed(r)'
  BY <1>0, <1>2 DEF SubmitHookThrows, MainFree, Idle, Owed, TypeOK, taskVars, mainVars
<1>3. ASSUME NEW t \in Tasks, TaskNext(t)
      PROVE  Owed(r)'
  <2>0. life # "destroyed" /\ inFlight[r]
    BY <1>3 DEF TaskNext, Keep, TaskRun, TransferThrew, TransferStopped,
       TransferEnded, CompleteReturns, CompleteThrows, TaskFinish, PoolDropHeld,
       PoolDropLast, Decrement, Notify, Wake, mainVars, requestVars
  <2>1. ASSUME \/ Keep(t) \/ PoolDropHeld(t) \/ CompleteReturns(t) \/ Decrement(t)
               \/ TransferThrew(t) \/ TransferStopped(t)
               \/ TransferEnded(t) \/ CompleteThrows(t)
        PROVE  Owed(r)'
    BY <1>0, <2>0, <2>1 DEF Keep, PoolDropHeld, CompleteReturns, Decrement,
       TransferThrew, TransferStopped, TransferEnded, CompleteThrows, Move, Owed,
       requestVars, TypeOK
  <2>2. ASSUME TaskRun(t)
        PROVE  Owed(r)'
    BY <1>0, <2>0, <2>2, RunFacts DEF Owed
  <2>3. ASSUME TaskFinish(t)
        PROVE  Owed(r)'
    BY <1>0, <2>0, <2>3 DEF TaskFinish, Move, Owed, TypeOK
  <2>4. ASSUME PoolDropLast(t)
        PROVE  Owed(r)'
    <3>1. Die(t) /\ phase[t] \in {"queued", "ran"} /\ taskReq' = taskReq
      BY <2>4 DEF PoolDropLast
    <3>3. /\ phase'[t] = "dying" /\ \A u \in Tasks \ {t} : phase'[u] = phase[u]
          /\ phase[t] \in Unstarted => ~locked'[taskReq[t]]
          /\ r # taskReq[t] \/ phase[t] \notin Unstarted => locked'[r] = locked[r]
      BY <3>1, DieFacts
    <3>4. locked[r] /\ (taskReq[t] # r \/ phase[t] \notin Owing)
      BY <3>1, <3>3
    <3>5. PICK u \in Tasks : taskReq[u] = r /\ phase[u] \in Owing
      BY <1>0, <2>0, <3>4 DEF Owed
    <3> QED
      BY <3>1, <3>3, <3>4, <3>5 DEF Owed
  <2>5. ASSUME Notify(t)
        PROVE  Owed(r)'
    BY <1>0, <2>0, <2>5 DEF Notify, Move, Owed, requestVars, TypeOK
  <2> QED
    BY <1>3, <2>1, <2>2, <2>3, <2>4, <2>5 DEF TaskNext
<1>4. ASSUME SubmitReturnLast
      PROVE  Owed(r)'
  <2>1. Top \in Tasks
    BY <1>4, TopFacts DEF SubmitReturnLast
  <2>2. /\ Die(Top) /\ phase[Top] \in {"offered", "spent"} /\ taskReq' = taskReq
        /\ life # "destroyed" /\ inFlight[r]
    BY <1>4 DEF SubmitReturnLast, mainVars
  <2>3. /\ phase'[Top] = "dying" /\ \A u \in Tasks \ {Top} : phase'[u] = phase[u]
        /\ phase[Top] \in Unstarted => ~locked'[taskReq[Top]]
        /\ r # taskReq[Top] \/ phase[Top] \notin Unstarted => locked'[r] = locked[r]
    BY <2>1, <2>2, DieFacts
  <2>4. locked[r] /\ (taskReq[Top] # r \/ phase[Top] \notin Owing)
    BY <2>1, <2>2, <2>3
  <2>5. PICK u \in Tasks : taskReq[u] = r /\ phase[u] \in Owing
    BY <1>0, <2>2, <2>4 DEF Owed
  <2> QED
    BY <2>2, <2>3, <2>4, <2>5 DEF Owed
<1>5. ASSUME SubmitThrow
      PROVE  Owed(r)'
  <2>1. /\ Top \in Tasks /\ taskReq[Top] \in Requests /\ life # "destroyed"
    BY <1>5, ThrowFacts
  <2> QED
    BY <1>0, <1>5, <2>1 DEF SubmitThrow, Die, Abandon, Owed, TypeOK
<1>6. ASSUME Handle
      PROVE  Owed(r)'
  BY <1>0, <1>6, HandleFacts DEF Handle, Owed, TypeOK, taskVars
<1>7. ASSUME UNCHANGED <<phase, taskReq, inFlight, locked>>,
             life' # "destroyed" => life # "destroyed"
      PROVE  Owed(r)'
  BY <1>0, <1>7 DEF Owed
<1> QED
  BY <1>1, <1>2, <1>3, <1>4, <1>5, <1>6, <1>7 DEF Next, MainNext,
     TryUpdatePostdata, Cancel, CancelAll, SubmitReturn, StartPoll, ScanEnd,
     ScanPast, BeginDestroy, DestroyLoad, DestroyCompare, EndDestroy, MainFree,
     vars, taskVars, requestVars, mainVars

(* The only call that may still throw is the innermost one.                *)
LEMMA ThrowStep ==
  ASSUME OwnHyp, [Next]_vars
  PROVE  ThrowInv'
<1> USE DEF ThrowInv
<1>0. /\ TypeOK /\ StackInv /\ LifeInv /\ ThrowInv
      /\ \A i \in DOMAIN frames : frames[i] \in Tasks /\ frames[i] \in InFrames
      /\ Len(frames) \in Nat /\ DOMAIN frames = 1 .. Len(frames)
  BY ElementOfSeq, LenProperties DEF OwnHyp, TypeOK, InFrames
<1>1. ASSUME NEW r \in Requests, NEW t \in Tasks, TrySubmit(r, t)
      PROVE  ThrowInv'
  <2>1. /\ frames' = Append(frames, t) /\ unhandled' = Append(unhandled, r)
        /\ phase' = [phase EXCEPT ![t] = "offered"]
        /\ taskReq' = [taskReq EXCEPT ![t] = r]
        /\ reentered' = (reentered \cup InFrames) \ {t}
        /\ phase[t] = "free" /\ ~inFlight[r]
    BY <1>1 DEF TrySubmit, Idle
  <2>2. /\ DOMAIN frames' = 1 .. Len(frames) + 1 /\ Len(frames') = Len(frames) + 1
        /\ \A i \in DOMAIN frames : frames'[i] = frames[i]
        /\ frames'[Len(frames) + 1] = t
    BY <1>0, <2>1 DEF TypeOK
  <2>3. /\ unhandled' # <<>> /\ unhandled'[Len(unhandled')] = r
    BY <2>1 DEF TypeOK
  <2>4. ASSUME NEW i \in DOMAIN frames', frames'[i] \notin reentered'
        PROVE  i = Len(frames')
    <3>1. CASE i \in DOMAIN frames
      <4>1. frames[i] # t /\ frames[i] \in InFrames
        BY <1>0, <2>1, <3>1 DEF StackInv
      <4> QED
        BY <2>1, <2>2, <2>4, <3>1, <4>1
    <3>2. CASE i \notin DOMAIN frames
      BY <1>0, <2>2, <3>2
    <3> QED
      BY <3>1, <3>2
  <2>5. \A u \in Tasks \ {t} : phase'[u] \in Owing => taskReq'[u] # r
    BY <2>1 DEF OwnHyp, TaskOwnsRequest, TypeOK
  <2>6. taskReq'[t] = r
    BY <2>1 DEF OwnHyp, TypeOK
  <2> QED
    BY <2>2, <2>3, <2>4, <2>5, <2>6
<1>2. ASSUME SubmitReturn
      PROVE  ThrowInv'
  <2>1. /\ frames # <<>> /\ frames' = AllButLast(frames) /\ phase' = phase
        /\ reentered' = reentered \ {Top}
    BY <1>2 DEF SubmitReturn, taskVars
  <2>2. \A i \in DOMAIN frames' : /\ i \in DOMAIN frames /\ i # Len(frames)
                                 /\ frames'[i] = frames[i] /\ frames[i] # Top
    BY <1>0, <2>1, PopFacts
  <2> QED
    BY <1>0, <2>1, <2>2
<1>3. ASSUME SubmitReturnLast \/ SubmitThrow
      PROVE  ThrowInv'
  <2>1. /\ frames # <<>> /\ frames' = frames /\ reentered' = reentered
        /\ phase' = [phase EXCEPT ![Top] = "dying"] /\ taskReq' = taskReq
    BY <1>3 DEF SubmitReturnLast, SubmitThrow, mainVars, Die
  <2>2. ASSUME NEW i \in DOMAIN frames, phase'[frames[i]] # "dying"
        PROVE  i # Len(frames) /\ phase[frames[i]] = phase'[frames[i]]
    BY <1>0, <2>1, <2>2 DEF Top, TypeOK
  <2> QED
    BY <1>0, <2>1, <2>2
<1>4. ASSUME NEW t \in Tasks, TaskNext(t), ~Notify(t)
      PROVE  ThrowInv'
  <2>1. /\ frames' = frames /\ taskReq' = taskReq /\ unhandled' = unhandled
        /\ reentered' = reentered
        /\ phase'[t] \in Owing => phase[t] \in Owing
        /\ phase[t] \in {"dying", "notifying"} => phase'[t] \in {"dying", "notifying"}
        /\ \A u \in Tasks \ {t} : phase'[u] = phase[u]
    <3>1. /\ frames' = frames /\ taskReq' = taskReq /\ unhandled' = unhandled
          /\ reentered' = reentered
      BY <1>4 DEF TaskNext, Keep, TaskRun, TransferThrew, TransferStopped,
         TransferEnded, CompleteReturns, CompleteThrows, TaskFinish,
         PoolDropHeld, PoolDropLast, Decrement, mainVars, historyVars
    <3>2. /\ Moves(phase[t], phase'[t])
          /\ \A u \in Tasks \ {t} : phase'[u] = phase[u]
      BY <1>0, <1>4, TaskMoves
    <3>3. phase[t] # "notifying"
      BY <1>4 DEF TaskNext, Keep, TaskRun, TransferThrew, TransferStopped,
         TransferEnded, CompleteReturns, CompleteThrows, TaskFinish,
         PoolDropHeld, PoolDropLast, Decrement
    <3> QED
      BY <3>1, <3>2, <3>3 DEF Moves, Owing, Unstarted, Running
  <2> QED
    BY <1>0, <2>1
<1>5. ASSUME NEW t \in Tasks, Notify(t)
      PROVE  ThrowInv'
  <2>1. /\ phase[t] = "notifying"
        /\ phase'[t] = "free" /\ \A u \in Tasks \ {t} : phase'[u] = phase[u]
        /\ \A u \in Tasks \ {t} : taskReq'[u] = taskReq[u]
        /\ frames' = IF t \in InFrames THEN AllButLast(frames) ELSE frames
        /\ reentered' = reentered \ {t} /\ unhandled' = unhandled
    BY <1>0, <1>5 DEF Notify, Move, TypeOK
  <2>2. CASE t \in InFrames
    <3>1. frames # <<>> /\ t = Top
      BY <1>0, <2>1, <2>2 DEF InFrames, Top, StackInv
    <3>2. \A i \in DOMAIN frames' : /\ i \in DOMAIN frames /\ i # Len(frames)
                                   /\ frames'[i] = frames[i] /\ frames[i] # t
      BY <1>0, <2>1, <2>2, <3>1, PopFacts
    <3> QED
      BY <1>0, <2>1, <3>2
  <2>3. CASE t \notin InFrames
    <3>1. frames' = frames /\ \A i \in DOMAIN frames : frames[i] # t
      BY <1>0, <2>1, <2>3
    <3>2. phase'[t] \notin Owing
      BY <2>1 DEF Owing, Unstarted, Running
    <3> QED
      BY <1>0, <2>1, <3>1, <3>2
  <2> QED
    BY <2>2, <2>3
<1>6. ASSUME Handle
      PROVE  ThrowInv'
  <2>1. frames' = frames /\ reentered' = reentered \cup InFrames
    BY <1>6 DEF Handle
  <2> QED
    BY <1>0, <2>1
<1>7. ASSUME EndDestroy
      PROVE  ThrowInv'
  <2>1. frames' = <<>> /\ DOMAIN <<>> = {}
    BY <1>0, <1>7 DEF EndDestroy, LifeInv
  <2> QED
    BY <2>1
<1>8. ASSUME UNCHANGED <<frames, reentered, unhandled, phase, taskReq>>
      PROVE  ThrowInv'
  BY <1>0, <1>8
<1> QED
  BY <1>1, <1>2, <1>3, <1>4, <1>5, <1>6, <1>7, <1>8 DEF Next, MainNext,
     SubmitHookThrows, TryUpdatePostdata, Cancel, CancelAll, StartPoll, ScanEnd,
     ScanPast, BeginDestroy, DestroyLoad, DestroyCompare, vars, taskVars,
     mainVars, historyVars

-----------------------------------------------------------------------------
(* Answers.                                                                *)

(* AnswerInv in terms of m_bInFlight instead of the list.                  *)
AnswerPart ==
    /\ \A r \in Requests : inFlight[r] => told[r] = "nothing"
    /\ \A r \in Requests :
          life # "destroyed" /\ inFlight[r] /\ ~locked[r] => Answered(r)
    /\ \A t \in Tasks :
          /\ phase[t] = "transferring" => ~exception[taskReq[t]]
          /\ phase[t] = "completing" => /\ ~exception[taskReq[t]]
                                       /\ error[taskReq[t]] = "none"
          /\ phase[t] = "finishing" => Answered(taskReq[t])
    /\ ToldWhatHappened

LEMMA AnswerPartFacts == OwnHyp => (AnswerPart <=> AnswerInv /\ ToldWhatHappened)
<1> SUFFICES ASSUME OwnHyp
             PROVE  AnswerPart <=> AnswerInv /\ ToldWhatHappened
  OBVIOUS
<1>1. Listed = {r \in Requests : life # "destroyed" /\ inFlight[r]}
  <2>1. life = "destroyed" => Listed = {}
    BY DEF OwnHyp, LifeInv, Listed
  <2> QED
    BY <2>1 DEF OwnHyp, OutstandingIsOwed
<1> QED
  BY <1>1 DEF AnswerPart, AnswerInv

(* The request of a task that owes its lock is in flight, locked, and no   *)
(* other such task's.                                                      *)
LEMMA OwnerFacts ==
  ASSUME OwnHyp, NEW t \in Tasks, phase[t] \in Owing
  PROVE  /\ taskReq[t] \in Requests
         /\ inFlight[taskReq[t]] /\ locked[taskReq[t]]
         /\ \A u \in Tasks \ {t} : phase[u] \in Owing => taskReq[u] # taskReq[t]
<1>1. phase[t] # "free"
  BY DEF Owing, Unstarted, Running
<1> QED
  BY <1>1 DEF OwnHyp, StackInv, TaskOwnsRequest

(* A step of a task that owes its lock touches one request only.           *)
LEMMA AnswerFrame ==
  ASSUME OwnHyp, AnswerPart, NEW t \in Tasks, phase[t] \in Owing,
         taskReq' = taskReq, told' = told,
         \A r \in Requests \ {taskReq[t]} : inFlight'[r] => inFlight[r],
         life' # "destroyed" => life # "destroyed",
         \A u \in Tasks \ {t} : phase'[u] = phase[u],
         \A r \in Requests \ {taskReq[t]} :
            /\ locked'[r] = locked[r] /\ exception'[r] = exception[r]
            /\ error'[r] = error[r] /\ outcome'[r] = outcome[r],
         ~locked'[taskReq[t]] => Answered(taskReq[t])',
         phase'[t] = "transferring" => ~exception'[taskReq[t]],
         phase'[t] = "completing" => /\ ~exception'[taskReq[t]]
                                     /\ error'[taskReq[t]] = "none",
         phase'[t] = "finishing" => Answered(taskReq[t])'
  PROVE  AnswerPart'
<1> DEFINE q == taskReq[t]
<1>1. /\ q \in Requests /\ inFlight[q] /\ told[q] = "nothing"
      /\ \A u \in Tasks \ {t} : phase[u] \in Owing =>
            taskReq[u] \in Requests \ {q}
  BY OwnerFacts DEF AnswerPart
<1>2. \A r \in Requests \ {q} : Answered(r)' <=> Answered(r)
  BY DEF Answered, HandlerFor
<1>3. \A r \in Requests : inFlight'[r] => told'[r] = "nothing"
  BY <1>1 DEF AnswerPart
<1>4. \A r \in Requests :
         life' # "destroyed" /\ inFlight'[r] /\ ~locked'[r] => Answered(r)'
  BY <1>2 DEF AnswerPart
<1>5. ASSUME NEW u \in Tasks
      PROVE  /\ phase'[u] = "transferring" => ~exception'[taskReq'[u]]
             /\ phase'[u] = "completing" => /\ ~exception'[taskReq'[u]]
                                           /\ error'[taskReq'[u]] = "none"
             /\ phase'[u] = "finishing" => Answered(taskReq[u])'
  <2>1. CASE u = t
    BY <2>1
  <2>2. CASE u # t /\ phase[u] \in Running
    <3>1. /\ phase'[u] = phase[u] /\ taskReq'[u] = taskReq[u]
          /\ taskReq[u] \in Requests \ {q}
      BY <1>1, <2>2 DEF Owing
    <3>2. Answered(taskReq[u])' <=> Answered(taskReq[u])
      <4>1. /\ exception'[taskReq'[u]] = exception[taskReq[u]]
            /\ error'[taskReq'[u]] = error[taskReq[u]]
            /\ outcome'[taskReq'[u]] = outcome[taskReq[u]]
        BY <3>1
      <4> QED
        BY <4>1 DEF Answered, HandlerFor
    <3> QED
      BY <3>1, <3>2 DEF AnswerPart
  <2>3. CASE u # t /\ phase[u] \notin Running
    BY <2>3 DEF Running
  <2> QED
    BY <2>1, <2>2, <2>3
<1>6. ToldWhatHappened'
  BY <1>1 DEF AnswerPart, ToldWhatHappened
<1> QED
  BY <1>3, <1>4, <1>5, <1>6 DEF AnswerPart

(* What the end of a task_state that did not run reports.                  *)
LEMMA AnswerDie ==
  ASSUME OwnHyp, AnswerPart, NEW t \in Tasks, Die(t),
         phase[t] \in {"offered", "queued", "ran", "spent"},
         taskReq' = taskReq, told' = told,
         \A r \in Requests : inFlight'[r] => inFlight[r],
         life' # "destroyed" => life # "destroyed"
  PROVE  AnswerPart'
<1>0. TypeOK /\ StackInv
  BY DEF OwnHyp
<1>1. /\ taskReq[t] \in Requests
      /\ phase'[t] = "dying" /\ \A u \in Tasks \ {t} : phase'[u] = phase[u]
      /\ phase[t] \in Unstarted =>
            /\ ~exception'[taskReq[t]] /\ error'[taskReq[t]] = "cancelled"
            /\ outcome'[taskReq[t]] = "never ran"
      /\ \A r \in Requests : r # taskReq[t] \/ phase[t] \notin Unstarted =>
            /\ locked'[r] = locked[r] /\ exception'[r] = exception[r]
            /\ error'[r] = error[r] /\ outcome'[r] = outcome[r]
  BY <1>0, DieFacts
<1>2. CASE phase[t] \in Unstarted
  <2>1. Answered(taskReq[t])'
    BY <1>1, <1>2 DEF Answered, HandlerFor, HandlerOf, Outcomes
  <2> QED
    BY <1>1, <1>2, <2>1, AnswerFrame DEF Owing
<1>3. CASE phase[t] \notin Unstarted
  <2>1. \A r \in Requests : /\ Answered(r)' <=> Answered(r)
                            /\ locked'[r] = locked[r] /\ outcome'[r] = outcome[r]
    BY <1>1, <1>3 DEF Answered, HandlerFor
  <2>2. ASSUME NEW u \in Tasks, phase'[u] \in Running
        PROVE  /\ phase[u] = phase'[u] /\ taskReq[u] \in Requests
               /\ exception'[taskReq'[u]] = exception[taskReq[u]]
               /\ error'[taskReq'[u]] = error[taskReq[u]]
               /\ Answered(taskReq[u])' <=> Answered(taskReq[u])
    <3>1. u # t /\ phase[u] = phase'[u] /\ phase[u] # "free"
      BY <1>1, <2>2 DEF Running
    <3>2. taskReq[u] \in Requests
      BY <1>0, <3>1 DEF StackInv
    <3>3. /\ exception'[taskReq'[u]] = exception[taskReq[u]]
          /\ error'[taskReq'[u]] = error[taskReq[u]]
          /\ outcome'[taskReq'[u]] = outcome[taskReq[u]]
      BY <1>1, <1>3, <3>2
    <3> QED
      BY <3>1, <3>2, <3>3 DEF Answered, HandlerFor
  <2>3. ASSUME NEW u \in Tasks
        PROVE  /\ phase'[u] = "transferring" => ~exception'[taskReq'[u]]
               /\ phase'[u] = "completing" => /\ ~exception'[taskReq'[u]]
                                             /\ error'[taskReq'[u]] = "none"
               /\ phase'[u] = "finishing" => Answered(taskReq[u])'
    BY <2>2 DEF Running, AnswerPart
  <2>4. ToldWhatHappened'
    BY <2>1 DEF AnswerPart, ToldWhatHappened
  <2> QED
    BY <2>1, <2>3, <2>4 DEF AnswerPart
<1> QED
  BY <1>2, <1>3

LEMMA AnswerStep ==
  ASSUME OwnHyp, AnswerPart, Reentry # "throws", [Next]_vars
  PROVE  AnswerPart'
<1>0. TypeOK /\ StackInv
  BY DEF OwnHyp
<1>1. ASSUME NEW q \in Requests, NEW t \in Tasks, TrySubmit(q, t)
      PROVE  AnswerPart'
  <2>1. /\ ~inFlight[q] /\ phase[t] = "free" /\ life' = life /\ life = "open"
        /\ phase'[t] = "offered" /\ \A u \in Tasks \ {t} : phase'[u] = phase[u]
        /\ \A u \in Tasks \ {t} : taskReq'[u] = taskReq[u]
        /\ locked'[q] /\ told'[q] = "nothing"
        /\ error' = error /\ exception' = exception
        /\ \A r \in Requests \ {q} :
              /\ inFlight'[r] = inFlight[r] /\ locked'[r] = locked[r]
              /\ told'[r] = told[r] /\ outcome'[r] = outcome[r]
    BY <1>0, <1>1 DEF TrySubmit, MainFree, Idle, TypeOK
  <2>2. \A r \in Requests \ {q} : Answered(r)' <=> Answered(r)
    BY <2>1 DEF Answered, HandlerFor
  <2>3. ASSUME NEW u \in Tasks, phase'[u] \in Running
        PROVE  /\ u # t /\ phase[u] = phase'[u] /\ taskReq'[u] = taskReq[u]
               /\ taskReq[u] \in Requests \ {q}
               /\ Answered(taskReq[u])' <=> Answered(taskReq[u])
    <3>1. u # t /\ phase[u] = phase'[u] /\ taskReq'[u] = taskReq[u]
      BY <2>1, <2>3 DEF Running
    <3>2. taskReq[u] \in Requests \ {q}
      BY <2>1, <2>3, <3>1, OwnerFacts DEF Owing
    <3>3. outcome'[taskReq'[u]] = outcome[taskReq[u]]
      BY <2>1, <3>1, <3>2
    <3> QED
      BY <2>1, <3>1, <3>2, <3>3 DEF Answered, HandlerFor
  <2>4. ASSUME NEW u \in Tasks
        PROVE  /\ phase'[u] = "transferring" => ~exception'[taskReq'[u]]
               /\ phase'[u] = "completing" => /\ ~exception'[taskReq'[u]]
                                             /\ error'[taskReq'[u]] = "none"
               /\ phase'[u] = "finishing" => Answered(taskReq[u])'
    BY <2>1, <2>3 DEF Running, AnswerPart
  <2>5. ToldWhatHappened'
    BY <2>1 DEF AnswerPart, ToldWhatHappened
  <2> QED
    BY <2>1, <2>2, <2>4, <2>5 DEF AnswerPart
<1>2. ASSUME NEW q \in Requests, SubmitHookThrows(q)
      PROVE  AnswerPart'
  BY <1>0, <1>2 DEF SubmitHookThrows, Idle, TypeOK, historyVars, mainVars,
     taskVars, AnswerPart, Answered, HandlerFor, ToldWhatHappened
<1>3. ASSUME NEW t \in Tasks, TaskNext(t)
      PROVE  AnswerPart'
  <2> DEFINE q == taskReq[t]
  <2>0. phase[t] \in Owing => q \in Requests
    BY OwnerFacts
  <2>1. ASSUME TaskRun(t)
        PROVE  AnswerPart'
    <3>1. phase[t] \in Owing /\ q \in Requests /\ locked'[q]
      BY <1>0, <2>0, <2>1 DEF TaskRun, Owing, Unstarted, TypeOK
    <3>2. /\ ~exception'[q]
          /\ phase'[t] = "transferring" \/
                (phase'[t] = "finishing" /\ error'[q] = "cancelled"
                 /\ outcome'[q] = "never ran")
          /\ \A r \in Requests \ {q} :
                /\ locked'[r] = locked[r] /\ exception'[r] = exception[r]
                /\ error'[r] = error[r] /\ outcome'[r] = outcome[r]
      <4>1. CASE StopAsked(q)
        <5>1. /\ phase' = [phase EXCEPT ![t] = "finishing"]
              /\ exception' = [exception EXCEPT ![q] = FALSE]
              /\ error' = [error EXCEPT ![q] = "cancelled"]
              /\ outcome' = [outcome EXCEPT ![q] = "never ran"]
              /\ locked' = [locked EXCEPT ![q] = TRUE]
          BY <2>1, <4>1 DEF TaskRun, Move
        <5>2. /\ phase'[t] = "finishing" /\ ~exception'[q]
              /\ error'[q] = "cancelled" /\ outcome'[q] = "never ran"
          BY <1>0, <3>1, <5>1 DEF TypeOK
        <5> QED
          BY <1>0, <5>1, <5>2 DEF TypeOK
      <4>2. CASE ~StopAsked(q)
        BY <1>0, <2>1, <3>1, <4>2 DEF TaskRun, Move, TypeOK
      <4> QED
        BY <4>1, <4>2
    <3>3. phase'[t] = "finishing" => Answered(q)'
      BY <2>1, <3>2 DEF TaskRun, Answered, HandlerFor, HandlerOf, Outcomes
    <3>4. /\ taskReq' = taskReq /\ told' = told /\ inFlight' = inFlight /\ life' = life
          /\ \A u \in Tasks \ {t} : phase'[u] = phase[u]
      BY <1>0, <2>1 DEF TaskRun, Move, mainVars, TypeOK
    <3> QED
      BY <3>1, <3>2, <3>3, <3>4, AnswerFrame
  <2>2. ASSUME \/ TransferThrew(t) \/ TransferStopped(t) \/ TransferEnded(t)
               \/ CompleteReturns(t) \/ CompleteThrows(t)
        PROVE  AnswerPart'
    <3>1. phase[t] \in Owing /\ q \in Requests
      BY <2>0, <2>2 DEF TransferThrew, TransferStopped, TransferEnded,
         CompleteReturns, CompleteThrows, Owing, Running
    <3>2. /\ phase[t] = "transferring" => ~exception[q]
          /\ phase[t] = "completing" => ~exception[q] /\ error[q] = "none"
          /\ locked[q]
      BY <3>1, OwnerFacts DEF AnswerPart
    <3>3. /\ taskReq' = taskReq /\ told' = told /\ inFlight' = inFlight
          /\ life' = life /\ locked' = locked
          /\ \A u \in Tasks \ {t} : phase'[u] = phase[u]
          /\ \A r \in Requests \ {q} :
                /\ exception'[r] = exception[r] /\ error'[r] = error[r]
                /\ outcome'[r] = outcome[r]
      BY <1>0, <2>2, <3>1 DEF TransferThrew, TransferStopped, TransferEnded,
         CompleteReturns, CompleteThrows, Move, mainVars, requestVars, TypeOK
    <3>4. \/ /\ phase'[t] = "completing" /\ ~exception'[q] /\ error'[q] = "none"
          \/ /\ phase'[t] = "finishing"
             /\ \/ exception'[q] /\ outcome'[q] = "threw"
                \/ ~exception'[q] /\ error'[q] = "cancelled" /\ outcome'[q] = "stopped"
                \/ ~exception'[q] /\ error'[q] = "failed" /\ outcome'[q] = "failed"
                \/ ~exception'[q] /\ error'[q] = "none" /\ outcome'[q] = "completed"
      BY <1>0, <2>2, <3>1, <3>2 DEF TransferThrew, TransferStopped, TransferEnded,
         CompleteReturns, CompleteThrows, Move, requestVars, TypeOK
    <3>5. phase'[t] = "finishing" => Answered(q)'
      <4>1. q' = q
        BY <3>3
      <4> QED
        BY <3>4, <4>1 DEF Answered, HandlerFor, HandlerOf, Outcomes
    <3> QED
      BY <3>1, <3>2, <3>3, <3>4, <3>5, AnswerFrame
  <2>3. ASSUME TaskFinish(t)
        PROVE  AnswerPart'
    <3>1. phase[t] = "finishing" /\ phase[t] \in Owing /\ q \in Requests
      BY <2>0, <2>3 DEF TaskFinish, Owing, Running
    <3>2. /\ taskReq' = taskReq /\ told' = told /\ inFlight' = inFlight /\ life' = life
          /\ exception' = exception /\ error' = error /\ outcome' = outcome
          /\ phase'[t] = "ran" /\ \A u \in Tasks \ {t} : phase'[u] = phase[u]
          /\ \A r \in Requests \ {q} : locked'[r] = locked[r]
      BY <1>0, <2>3, <3>1 DEF TaskFinish, Move, mainVars, historyVars, TypeOK
    <3>3. Answered(q)'
      <4>1. Answered(q)
        BY <3>1 DEF AnswerPart
      <4> QED
        BY <3>2, <4>1 DEF Answered, HandlerFor
    <3> QED
      BY <3>1, <3>2, <3>3, AnswerFrame
  <2>4. ASSUME PoolDropLast(t)
        PROVE  AnswerPart'
    BY <2>4, AnswerDie DEF PoolDropLast, mainVars
  <2>5. ASSUME Keep(t) \/ PoolDropHeld(t) \/ Decrement(t) \/ Notify(t)
        PROVE  AnswerPart'
    <3>1. /\ requestVars' = requestVars
          /\ outcome' = outcome /\ told' = told
          /\ phase'[t] \notin Running
          /\ \A u \in Tasks \ {t} : phase'[u] = phase[u] /\ taskReq'[u] = taskReq[u]
          /\ life' # "destroyed" => life # "destroyed"
      BY <1>0, <2>5 DEF Keep, PoolDropHeld, Decrement, Notify, Wake, Move, mainVars,
         historyVars, TypeOK, Running
    <3> QED
      BY <3>1 DEF requestVars, AnswerPart, Answered, HandlerFor, ToldWhatHappened,
         Running
  <2> QED
    BY <1>3, <2>1, <2>2, <2>3, <2>4, <2>5 DEF TaskNext
<1>4. ASSUME SubmitReturnLast
      PROVE  AnswerPart'
  <2>1. Top \in Tasks
    BY <1>0, <1>4, TopFacts DEF SubmitReturnLast
  <2> QED
    BY <1>4, <2>1, AnswerDie DEF SubmitReturnLast, mainVars
<1>5. ASSUME SubmitThrow
      PROVE  AnswerPart'
  <2>1. Top \in Tasks /\ taskReq[Top] \in Requests
    BY <1>5, ThrowFacts DEF OwnHyp
  <2>2. \A r \in Requests : inFlight'[r] => inFlight[r]
    BY <1>0, <1>5, <2>1 DEF SubmitThrow, TypeOK
  <2> QED
    BY <1>5, <2>1, <2>2, AnswerDie DEF SubmitThrow
<1>6. ASSUME Handle
      PROVE  AnswerPart'
  <2> DEFINE q == unhandled[scan]
  <2>1. /\ q \in Requests /\ Answered(q)
        /\ \A u \in Tasks : phase[u] \in Owing => taskReq[u] \in Requests \ {q}
    <3>1. life = "open" /\ q \in Requests /\ inFlight[q] /\ ~locked[q]
      BY <1>6, HandleFacts DEF Handle
    <3> QED
      BY <1>6, <3>1, HandleFacts, OwnerFacts DEF AnswerPart
  <2>2. /\ phase' = phase /\ taskReq' = taskReq /\ life' = life
        /\ outcome' = outcome /\ error' = error
        /\ ~inFlight'[q] /\ told'[q] = HandlerFor(q)
        /\ \A r \in Requests \ {q} :
              /\ inFlight'[r] = inFlight[r] /\ locked'[r] = locked[r]
              /\ exception'[r] = exception[r] /\ told'[r] = told[r]
    BY <1>0, <1>6, <2>1 DEF Handle, taskVars, TypeOK
  <2>3. \A r \in Requests \ {q} : Answered(r)' <=> Answered(r)
    BY <2>2 DEF Answered, HandlerFor
  <2>4. ASSUME NEW u \in Tasks, phase'[u] \in Running
        PROVE  /\ taskReq[u] \in Requests \ {q}
               /\ Answered(taskReq[u])' <=> Answered(taskReq[u])
    <3>1. taskReq[u] \in Requests \ {q}
      BY <2>1, <2>2, <2>4 DEF Owing
    <3> QED
      BY <2>2, <3>1 DEF Answered, HandlerFor
  <2>5. ASSUME NEW u \in Tasks
        PROVE  /\ phase'[u] = "transferring" => ~exception'[taskReq'[u]]
               /\ phase'[u] = "completing" => /\ ~exception'[taskReq'[u]]
                                             /\ error'[taskReq'[u]] = "none"
               /\ phase'[u] = "finishing" => Answered(taskReq[u])'
    BY <2>2, <2>4 DEF Running, AnswerPart
  <2>6. ToldWhatHappened'
    BY <2>1, <2>2 DEF AnswerPart, ToldWhatHappened, Answered
  <2> QED
    BY <2>2, <2>3, <2>5, <2>6 DEF AnswerPart
<1>7. ASSUME UNCHANGED <<phase, taskReq, inFlight, locked, error, exception,
                         outcome, told>>,
             life' # "destroyed" => life # "destroyed"
      PROVE  AnswerPart'
  BY <1>7 DEF AnswerPart, Answered, HandlerFor, ToldWhatHappened
<1> QED
  BY <1>1, <1>2, <1>3, <1>4, <1>5, <1>6, <1>7 DEF Next, MainNext,
     TryUpdatePostdata, Cancel, CancelAll, SubmitReturn, StartPoll, ScanEnd,
     ScanPast, BeginDestroy, DestroyLoad, DestroyCompare, EndDestroy, MainFree,
     vars, taskVars, requestVars, mainVars, historyVars

-----------------------------------------------------------------------------
(* Cancellations before the start.                                         *)

DoomPart ==
    /\ \A r \in Requests : doomed[r] => cancelled[r] /\ inFlight[r]
    /\ \A r \in Requests : life # "destroyed" /\ inFlight[r] /\ ~locked[r] =>
          (doomed[r] => outcome[r] = "never ran")
    /\ \A t \in Tasks :
          /\ phase[t] \in {"transferring", "completing"} => ~doomed[taskReq[t]]
          /\ phase[t] = "finishing" =>
                (doomed[taskReq[t]] => outcome[taskReq[t]] = "never ran")

LEMMA DoomPartFacts ==
  OwnHyp => (DoomPart <=> DoomInv /\ CancelledBeforeStartNeverRuns)
<1> SUFFICES ASSUME OwnHyp
             PROVE  DoomPart <=> DoomInv /\ CancelledBeforeStartNeverRuns
  OBVIOUS
<1>1. Listed = {r \in Requests : life # "destroyed" /\ inFlight[r]}
  <2>1. life = "destroyed" => Listed = {}
    BY DEF OwnHyp, LifeInv, Listed
  <2> QED
    BY <2>1 DEF OwnHyp, OutstandingIsOwed
<1> QED
  BY <1>1 DEF DoomPart, DoomInv, CancelledBeforeStartNeverRuns

LEMMA DoomFrame ==
  ASSUME OwnHyp, DoomPart, NEW t \in Tasks,
         phase[t] # "free", phase'[t] \in Running => phase[t] \in Owing,
         taskReq' = taskReq, doomed' = doomed, cancelled' = cancelled,
         inFlight' = inFlight, life' # "destroyed" => life # "destroyed",
         \A u \in Tasks \ {t} : phase'[u] = phase[u],
         \A r \in Requests \ {taskReq[t]} :
            locked'[r] = locked[r] /\ outcome'[r] = outcome[r],
         phase[t] \notin Owing => /\ locked'[taskReq[t]] = locked[taskReq[t]]
                                 /\ outcome'[taskReq[t]] = outcome[taskReq[t]],
         ~locked'[taskReq[t]] /\ phase[t] \in Owing /\ doomed[taskReq[t]] =>
            outcome'[taskReq[t]] = "never ran",
         phase'[t] \in {"transferring", "completing"} => ~doomed[taskReq[t]],
         phase'[t] = "finishing" /\ doomed[taskReq[t]] =>
            outcome'[taskReq[t]] = "never ran"
  PROVE  DoomPart'
<1> DEFINE q == taskReq[t]
<1>1. q \in Requests
  BY DEF OwnHyp, StackInv
<1>2. ASSUME NEW u \in Tasks \ {t}, phase[u] \in Running
      PROVE  taskReq[u] \in Requests /\ (q # taskReq[u] \/ phase[t] \notin Owing)
  BY <1>2, OwnerFacts DEF Owing
<1>3. \A r \in Requests : doomed'[r] => cancelled'[r] /\ inFlight'[r]
  BY DEF DoomPart
<1>4. ASSUME NEW r \in Requests, life' # "destroyed", inFlight'[r], ~locked'[r], doomed'[r]
      PROVE  outcome'[r] = "never ran"
  <2>1. CASE r = q /\ phase[t] \in Owing
    BY <1>4, <2>1
  <2>2. CASE r # q \/ phase[t] \notin Owing
    BY <1>1, <1>4, <2>2 DEF DoomPart
  <2> QED
    BY <2>1, <2>2
<1>5. ASSUME NEW u \in Tasks
      PROVE  /\ phase'[u] \in {"transferring", "completing"} => ~doomed'[taskReq'[u]]
             /\ phase'[u] = "finishing" =>
                   (doomed'[taskReq'[u]] => outcome'[taskReq'[u]] = "never ran")
  <2>1. CASE u = t
    BY <2>1
  <2>2. CASE u # t /\ phase[u] \in Running
    BY <1>1, <1>2, <2>2 DEF DoomPart
  <2>3. CASE u # t /\ phase[u] \notin Running
    BY <2>3 DEF Running
  <2> QED
    BY <2>1, <2>2, <2>3
<1> QED
  BY <1>3, <1>4, <1>5 DEF DoomPart

(* Cancelling dooms requests whose task has not started, and only those.   *)
LEMMA DoomCancel ==
  ASSUME OwnHyp, DoomPart, NEW R, Doom(R),
         \A r \in Requests : cancelled[r] \/ r \in R => cancelled'[r],
         UNCHANGED <<phase, taskReq, inFlight, locked, outcome>>,
         life' # "destroyed" => life # "destroyed"
  PROVE  DoomPart'
<1>1. ASSUME NEW r \in Requests, doomed'[r], ~doomed[r]
      PROVE  /\ r \in R /\ inFlight[r] /\ locked[r]
             /\ \A u \in Tasks : phase[u] \in Running => taskReq[u] # r
  <2>1. PICK t \in Tasks : r \in R /\ taskReq[t] = r /\ phase[t] \in Unstarted
    BY <1>1 DEF Doom
  <2>2. phase[t] \in Owing /\ phase[t] \notin Running
    BY <2>1 DEF Owing, Unstarted, Running
  <2>3. \A u \in Tasks \ {t} : phase[u] \in Owing => taskReq[u] # taskReq[t]
    BY <2>2, OwnerFacts
  <2> QED
    BY <2>1, <2>2, <2>3, OwnerFacts DEF Owing
<1>2. \A u \in Tasks : phase[u] \in Running => taskReq[u] \in Requests
  BY OwnerFacts DEF Owing
<1>3. \A r \in Requests : doomed'[r] => cancelled'[r] /\ inFlight'[r]
  BY <1>1 DEF DoomPart
<1>4. \A r \in Requests : life' # "destroyed" /\ inFlight'[r] /\ ~locked'[r] =>
          (doomed'[r] => outcome'[r] = "never ran")
  BY <1>1 DEF DoomPart
<1>5. ASSUME NEW u \in Tasks
      PROVE  /\ phase'[u] \in {"transferring", "completing"} => ~doomed'[taskReq'[u]]
             /\ phase'[u] = "finishing" =>
                   (doomed'[taskReq'[u]] => outcome'[taskReq'[u]] = "never ran")
  <2>1. phase[u] \in Running => (doomed'[taskReq[u]] => doomed[taskReq[u]])
    BY <1>1, <1>2
  <2> QED
    BY <2>1 DEF DoomPart, Running
<1> QED
  BY <1>3, <1>4, <1>5 DEF DoomPart

LEMMA DoomStep ==
  ASSUME OwnHyp, DoomPart, Reentry # "throws", [Next]_vars
  PROVE  DoomPart'
<1>0. TypeOK /\ StackInv
  BY DEF OwnHyp
<1>1. ASSUME NEW q \in Requests, NEW t \in Tasks, TrySubmit(q, t)
      PROVE  DoomPart'
  <2>1. /\ ~inFlight[q] /\ phase[t] = "free" /\ life' = life /\ life = "open"
        /\ phase'[t] = "offered" /\ \A u \in Tasks \ {t} : phase'[u] = phase[u]
        /\ \A u \in Tasks \ {t} : taskReq'[u] = taskReq[u]
        /\ ~doomed'[q]
        /\ \A r \in Requests \ {q} :
              /\ inFlight'[r] = inFlight[r] /\ locked'[r] = locked[r]
              /\ cancelled'[r] = cancelled[r] /\ doomed'[r] = doomed[r]
              /\ outcome'[r] = outcome[r]
    BY <1>0, <1>1 DEF TrySubmit, MainFree, Idle, TypeOK
  <2>2. ASSUME NEW u \in Tasks, phase'[u] \in Running
        PROVE  /\ phase[u] = phase'[u] /\ taskReq'[u] = taskReq[u]
               /\ taskReq[u] \in Requests \ {q}
    <3>1. u # t /\ phase[u] \in Owing
      BY <2>1, <2>2 DEF Running, Owing
    <3> QED
      BY <2>1, <3>1, OwnerFacts
  <2>3. ASSUME NEW r \in Requests
        PROVE  /\ doomed'[r] => cancelled'[r] /\ inFlight'[r]
               /\ life' # "destroyed" /\ inFlight'[r] /\ ~locked'[r] =>
                    (doomed'[r] => outcome'[r] = "never ran")
    <3>1. CASE r = q
      BY <2>1, <3>1
    <3>2. CASE r # q
      BY <2>1, <3>2 DEF DoomPart
    <3> QED
      BY <3>1, <3>2
  <2>4. ASSUME NEW u \in Tasks
        PROVE  /\ phase'[u] \in {"transferring", "completing"} => ~doomed'[taskReq'[u]]
               /\ phase'[u] = "finishing" =>
                     (doomed'[taskReq'[u]] => outcome'[taskReq'[u]] = "never ran")
    <3>1. CASE phase'[u] \in Running
      <4>1. /\ phase'[u] = phase[u] /\ taskReq'[u] = taskReq[u]
            /\ doomed'[taskReq[u]] = doomed[taskReq[u]]
            /\ outcome'[taskReq[u]] = outcome[taskReq[u]]
        BY <2>1, <2>2, <3>1
      <4> QED
        BY <4>1 DEF DoomPart
    <3>2. CASE phase'[u] \notin Running
      BY <3>2 DEF Running
    <3> QED
      BY <3>1, <3>2
  <2> QED
    BY <2>3, <2>4 DEF DoomPart
<1>2. ASSUME NEW q \in Requests, SubmitHookThrows(q)
      PROVE  DoomPart'
  <2>1. ~inFlight[q] /\ ~doomed[q]
    BY <1>2 DEF SubmitHookThrows, Idle, DoomPart
  <2>2. /\ phase' = phase /\ taskReq' = taskReq /\ life' = life
        /\ outcome' = outcome /\ doomed' = doomed /\ inFlight' = inFlight
    BY <1>2 DEF SubmitHookThrows, historyVars, mainVars, taskVars
  <2>3. \A r \in Requests \ {q} : /\ cancelled'[r] = cancelled[r]
                                  /\ locked'[r] = locked[r]
    BY <1>0, <1>2 DEF SubmitHookThrows, TypeOK
  <2> QED
    BY <2>1, <2>2, <2>3 DEF DoomPart
<1>3. ASSUME NEW t \in Tasks, TaskNext(t)
      PROVE  DoomPart'
  <2> DEFINE q == taskReq[t]
  <2>1. ASSUME TaskRun(t)
        PROVE  DoomPart'
    <3>1. /\ phase[t] = "queued" /\ phase[t] \in Owing /\ phase[t] # "free"
          /\ q \in Requests /\ locked' = locked /\ locked[q]
          /\ \A u \in Tasks \ {t} : phase'[u] = phase[u]
      BY <2>1, RunFacts, OwnerFacts DEF Owing, Unstarted
    <3>2. doomed[q] => StopAsked(q)
      BY <3>1 DEF DoomPart, StopAsked
    <3>3. /\ doomed[q] => phase'[t] = "finishing" /\ outcome'[q] = "never ran"
          /\ \A r \in Requests \ {q} : outcome'[r] = outcome[r]
      <4>1. CASE StopAsked(q)
        <5>1. /\ phase' = [phase EXCEPT ![t] = "finishing"]
              /\ outcome' = [outcome EXCEPT ![q] = "never ran"]
          BY <2>1, <4>1 DEF TaskRun, Move
        <5> QED
          BY <1>0, <3>1, <5>1 DEF TypeOK
      <4>2. CASE ~StopAsked(q)
        BY <2>1, <3>2, <4>2 DEF TaskRun
      <4> QED
        BY <4>1, <4>2
    <3>4. /\ taskReq' = taskReq /\ doomed' = doomed /\ cancelled' = cancelled
          /\ inFlight' = inFlight /\ life' = life
      BY <2>1 DEF TaskRun, mainVars
    <3> QED
      BY <3>1, <3>3, <3>4, DoomFrame
  <2>2. ASSUME \/ TransferThrew(t) \/ TransferStopped(t) \/ TransferEnded(t)
               \/ CompleteReturns(t) \/ CompleteThrows(t)
        PROVE  DoomPart'
    <3>1. /\ phase[t] \in {"transferring", "completing"} /\ phase[t] \in Owing
          /\ phase[t] # "free" /\ q \in Requests
      BY <2>2, OwnerFacts DEF TransferThrew, TransferStopped, TransferEnded,
         CompleteReturns, CompleteThrows, Owing, Running
    <3>2. ~doomed[q]
      BY <3>1 DEF DoomPart
    <3>3. /\ taskReq' = taskReq /\ doomed' = doomed /\ cancelled' = cancelled
          /\ inFlight' = inFlight /\ life' = life /\ locked' = locked
          /\ \A u \in Tasks \ {t} : phase'[u] = phase[u]
          /\ \A r \in Requests \ {q} : outcome'[r] = outcome[r]
      BY <1>0, <2>2, <3>1 DEF TransferThrew, TransferStopped, TransferEnded,
         CompleteReturns, CompleteThrows, Move, mainVars, requestVars, TypeOK
    <3> QED
      BY <3>1, <3>2, <3>3, DoomFrame
  <2>3. ASSUME TaskFinish(t)
        PROVE  DoomPart'
    <3>1. /\ phase[t] = "finishing" /\ phase[t] \in Owing /\ q \in Requests
      BY <2>3, OwnerFacts DEF TaskFinish, Owing, Running
    <3>2. doomed[q] => outcome[q] = "never ran"
      BY <3>1 DEF DoomPart
    <3>3. /\ taskReq' = taskReq /\ doomed' = doomed /\ cancelled' = cancelled
          /\ inFlight' = inFlight /\ life' = life /\ outcome' = outcome
          /\ phase'[t] = "ran" /\ \A u \in Tasks \ {t} : phase'[u] = phase[u]
          /\ \A r \in Requests \ {q} : locked'[r] = locked[r]
      BY <1>0, <2>3, <3>1 DEF TaskFinish, Move, mainVars, historyVars, TypeOK
    <3> QED
      BY <3>1, <3>2, <3>3, DoomFrame
  <2>4. ASSUME PoolDropLast(t)
        PROVE  DoomPart'
    <3>1. /\ Die(t) /\ phase[t] \in {"queued", "ran"} /\ taskReq' = taskReq
          /\ doomed' = doomed /\ cancelled' = cancelled
          /\ inFlight' = inFlight /\ life' = life
      BY <2>4 DEF PoolDropLast, mainVars
    <3>2. /\ phase'[t] = "dying" /\ \A u \in Tasks \ {t} : phase'[u] = phase[u]
          /\ phase[t] \in Unstarted => outcome'[q] = "never ran"
          /\ \A r \in Requests : r # q \/ phase[t] \notin Unstarted =>
                locked'[r] = locked[r] /\ outcome'[r] = outcome[r]
          /\ q \in Requests
      BY <1>0, <3>1, DieFacts
    <3>3. phase[t] \in Owing <=> phase[t] \in Unstarted
      BY <3>1 DEF Owing, Unstarted, Running
    <3> QED
      BY <3>1, <3>2, <3>3, DoomFrame DEF Running
  <2>5. ASSUME Keep(t) \/ PoolDropHeld(t) \/ Decrement(t) \/ Notify(t)
        PROVE  DoomPart'
    <3>1. /\ requestVars' = requestVars
          /\ outcome' = outcome /\ doomed' = doomed
          /\ phase'[t] \notin Running
          /\ \A u \in Tasks \ {t} : phase'[u] = phase[u] /\ taskReq'[u] = taskReq[u]
          /\ life' # "destroyed" => life # "destroyed"
      BY <1>0, <2>5 DEF Keep, PoolDropHeld, Decrement, Notify, Wake, Move, mainVars,
         historyVars, TypeOK, Running
    <3> QED
      BY <3>1 DEF requestVars, DoomPart, Running
  <2> QED
    BY <1>3, <2>1, <2>2, <2>3, <2>4, <2>5 DEF TaskNext
<1>4. ASSUME SubmitReturnLast
      PROVE  DoomPart'
  <2>1. /\ Top \in Tasks /\ Die(Top) /\ phase[Top] \in {"offered", "spent"}
        /\ taskReq' = taskReq /\ doomed' = doomed /\ cancelled' = cancelled
        /\ inFlight' = inFlight /\ life' = life
    BY <1>0, <1>4, TopFacts DEF SubmitReturnLast, mainVars
  <2>2. /\ phase'[Top] = "dying" /\ \A u \in Tasks \ {Top} : phase'[u] = phase[u]
        /\ phase[Top] \in Unstarted => outcome'[taskReq[Top]] = "never ran"
        /\ \A r \in Requests : r # taskReq[Top] \/ phase[Top] \notin Unstarted =>
              locked'[r] = locked[r] /\ outcome'[r] = outcome[r]
        /\ taskReq[Top] \in Requests
    BY <1>0, <2>1, DieFacts
  <2>3. phase[Top] \in Owing <=> phase[Top] \in Unstarted
    BY <2>1 DEF Owing, Unstarted, Running
  <2> QED
    BY <2>1, <2>2, <2>3, DoomFrame DEF Running
<1>5. ASSUME SubmitThrow
      PROVE  DoomPart'
  <2> DEFINE q == taskReq[Top]
  <2>1. /\ Top \in Tasks /\ q \in Requests
        /\ \A u \in Tasks \ {Top} : phase[u] \in Owing => taskReq[u] # q
    BY <1>5, ThrowFacts DEF OwnHyp
  <2>2. /\ Die(Top) /\ phase[Top] # "free"
        /\ taskReq' = taskReq /\ cancelled' = cancelled /\ life' = life
        /\ ~inFlight'[q] /\ ~doomed'[q]
        /\ \A r \in Requests \ {q} : inFlight'[r] = inFlight[r] /\ doomed'[r] = doomed[r]
    <3>1. /\ inFlight' = [inFlight EXCEPT ![q] = FALSE]
          /\ doomed' = [doomed EXCEPT ![q] = FALSE]
          /\ Die(Top) /\ phase[Top] # "free"
          /\ taskReq' = taskReq /\ cancelled' = cancelled /\ life' = life
      BY <1>5 DEF SubmitThrow
    <3>2. /\ ~inFlight'[q]
          /\ \A r \in Requests \ {q} : inFlight'[r] = inFlight[r]
      BY <1>0, <2>1, <3>1 DEF TypeOK
    <3>3. /\ ~doomed'[q]
          /\ \A r \in Requests \ {q} : doomed'[r] = doomed[r]
      BY <1>0, <2>1, <3>1 DEF TypeOK
    <3> QED
      BY <3>1, <3>2, <3>3
  <2>3. /\ phase'[Top] = "dying" /\ \A u \in Tasks \ {Top} : phase'[u] = phase[u]
        /\ \A r \in Requests \ {q} : locked'[r] = locked[r] /\ outcome'[r] = outcome[r]
    <3>1. TypeOK /\ StackInv /\ Top \in Tasks /\ phase[Top] # "free" /\ Die(Top)
      BY <1>0, <2>1, <2>2
    <3>2. phase'[Top] = "dying" /\ \A u \in Tasks \ {Top} : phase'[u] = phase[u]
      BY <3>1, DieFacts
    <3>3. \A r \in Requests : r # taskReq[Top] =>
             locked'[r] = locked[r] /\ outcome'[r] = outcome[r]
      BY <3>1, DieFacts
    <3> QED
      BY <3>2, <3>3
  <2>4. ASSUME NEW u \in Tasks, phase'[u] \in Running
        PROVE  phase[u] = phase'[u] /\ taskReq[u] \in Requests \ {q}
    <3>1. u # Top /\ phase[u] \in Owing /\ phase[u] = phase'[u]
      BY <2>3, <2>4 DEF Running, Owing
    <3> QED
      BY <2>1, <3>1, OwnerFacts
  <2>5. ASSUME NEW r \in Requests
        PROVE  /\ doomed'[r] => cancelled'[r] /\ inFlight'[r]
               /\ life' # "destroyed" /\ inFlight'[r] /\ ~locked'[r] =>
                    (doomed'[r] => outcome'[r] = "never ran")
    <3>1. CASE r = q
      BY <2>2, <3>1
    <3>2. CASE r # q
      BY <2>2, <2>3, <3>2 DEF DoomPart
    <3> QED
      BY <3>1, <3>2
  <2>6. ASSUME NEW u \in Tasks
        PROVE  /\ phase'[u] \in {"transferring", "completing"} => ~doomed'[taskReq'[u]]
               /\ phase'[u] = "finishing" =>
                     (doomed'[taskReq'[u]] => outcome'[taskReq'[u]] = "never ran")
    <3>1. CASE phase'[u] \in Running
      <4>1. /\ phase'[u] = phase[u] /\ taskReq'[u] = taskReq[u]
            /\ doomed'[taskReq[u]] = doomed[taskReq[u]]
            /\ outcome'[taskReq[u]] = outcome[taskReq[u]]
        BY <2>2, <2>3, <2>4, <3>1
      <4> QED
        BY <4>1 DEF DoomPart
    <3>2. CASE phase'[u] \notin Running
      BY <3>2 DEF Running
    <3> QED
      BY <3>1, <3>2
  <2> QED
    BY <2>5, <2>6 DEF DoomPart
<1>6. ASSUME Handle
      PROVE  DoomPart'
  <2> DEFINE q == unhandled[scan]
  <2>1. /\ q \in Requests
        /\ \A u \in Tasks : phase[u] \in Owing => taskReq[u] \in Requests \ {q}
    BY <1>6, HandleFacts, OwnerFacts
  <2>2. /\ phase' = phase /\ taskReq' = taskReq /\ life' = life
        /\ outcome' = outcome /\ cancelled' = cancelled
        /\ ~inFlight'[q] /\ ~doomed'[q]
        /\ \A r \in Requests \ {q} :
              /\ inFlight'[r] = inFlight[r] /\ locked'[r] = locked[r]
              /\ doomed'[r] = doomed[r]
    BY <1>0, <1>6, <2>1 DEF Handle, taskVars, TypeOK
  <2>3. \A u \in Tasks : phase[u] \in Running => taskReq[u] \in Requests \ {q}
    BY <2>1 DEF Owing
  <2> QED
    BY <2>2, <2>3 DEF DoomPart, Running
<1>7. ASSUME NEW r \in Requests, Cancel(r)
      PROVE  DoomPart'
  <2>1. /\ Doom({r})
        /\ \A x \in Requests : cancelled[x] \/ x \in {r} => cancelled'[x]
        /\ UNCHANGED <<phase, taskReq, inFlight, locked, outcome, life>>
    BY <1>0, <1>7 DEF Cancel, mainVars, taskVars, TypeOK
  <2> QED
    BY <2>1, DoomCancel
<1>8. ASSUME CancelAll \/ BeginDestroy
      PROVE  DoomPart'
  <2>1. /\ Doom(Listed)
        /\ \A x \in Requests : cancelled[x] \/ x \in Listed => cancelled'[x]
        /\ UNCHANGED <<phase, taskReq, inFlight, locked, outcome>>
        /\ life' # "destroyed" => life # "destroyed"
    BY <1>0, <1>8 DEF CancelAll, BeginDestroy, CancelListed, MainFree, mainVars,
       taskVars, TypeOK
  <2> QED
    BY <2>1, DoomCancel
<1>9. ASSUME UNCHANGED <<phase, taskReq, inFlight, locked, cancelled, outcome, doomed>>,
             life' # "destroyed" => life # "destroyed"
      PROVE  DoomPart'
  BY <1>9 DEF DoomPart
<1> QED
  BY <1>1, <1>2, <1>3, <1>4, <1>5, <1>6, <1>7, <1>8, <1>9 DEF Next, MainNext,
     TryUpdatePostdata, SubmitReturn, StartPoll, ScanEnd, ScanPast, DestroyLoad,
     DestroyCompare, EndDestroy, vars, taskVars, requestVars, mainVars, historyVars

-----------------------------------------------------------------------------
(* POST bodies.                                                            *)

(* A body is replaced only between submissions, when no task owes the      *)
(* request's lock, and a submission takes the body there is.               *)
LEMMA BodyStep ==
  ASSUME OwnHyp, BodyIsTheSubmittedOne, [Next]_vars
  PROVE  BodyIsTheSubmittedOne'
<1>0. TypeOK /\ StackInv
  BY DEF OwnHyp
<1>1. ASSUME NEW r \in Requests, NEW t \in Tasks, TrySubmit(r, t)
      PROVE  BodyIsTheSubmittedOne'
  <2>1. /\ body' = body /\ phase' = [phase EXCEPT ![t] = "offered"]
        /\ taskReq' = [taskReq EXCEPT ![t] = r]
        /\ promised' = [promised EXCEPT ![r] = body[r]]
        /\ ~inFlight[r]
    BY <1>1 DEF TrySubmit, Idle
  <2>2. ASSUME NEW u \in Tasks, phase'[u] \in Owing
        PROVE  body'[taskReq'[u]] = promised'[taskReq'[u]]
    <3>1. CASE u = t
      BY <1>0, <2>1, <3>1 DEF TypeOK
    <3>2. CASE u # t
      <4>1. phase[u] \in Owing /\ taskReq'[u] = taskReq[u]
        BY <1>0, <2>1, <2>2, <3>2 DEF TypeOK
      <4>2. taskReq[u] \in Requests \ {r}
        BY <2>1, <4>1, OwnerFacts
      <4> QED
        BY <1>0, <2>1, <4>1, <4>2 DEF BodyIsTheSubmittedOne, TypeOK
    <3> QED
      BY <3>1, <3>2
  <2> QED
    BY <2>2 DEF BodyIsTheSubmittedOne
<1>2. ASSUME NEW r \in Requests, NEW b \in Bodies, TryUpdatePostdata(r, b)
      PROVE  BodyIsTheSubmittedOne'
  <2>1. /\ body' = [body EXCEPT ![r] = b] /\ ~inFlight[r]
        /\ phase' = phase /\ taskReq' = taskReq /\ promised' = promised
    BY <1>2 DEF TryUpdatePostdata, Idle, historyVars, taskVars
  <2>2. \A t \in Tasks : phase[t] \in Owing => taskReq[t] \in Requests \ {r}
    BY <2>1, OwnerFacts
  <2> QED
    BY <1>0, <2>1, <2>2 DEF BodyIsTheSubmittedOne, TypeOK
<1>3. ASSUME body' = body, promised' = promised,
             \A t \in Tasks : phase'[t] \in Owing =>
                phase[t] \in Owing /\ taskReq'[t] = taskReq[t]
      PROVE  BodyIsTheSubmittedOne'
  BY <1>3 DEF BodyIsTheSubmittedOne
<1>4. ASSUME NEW t \in Tasks, TaskNext(t)
      PROVE  BodyIsTheSubmittedOne'
  <2>1. body' = body /\ promised' = promised
    BY <1>4 DEF TaskNext, Keep, TaskRun, TransferThrew, TransferStopped,
       TransferEnded, CompleteReturns, CompleteThrows, TaskFinish, PoolDropHeld,
       PoolDropLast, Decrement, Notify, requestVars, historyVars
  <2>2. /\ \A u \in Tasks \ {t} : phase'[u] = phase[u] /\ taskReq'[u] = taskReq[u]
        /\ phase'[t] \in Owing => phase[t] \in Owing /\ taskReq'[t] = taskReq[t]
    <3>1. /\ Moves(phase[t], phase'[t])
          /\ \A u \in Tasks \ {t} : phase'[u] = phase[u]
      BY <1>0, <1>4, TaskMoves
    <3>2. \/ taskReq' = taskReq
          \/ taskReq' = [taskReq EXCEPT ![t] = NoRequest] /\ phase[t] = "notifying"
      BY <1>4 DEF TaskNext, Keep, TaskRun, TransferThrew, TransferStopped,
         TransferEnded, CompleteReturns, CompleteThrows, TaskFinish,
         PoolDropHeld, PoolDropLast, Decrement, Notify
    <3>3. \A u \in Tasks \ {t} : taskReq'[u] = taskReq[u]
      BY <1>0, <3>2 DEF TypeOK
    <3> QED
      BY <3>1, <3>2, <3>3 DEF Moves, Owing, Unstarted, Running
  <2> QED
    BY <1>3, <2>1, <2>2
<1>5. ASSUME SubmitReturnLast \/ SubmitThrow
      PROVE  BodyIsTheSubmittedOne'
  <2>1. /\ body' = body /\ promised' = promised /\ taskReq' = taskReq
        /\ phase' = [phase EXCEPT ![Top] = "dying"]
    BY <1>5 DEF SubmitReturnLast, SubmitThrow, Die
  <2> QED
    BY <1>0, <1>3, <2>1 DEF TypeOK, Owing, Unstarted, Running
<1>6. ASSUME UNCHANGED <<body, promised, phase, taskReq>>
      PROVE  BodyIsTheSubmittedOne'
  BY <1>3, <1>6
<1> QED
  BY <1>1, <1>2, <1>4, <1>5, <1>6 DEF Next, MainNext, SubmitHookThrows, Cancel,
     CancelAll, SubmitReturn, StartPoll, ScanEnd, ScanPast, Handle,
     BeginDestroy, DestroyLoad, DestroyCompare, EndDestroy, vars, taskVars,
     requestVars, historyVars

-----------------------------------------------------------------------------
(* The end of the context.                                                 *)

(* The destructor's last load finds no counted task_state; with the        *)
(* context gone, none is made.                                             *)
LEMMA QuietStep ==
  ASSUME TypeOK, CountIsExact, StackInv, LifeInv, DestroyedIsQuiet, [Next]_vars
  PROVE  DestroyedIsQuiet'
<1>1. ASSUME EndDestroy
      PROVE  DestroyedIsQuiet'
  <2>1. IsFiniteSet({t \in Tasks : phase[t] \notin Uncounted})
    BY TasksAssumption, FS_Subset
  <2>2. Cardinality({t \in Tasks : phase[t] \notin Uncounted}) = 0
    BY <1>1 DEF EndDestroy, CountIsExact
  <2>3. {t \in Tasks : phase[t] \notin Uncounted} = {}
    BY <2>1, <2>2, FS_EmptySet
  <2>4. phase' = phase
    BY <1>1 DEF EndDestroy, taskVars
  <2> QED
    BY <2>3, <2>4 DEF DestroyedIsQuiet
<1>2. ASSUME NEW t \in Tasks, TaskNext(t), life' = "destroyed"
      PROVE  \A u \in Tasks : phase'[u] \in Uncounted
  <2>1. life = "destroyed"
    BY <1>2 DEF TaskNext, Keep, TaskRun, TransferThrew, TransferStopped,
       TransferEnded, CompleteReturns, CompleteThrows, TaskFinish, PoolDropHeld,
       PoolDropLast, Decrement, Notify, Wake, mainVars
  <2>2. \A u \in Tasks : phase[u] \in {"free", "notifying"}
    BY <2>1 DEF DestroyedIsQuiet, Uncounted
  <2>3. Notify(t)
    BY <1>2, <2>2 DEF TaskNext, Keep, TaskRun, TransferThrew, TransferStopped,
       TransferEnded, CompleteReturns, CompleteThrows, TaskFinish, PoolDropHeld,
       PoolDropLast, Decrement
  <2> QED
    BY <2>2, <2>3 DEF Notify, Move, TypeOK, Uncounted
<1>3. ASSUME SubmitReturn \/ SubmitReturnLast \/ SubmitThrow
      PROVE  life' # "destroyed"
  BY <1>3 DEF SubmitReturn, SubmitReturnLast, SubmitThrow, mainVars, LifeInv
<1>4. ASSUME NEW r \in Requests, NEW t \in Tasks, TrySubmit(r, t)
      PROVE  life' # "destroyed"
  BY <1>4 DEF TrySubmit, MainFree
<1>5. ASSUME phase' = phase, life' = life \/ life' # "destroyed"
      PROVE  DestroyedIsQuiet'
  BY <1>5 DEF DestroyedIsQuiet
<1>6. ASSUME BeginDestroy \/ DestroyLoad \/ DestroyCompare
      PROVE  life' # "destroyed"
  BY <1>6 DEF BeginDestroy, DestroyLoad, DestroyCompare
<1>7. life' # "destroyed" => DestroyedIsQuiet'
  BY DEF DestroyedIsQuiet
<1> QED
  BY <1>1, <1>2, <1>3, <1>4, <1>5, <1>6, <1>7 DEF Next, MainNext,
     SubmitHookThrows, Cancel, CancelAll, TryUpdatePostdata, StartPoll, ScanEnd,
     ScanPast, Handle, vars, taskVars, mainVars, DestroyedIsQuiet

(* While the destructor sleeps no task_state is made; one that leaves the  *)
(* count says so before it is gone, and then the destructor wakes.         *)
LEMMA WaitStep ==
  ASSUME TypeOK, LifeInv, LoadedInv, NoWakeUpIsLost, [Next]_vars
  PROVE  LoadedInv' /\ NoWakeUpIsLost'
<1>1. ASSUME NEW t \in Tasks, Notify(t)
      PROVE  life' # "blocked" /\ LoadedInv'
  BY <1>1 DEF Notify, Wake, LoadedInv
<1>2. ASSUME NEW t \in Tasks, Decrement(t)
      PROVE  LoadedInv' /\ NoWakeUpIsLost'
  <2>1. phase'[t] = "notifying" /\ life' = life /\ loaded' = loaded
    BY <1>2 DEF Decrement, Move, TypeOK, mainVars
  <2> QED
    BY <2>1 DEF LoadedInv, NoWakeUpIsLost
<1>3. ASSUME NEW t \in Tasks, TaskNext(t), ~Notify(t), ~Decrement(t)
      PROVE  /\ UNCHANGED <<life, loaded, count>>
             /\ \A u \in Tasks : phase[u] = "notifying" => phase'[u] = "notifying"
  <2>1. UNCHANGED <<life, loaded, count>>
    BY <1>3 DEF TaskNext, Keep, TaskRun, TransferThrew, TransferStopped,
       TransferEnded, CompleteReturns, CompleteThrows, TaskFinish, PoolDropHeld,
       PoolDropLast, mainVars
  <2>2. /\ phase[t] # "notifying"
        /\ \E to \in Phases : phase' = [phase EXCEPT ![t] = to]
    BY <1>3 DEF TaskNext, Keep, TaskRun, TransferThrew, TransferStopped,
       TransferEnded, CompleteReturns, CompleteThrows, TaskFinish, PoolDropHeld,
       PoolDropLast, Move, Die, Phases
  <2> QED
    BY <2>1, <2>2 DEF TypeOK
<1>4. ASSUME SubmitReturn \/ SubmitReturnLast \/ SubmitThrow
      PROVE  life' # "blocked" /\ LoadedInv'
  BY <1>4 DEF SubmitReturn, SubmitReturnLast, SubmitThrow, mainVars, LifeInv,
     LoadedInv
<1>5. ASSUME NEW r \in Requests, NEW t \in Tasks, TrySubmit(r, t)
      PROVE  life' # "blocked" /\ LoadedInv'
  BY <1>5 DEF TrySubmit, MainFree, LoadedInv
<1>6. ASSUME BeginDestroy \/ DestroyLoad \/ EndDestroy
      PROVE  life' # "blocked" /\ LoadedInv'
  BY <1>6 DEF BeginDestroy, DestroyLoad, EndDestroy, LoadedInv
<1>7. ASSUME DestroyCompare
      PROVE  LoadedInv' /\ NoWakeUpIsLost'
  BY <1>7 DEF DestroyCompare, LoadedInv, NoWakeUpIsLost, taskVars
<1>8. ASSUME life' # "blocked"
      PROVE  NoWakeUpIsLost'
  BY <1>8 DEF NoWakeUpIsLost
<1>9. ASSUME UNCHANGED <<life, loaded, count>>,
             \A u \in Tasks : phase[u] = "notifying" => phase'[u] = "notifying"
      PROVE  LoadedInv' /\ NoWakeUpIsLost'
  BY <1>9 DEF LoadedInv, NoWakeUpIsLost
<1>10. ASSUME UNCHANGED <<life, loaded, count, phase>>
       PROVE  LoadedInv' /\ NoWakeUpIsLost'
  BY <1>10 DEF LoadedInv, NoWakeUpIsLost
<1>11. CASE \E t \in Tasks : TaskNext(t)
  BY <1>1, <1>2, <1>3, <1>8, <1>9, <1>11
<1>12. CASE \/ SubmitReturn \/ SubmitReturnLast \/ SubmitThrow
            \/ \E r \in Requests, t \in Tasks : TrySubmit(r, t)
            \/ BeginDestroy \/ DestroyLoad \/ EndDestroy \/ DestroyCompare
  BY <1>4, <1>5, <1>6, <1>7, <1>8, <1>12
<1>13. CASE \/ \E r \in Requests : \/ SubmitHookThrows(r) \/ Cancel(r)
                                  \/ \E b \in Bodies : TryUpdatePostdata(r, b)
            \/ CancelAll \/ StartPoll \/ ScanEnd \/ ScanPast \/ Handle
            \/ UNCHANGED vars
  <2>1. UNCHANGED <<life, loaded, count, phase>>
    BY <1>13 DEF SubmitHookThrows, Cancel, TryUpdatePostdata, CancelAll, StartPoll,
       ScanEnd, ScanPast, Handle, vars, taskVars, mainVars
  <2> QED
    BY <1>10, <2>1
<1> QED
  BY <1>11, <1>12, <1>13 DEF Next, MainNext

-----------------------------------------------------------------------------
(* The invariant.                                                          *)

LEMMA InvInit == Init => IInv
<1> SUFFICES ASSUME Init
             PROVE  IInv
  OBVIOUS
<1>1. TypeOK /\ CountIsExact
  BY TypeInit
<1>2. /\ frames = <<>> /\ unhandled = <<>> /\ DOMAIN frames = {}
      /\ DOMAIN unhandled = {} /\ life = "open" /\ scan = 0
      /\ \A t \in Tasks : phase[t] = "free"
      /\ \A r \in Requests : /\ ~inFlight[r] /\ ~doomed[r]
                             /\ told[r] = "nothing"
  BY EmptySeq DEF Init
<1>3. Listed = {}
  BY <1>2 DEF Listed
<1>4. StackInv /\ LifeInv /\ ThrowInv
  BY <1>2 DEF StackInv, LifeInv, ThrowInv
<1>5. OutstandingIsOwed /\ TaskOwnsRequest /\ NothingStranded
  BY <1>2, <1>3 DEF OutstandingIsOwed, TaskOwnsRequest, NothingStranded, Owing,
     Unstarted, Running
<1>6. AnswerInv /\ ToldWhatHappened
  BY <1>2, <1>3 DEF AnswerInv, ToldWhatHappened
<1>7. DoomInv /\ CancelledBeforeStartNeverRuns
  BY <1>2, <1>3 DEF DoomInv, CancelledBeforeStartNeverRuns
<1>8. BodyIsTheSubmittedOne /\ DestroyedIsQuiet
  BY <1>2 DEF BodyIsTheSubmittedOne, DestroyedIsQuiet, Owing, Unstarted, Running
<1> QED
  BY <1>1, <1>4, <1>5, <1>6, <1>7, <1>8 DEF IInv

LEMMA InvStep ==
  ASSUME Reentry # "throws", IInv, [Next]_vars
  PROVE  IInv'
<1>1. OwnHyp
  BY DEF IInv, OwnHyp
<1>2. (TypeOK /\ CountIsExact)'
  BY TypeStep, CountStep DEF IInv
<1>3. (StackInv /\ LifeInv)'
  BY StackStep, LifeStep DEF IInv
<1>4. OutstandingIsOwed'
  BY OutstandingStep DEF IInv
<1>5. TaskOwnsRequest'
  BY <1>1, OwnStep
<1>6. ThrowInv'
  BY <1>1, ThrowStep
<1>7. OwnHyp'
  BY <1>2, <1>3, <1>4, <1>5, <1>6 DEF OwnHyp
<1>8. NothingStranded'
  BY <1>1, <1>3, <1>4, StrandedStep DEF IInv
<1>9. (AnswerInv /\ ToldWhatHappened)'
  <2>1. AnswerPart
    BY <1>1, AnswerPartFacts DEF IInv
  <2>2. AnswerPart'
    BY <1>1, <2>1, AnswerStep
  <2> QED
    BY <1>7, <2>2, AnswerPartFacts, PTL
<1>10. (DoomInv /\ CancelledBeforeStartNeverRuns)'
  <2>1. DoomPart
    BY <1>1, DoomPartFacts DEF IInv
  <2>2. DoomPart'
    BY <1>1, <2>1, DoomStep
  <2> QED
    BY <1>7, <2>2, DoomPartFacts, PTL
<1>11. BodyIsTheSubmittedOne'
  BY <1>1, BodyStep DEF IInv
<1>12. DestroyedIsQuiet'
  BY QuietStep DEF IInv
<1> QED
  BY <1>2, <1>3, <1>4, <1>5, <1>6, <1>8, <1>9, <1>10, <1>11, <1>12 DEF IInv

(* For any requests, tasks, bodies and endings, and any submitter that     *)
(* does not both call the context back and throw, every safety property of *)
(* the module holds in every reachable state.                              *)
THEOREM ContextIsSafe == ASSUME Reentry # "throws" PROVE Spec => []IInv
<1>1. IInv /\ [Next]_vars => IInv'
  BY InvStep
<1> QED
  BY InvInit, <1>1, PTL DEF Spec

(* A task that owes the response lock has its request to itself, and main  *)
(* neither handles nor resubmits that request meanwhile.                   *)
THEOREM WorkersOwnTheirRequests ==
  ASSUME Reentry # "throws"
  PROVE  Spec => []TaskOwnsRequest
<1>1. IInv => TaskOwnsRequest
  BY DEF IInv
<1> QED
  BY ContextIsSafe, <1>1, PTL

(* A request that is listed and not ready to be handled has a task that    *)
(* will make it so, whatever the submitter did with it.                    *)
THEOREM NoRequestIsLost ==
  ASSUME Reentry # "throws"
  PROVE  Spec => []NothingStranded
<1>1. IInv => NothingStranded
  BY DEF IInv
<1> QED
  BY ContextIsSafe, <1>1, PTL

(* The handler main runs is the one for what became of this submission.    *)
THEOREM AnswersAreTrue ==
  ASSUME Reentry # "throws"
  PROVE  Spec => []ToldWhatHappened
<1>1. IInv => ToldWhatHappened
  BY DEF IInv
<1> QED
  BY ContextIsSafe, <1>1, PTL

(* A request cancelled before its task starts never reaches the network.   *)
THEOREM CancellationIsNotLost ==
  ASSUME Reentry # "throws"
  PROVE  Spec => []CancelledBeforeStartNeverRuns
<1>1. IInv => CancelledBeforeStartNeverRuns
  BY DEF IInv
<1> QED
  BY ContextIsSafe, <1>1, PTL

(* The destructor's half of the context needs nothing of the submitter: it *)
(* may call the context back and throw as it likes.                        *)
THEOREM DestructorNeedsNoPromise == Spec => []BaseInv
<1>1. Init => BaseInv
  <2>1. Init => TypeOK /\ StackInv /\ LifeInv /\ CountIsExact /\ DestroyedIsQuiet
    BY InvInit DEF IInv
  <2>2. Init => LoadedInv /\ NoWakeUpIsLost
    BY DEF Init, LoadedInv, NoWakeUpIsLost
  <2> QED
    BY <2>1, <2>2 DEF BaseInv
<1>2. BaseInv /\ [Next]_vars => BaseInv'
  BY TypeStep, CountStep, StackStep, LifeStep, WaitStep, QuietStep DEF BaseInv
<1> QED
  BY <1>1, <1>2, PTL DEF Spec

(* When the destructor has returned, no task runs or will (~curl_context). *)
THEOREM DestructionIsClean == Spec => []DestroyedIsQuiet
<1>1. BaseInv => DestroyedIsQuiet
  BY DEF BaseInv
<1> QED
  BY DestructorNeedsNoPromise, <1>1, PTL

(* The destructor never sleeps with nobody left to wake it: whoever made   *)
(* the count differ from the value it sleeps on has yet to notify it       *)
(* (~curl_context's wait, ~task_state's notify_all).                       *)
THEOREM DestructorIsWoken == Spec => []NoWakeUpIsLost
<1>1. BaseInv => NoWakeUpIsLost
  BY DEF BaseInv
<1> QED
  BY DestructorNeedsNoPromise, <1>1, PTL

(* The context's fields and its requests' keep their types.                *)
THEOREM TypesAreKept == Spec => []TypeOK
BY TypesAndCount, PTL

(* The POST body a worker reads in place is the one that was submitted.    *)
THEOREM BodyIsNeverSwapped ==
  ASSUME Reentry # "throws"
  PROVE  Spec => []BodyIsTheSubmittedOne
<1>1. IInv => BodyIsTheSubmittedOne
  BY DEF IInv
<1> QED
  BY ContextIsSafe, <1>1, PTL

(* outstanding_request_count counts exactly what is in flight.             *)
THEOREM OutstandingIsExact ==
  ASSUME Reentry # "throws"
  PROVE  Spec => []OutstandingIsOwed
<1>1. IInv => OutstandingIsOwed
  BY DEF IInv
<1> QED
  BY ContextIsSafe, <1>1, PTL

-----------------------------------------------------------------------------
(* A curl_context is an HttpContext that waits for its workers: the        *)
(* refinement, for any submitter that does not both call back and throw.   *)

(* What the contract sees of a request and of the context.                 *)
Stage(r) == IF r \notin Listed THEN "idle"
            ELSE IF locked[r] THEN "submitted" ELSE "settled"
Verdict(r) == IF r \in Listed /\ ~locked[r] THEN HandlerFor(r) ELSE "no verdict"
Tells(r) == IF told[r] = "nothing" THEN "no verdict" ELSE told[r]
Life == CASE life = "open" -> "open"
          [] life = "destroyed" -> "closed"
          [] OTHER -> "closing"

LEMMA ContractVars ==
  /\ Contract!vars = << [r \in Requests |-> Stage(r)], [r \in Requests |-> Verdict(r)],
                        [r \in Requests |-> Tells(r)], Life >>
  /\ Contract!vars' = << [r \in Requests |-> Stage(r)'],
                         [r \in Requests |-> Verdict(r)'],
                         [r \in Requests |-> Tells(r)'], Life' >>
BY DEF Contract!vars, Stage, Verdict, Tells, Life

LEMMA VerdictType == \A r : HandlerFor(r)' \in Reports /\ HandlerFor(r) \in Reports
BY DEF HandlerFor, Reports

Still(s) ==
    /\ s \in Listed' <=> s \in Listed
    /\ locked'[s] <=> locked[s]
    /\ error'[s] = error[s] /\ exception'[s] = exception[s]

LEMMA StillFacts ==
  ASSUME NEW s \in Requests, Still(s)
  PROVE  Stage(s)' = Stage(s) /\ Verdict(s)' = Verdict(s)
<1>1. HandlerFor(s)' = HandlerFor(s)
  BY DEF Still, HandlerFor
<1> QED
  BY <1>1 DEF Still, Stage, Verdict

(* A step that moves no request, or one that its task still owed.          *)
LEMMA NoneMoves ==
  ASSUME \A s \in Requests : Still(s), told' = told, Life' = Life
  PROVE  UNCHANGED Contract!vars
<1> DEFINE S == [r \in Requests |-> Stage(r)]
           T == [r \in Requests |-> Stage(r)']
           V == [r \in Requests |-> Verdict(r)]
           W == [r \in Requests |-> Verdict(r)']
           X == [r \in Requests |-> Tells(r)]
           Y == [r \in Requests |-> Tells(r)']
<1>1. S = T /\ V = W
  BY StillFacts
<1>2. X = Y
  BY DEF Tells
<1>3. Contract!vars = <<S, V, X, Life>> /\ Contract!vars' = <<T, W, Y, Life'>>
  BY ContractVars
<1> HIDE DEF S, T, V, W, X, Y
<1> QED
  BY <1>1, <1>2, <1>3

LEMMA OneMoves ==
  ASSUME NEW r \in Requests, \A s \in Requests \ {r} : Still(s),
         r \in Listed' <=> r \in Listed, r \in Listed => locked[r],
         told' = told, Life' = Life
  PROVE  [Contract!Next]_(Contract!vars)
<1> DEFINE S == [s \in Requests |-> Stage(s)]
           T == [s \in Requests |-> Stage(s)']
           V == [s \in Requests |-> Verdict(s)]
           W == [s \in Requests |-> Verdict(s)']
           X == [s \in Requests |-> Tells(s)]
           Y == [s \in Requests |-> Tells(s)']
<1>1. \A s \in Requests \ {r} : Stage(s)' = Stage(s) /\ Verdict(s)' = Verdict(s)
  BY StillFacts
<1>2. X = Y
  BY DEF Tells
<1>3. CASE r \notin Listed \/ locked'[r]
  <2>1. Stage(r)' = Stage(r) /\ Verdict(r)' = Verdict(r)
    BY <1>3 DEF Stage, Verdict
  <2>2. S = T /\ V = W
    BY <1>1, <2>1
  <2>3. Contract!vars = <<S, V, X, Life>> /\ Contract!vars' = <<T, W, Y, Life'>>
    BY ContractVars
  <2> HIDE DEF S, T, V, W, X, Y
  <2> QED
    BY <1>2, <2>2, <2>3
<1>4. CASE r \in Listed /\ ~locked'[r]
  <2>1. /\ Stage(r) = "submitted" /\ Stage(r)' = "settled"
        /\ Verdict(r)' = HandlerFor(r)'
    BY <1>4 DEF Stage, Verdict
  <2>2. T = [S EXCEPT ![r] = "settled"]
    BY <1>1, <2>1
  <2>3. W = [V EXCEPT ![r] = HandlerFor(r)']
    BY <1>1, <2>1
  <2>4. Contract!Settle(r)
    BY <1>2, <2>1, <2>2, <2>3, VerdictType
    DEF Contract!Settle, Stage, Verdict, Tells, Life
  <2> QED
    BY <2>4 DEF Contract!Next
<1> QED
  BY <1>3, <1>4

-----------------------------------------------------------------------------
(* The steps.                                                              *)

LEMMA TaskMovesOne ==
  ASSUME IInv, NEW t \in Tasks, TaskNext(t)
  PROVE  [Contract!Next]_(Contract!vars)
<1>1. OwnHyp
  BY DEF IInv, OwnHyp
<1>2. told' = told /\ unhandled' = unhandled /\ Life' = Life
  <2>1. CASE Notify(t)
    BY <2>1 DEF Notify, Wake, Life
  <2>2. CASE ~Notify(t)
    BY <2>2 DEF TaskNext, Keep, TaskRun, TransferThrew, TransferStopped,
       TransferEnded, CompleteReturns, CompleteThrows, TaskFinish, PoolDropHeld,
       PoolDropLast, Decrement, mainVars, historyVars, Life
  <2> QED
    BY <2>1, <2>2
<1>3. Listed' = Listed
  BY <1>2 DEF Listed
<1>4. CASE UNCHANGED <<locked, error, exception>>
  <2>1. \A s \in Requests : Still(s)
    BY <1>3, <1>4 DEF Still
  <2> QED
    BY <1>2, <2>1, NoneMoves
<1>5. CASE phase[t] \in Owing
  <2>1. taskReq[t] \in Requests /\ locked[taskReq[t]]
    BY <1>1, <1>5 DEF OwnHyp, StackInv, TaskOwnsRequest, Owing, Unstarted, Running
  <2>2. ASSUME NEW s \in Requests \ {taskReq[t]}
        PROVE  locked'[s] = locked[s] /\ error'[s] = error[s] /\ exception'[s] = exception[s]
    <3>1. CASE TaskRun(t) \/ TransferThrew(t) \/ TransferStopped(t)
      BY <1>1, <2>2, <3>1 DEF OwnHyp, TypeOK, TaskRun, TransferThrew, TransferStopped
    <3>2. CASE TransferEnded(t) \/ CompleteReturns(t) \/ CompleteThrows(t) \/ TaskFinish(t)
      BY <1>1, <2>2, <3>2 DEF OwnHyp, TypeOK, TransferEnded, CompleteReturns,
         CompleteThrows, TaskFinish, requestVars
    <3>3. CASE PoolDropLast(t)
      <4>1. Die(t) /\ phase[t] # "free"
        BY <3>3 DEF PoolDropLast
      <4>2. TypeOK /\ StackInv
        BY <1>1 DEF OwnHyp
      <4> QED
        BY <2>2, <4>1, <4>2, DieFacts
    <3>4. CASE Keep(t) \/ PoolDropHeld(t) \/ Decrement(t) \/ Notify(t)
      BY <3>4 DEF Keep, PoolDropHeld, Decrement, Notify, requestVars
    <3> QED
      BY <3>1, <3>2, <3>3, <3>4 DEF TaskNext
  <2>3. \A s \in Requests \ {taskReq[t]} : Still(s)
    BY <1>3, <2>2 DEF Still
  <2> QED
    BY <1>2, <1>3, <2>1, <2>3, OneMoves
<1>6. CASE phase[t] \notin Owing
  <2>1. CASE PoolDropLast(t)
    BY <1>4, <1>6, <2>1 DEF PoolDropLast, Die, Owing
  <2>2. CASE Keep(t) \/ PoolDropHeld(t) \/ Decrement(t) \/ Notify(t)
    BY <1>4, <2>2 DEF Keep, PoolDropHeld, Decrement, Notify, requestVars
  <2> QED
    BY <1>6, <2>1, <2>2 DEF TaskNext, TaskRun, TransferThrew, TransferStopped,
       TransferEnded, CompleteReturns, CompleteThrows, TaskFinish, Owing, Unstarted,
       Running
<1> QED
  BY <1>5, <1>6

LEMMA SubmitStep ==
  ASSUME IInv, NEW r \in Requests, NEW t \in Tasks, TrySubmit(r, t)
  PROVE  [Contract!Next]_(Contract!vars)
<1>1. TypeOK /\ OutstandingIsOwed
  BY DEF IInv
<1>2. /\ life = "open" /\ life' = life /\ ~inFlight[r]
      /\ unhandled' = Append(unhandled, r)
      /\ locked' = [locked EXCEPT ![r] = TRUE]
      /\ told' = [told EXCEPT ![r] = "nothing"]
      /\ UNCHANGED <<error, exception>>
  BY DEF TrySubmit, MainFree, Idle
<1>3. r \notin Listed
  BY <1>1, <1>2 DEF OutstandingIsOwed
<1>4. Listed' = Listed \cup {r}
  <2> DEFINE n == Len(unhandled)
  <2>1. /\ n \in Nat /\ DOMAIN unhandled = 1 .. n /\ DOMAIN unhandled' = 1 .. n + 1
        /\ \A i \in 1 .. n : unhandled'[i] = unhandled[i]
        /\ unhandled'[n + 1] = r
    BY <1>1, <1>2 DEF TypeOK
  <2> HIDE DEF n
  <2>2. 1 .. n + 1 = 1 .. n \cup {n + 1}
    BY <2>1
  <2> QED
    BY <2>1, <2>2 DEF Listed
<1>5. \A s \in Requests \ {r} : Still(s)
  BY <1>1, <1>2, <1>4 DEF Still, TypeOK
<1>6. locked'[r] /\ told'[r] = "nothing" /\ \A s \in Requests \ {r} : told'[s] = told[s]
  BY <1>1, <1>2 DEF TypeOK
<1>7. /\ Stage(r) = "idle" /\ Stage(r)' = "submitted" /\ Verdict(r)' = Verdict(r)
      /\ Tells(r)' = "no verdict" /\ \A s \in Requests \ {r} : Tells(s)' = Tells(s)
      /\ Life = "open" /\ Life' = Life
  BY <1>2, <1>3, <1>4, <1>6 DEF Stage, Verdict, Tells, Life
<1> DEFINE S == [s \in Requests |-> Stage(s)]
           T == [s \in Requests |-> Stage(s)']
           V == [s \in Requests |-> Verdict(s)]
           W == [s \in Requests |-> Verdict(s)']
           X == [s \in Requests |-> Tells(s)]
           Y == [s \in Requests |-> Tells(s)']
<1>8. /\ T = [S EXCEPT ![r] = "submitted"] /\ W = V
      /\ Y = [X EXCEPT ![r] = "no verdict"]
  BY <1>5, <1>7, StillFacts
<1>9. Contract!Submit(r)
  BY <1>7, <1>8 DEF Contract!Submit, Stage, Verdict, Tells, Life
<1> QED
  BY <1>9 DEF Contract!Next

(* A submitter that throws takes its own submission back.                  *)
LEMMA WithdrawStep ==
  ASSUME IInv, Reentry # "throws", SubmitThrow
  PROVE  [Contract!Next]_(Contract!vars)
<1>1. /\ TypeOK /\ StackInv /\ LifeInv /\ ThrowInv /\ OutstandingIsOwed
  BY DEF IInv
<1>2. /\ life = "open" /\ Top \in Tasks /\ taskReq[Top] \in Requests
      /\ unhandled # <<>> /\ unhandled[Len(unhandled)] = taskReq[Top]
  BY <1>1, ThrowFacts
<1> PICK r \in Requests : r = taskReq[Top]
  BY <1>2
<1>3. /\ unhandled' = AllButLast(unhandled) /\ phase[Top] # "free" /\ Die(Top)
      /\ told' = told /\ life' = life
  BY DEF SubmitThrow
<1>4. Listed' = Listed \ {r}
  <2>1. LET d == AllButLast(unhandled) IN
        {d[j] : j \in DOMAIN d} =
            {unhandled[j] : j \in DOMAIN unhandled} \ {unhandled[Len(unhandled)]}
    BY <1>1, <1>2, AllButLastRange DEF TypeOK, OutstandingIsOwed
  <2> QED
    BY <1>2, <1>3, <2>1 DEF Listed
<1>5. r \in Listed
  <2>1. Len(unhandled) \in DOMAIN unhandled
    BY <1>1, <1>2, EmptySeq, LenProperties DEF TypeOK
  <2> QED
    BY <1>2, <2>1 DEF Listed
<1>6. \A s \in Requests \ {r} : Still(s)
  BY <1>1, <1>2, <1>3, <1>4, DieFacts DEF Still
<1>7. /\ Stage(r) # "idle" /\ Stage(r)' = "idle" /\ Verdict(r)' = "no verdict"
      /\ Life = "open" /\ Life' = Life
      /\ \A s \in Requests : Tells(s)' = Tells(s)
  BY <1>2, <1>3, <1>4, <1>5 DEF Stage, Verdict, Tells, Life
<1> DEFINE S == [s \in Requests |-> Stage(s)]
           T == [s \in Requests |-> Stage(s)']
           V == [s \in Requests |-> Verdict(s)]
           W == [s \in Requests |-> Verdict(s)']
           X == [s \in Requests |-> Tells(s)]
           Y == [s \in Requests |-> Tells(s)']
<1>8. T = [S EXCEPT ![r] = "idle"] /\ W = [V EXCEPT ![r] = "no verdict"] /\ Y = X
  BY <1>6, <1>7, StillFacts
<1>9. Contract!Withdraw(r)
  BY <1>2, <1>7, <1>8 DEF Contract!Withdraw, Stage, Verdict, Tells, Life
<1> QED
  BY <1>2, <1>9 DEF Contract!Next

LEMMA HandleStep ==
  ASSUME IInv, Handle
  PROVE  [Contract!Next]_(Contract!vars)
<1>1. OwnHyp /\ TypeOK /\ OutstandingIsOwed
  BY DEF IInv, OwnHyp
<1>2. life = "open" /\ unhandled[scan] \in Requests /\ unhandled[scan] \in Listed
  BY <1>1, HandleFacts
<1> PICK r \in Requests : r = unhandled[scan]
  BY <1>2
<1>3. /\ scan \in DOMAIN unhandled /\ ~locked[r]
      /\ locked' = [locked EXCEPT ![r] = TRUE]
      /\ exception' = [exception EXCEPT ![r] = FALSE]
      /\ told' = [told EXCEPT ![r] = HandlerFor(r)]
      /\ unhandled' = DropAt(unhandled, scan)
      /\ error' = error /\ life' = life
  BY DEF Handle
<1>4. Listed' = Listed \ {r}
  <2>1. LET d == DropAt(unhandled, scan) IN
        {d[j] : j \in DOMAIN d} =
            {unhandled[j] : j \in DOMAIN unhandled} \ {unhandled[scan]}
    BY <1>1, <1>2, <1>3, DropAtRange DEF TypeOK, OutstandingIsOwed
  <2> QED
    BY <1>2, <1>3, <2>1 DEF Listed
<1>5. \A s \in Requests \ {r} : Still(s)
  BY <1>1, <1>3, <1>4 DEF Still, TypeOK
<1>6. told'[r] = HandlerFor(r) /\ \A s \in Requests \ {r} : told'[s] = told[s]
  BY <1>1, <1>2, <1>3 DEF TypeOK
<1>7. HandlerFor(r) # "nothing"
  BY VerdictType DEF Reports
<1>8. /\ Stage(r) = "settled" /\ Stage(r)' = "idle"
      /\ Verdict(r) = HandlerFor(r) /\ Verdict(r)' = "no verdict"
      /\ Tells(r)' = HandlerFor(r) /\ \A s \in Requests \ {r} : Tells(s)' = Tells(s)
      /\ Life = "open" /\ Life' = Life
  BY <1>2, <1>3, <1>4, <1>6, <1>7 DEF Stage, Verdict, Tells, Life
<1> DEFINE S == [s \in Requests |-> Stage(s)]
           T == [s \in Requests |-> Stage(s)']
           V == [s \in Requests |-> Verdict(s)]
           W == [s \in Requests |-> Verdict(s)']
           X == [s \in Requests |-> Tells(s)]
           Y == [s \in Requests |-> Tells(s)']
<1>9. /\ T = [S EXCEPT ![r] = "idle"] /\ W = [V EXCEPT ![r] = "no verdict"]
      /\ Y = [X EXCEPT ![r] = V[r]]
  BY <1>2, <1>5, <1>8, StillFacts
<1>10. Contract!Handle(r)
  BY <1>8, <1>9 DEF Contract!Handle, Stage, Verdict, Tells, Life
<1> QED
  BY <1>2, <1>10 DEF Contract!Next

(* The destructor is through only when nothing is owed any more.           *)
LEMMA CloseStep ==
  ASSUME IInv, EndDestroy
  PROVE  [Contract!Next]_(Contract!vars)
<1>1. /\ life = "loading" /\ life' = "destroyed" /\ count = 0
      /\ unhandled' = <<>> /\ told' = told
  BY DEF EndDestroy, historyVars
<1>2. \A r \in Listed : ~locked[r]
  <2>1. \A t \in Tasks : phase[t] \in Uncounted
    BY <1>1, CountedFacts, FS_EmptySet DEF IInv, Counted
  <2>2. \A t \in Tasks : phase[t] \notin Owing
    BY <2>1 DEF Uncounted, Owing, Unstarted, Running
  <2> QED
    BY <2>2 DEF IInv, NothingStranded, Owed
<1>3. Listed' = {}
  BY <1>1 DEF Listed
<1>4. \A r \in Requests : /\ Stage(r) # "submitted"
                          /\ Stage(r)' = "idle" /\ Verdict(r)' = "no verdict"
                          /\ Tells(r)' = Tells(r)
  BY <1>1, <1>2, <1>3 DEF Stage, Verdict, Tells
<1>5. Life = "closing" /\ Life' = "closed"
  BY <1>1 DEF Life
<1> DEFINE S == [s \in Requests |-> Stage(s)]
           T == [s \in Requests |-> Stage(s)']
           W == [s \in Requests |-> Verdict(s)']
           X == [s \in Requests |-> Tells(s)]
           Y == [s \in Requests |-> Tells(s)']
<1>6. /\ T = [r \in Requests |-> "idle"] /\ W = [r \in Requests |-> "no verdict"]
      /\ Y = X /\ \A r \in Requests : S[r] # "submitted"
  BY <1>4
<1>7. Contract!EndClose
  BY <1>5, <1>6 DEF Contract!EndClose, Stage, Verdict, Tells, Life
<1> QED
  BY <1>7 DEF Contract!Next

LEMMA ContractStep ==
  ASSUME IInv, Reentry # "throws", [Next]_vars
  PROVE  [Contract!Next]_(Contract!vars)
<1>1. OwnHyp /\ TypeOK
  BY DEF IInv, OwnHyp
<1>2. ASSUME NEW r \in Requests, SubmitHookThrows(r)
      PROVE  [Contract!Next]_(Contract!vars)
  <2>1. /\ r \notin Listed /\ Listed' = Listed /\ told' = told /\ Life' = Life
        /\ locked' = [locked EXCEPT ![r] = TRUE] /\ UNCHANGED <<error, exception>>
    BY <1>1, <1>2 DEF SubmitHookThrows, MainFree, Idle, OwnHyp, OutstandingIsOwed,
       mainVars, historyVars, Listed, Life
  <2>2. \A s \in Requests \ {r} : Still(s)
    BY <1>1, <2>1 DEF Still, TypeOK
  <2> QED
    BY <2>1, <2>2, OneMoves
<1>3. CASE SubmitReturnLast
  <2> DEFINE r == taskReq[Top]
  <2>1. /\ Top \in Tasks /\ phase[Top] \in {"offered", "spent"} /\ Die(Top)
        /\ Listed' = Listed /\ told' = told /\ Life' = Life
    BY <1>1, <1>3, TopFacts DEF SubmitReturnLast, mainVars, Listed, Life
  <2>2. r \in Requests
    BY <1>1, <2>1 DEF OwnHyp, StackInv
  <2>3. CASE phase[Top] = "offered"
    <3>1. locked[r]
      BY <1>1, <2>1, <2>3 DEF OwnHyp, TaskOwnsRequest, Owing, Unstarted
    <3>2. \A s \in Requests \ {r} : Still(s)
      BY <1>1, <2>1, DieFacts DEF OwnHyp, Still
    <3> QED
      BY <2>1, <2>2, <3>1, <3>2, OneMoves
  <2>4. CASE phase[Top] = "spent"
    <3>1. \A s \in Requests : Still(s)
      BY <2>1, <2>4 DEF Die, Unstarted, Still
    <3> QED
      BY <2>1, <3>1, NoneMoves
  <2> QED
    BY <2>1, <2>3, <2>4
<1>4. CASE \/ \E r \in Requests, b \in Bodies : TryUpdatePostdata(r, b)
           \/ \E r \in Requests : Cancel(r)
           \/ SubmitReturn \/ CancelAll \/ StartPoll \/ ScanEnd \/ ScanPast
           \/ DestroyLoad \/ DestroyCompare \/ UNCHANGED vars
  <2>1. UNCHANGED <<locked, error, exception, unhandled, told>> /\ Life' = Life
    BY <1>4 DEF TryUpdatePostdata, Cancel, SubmitReturn, CancelAll, StartPoll,
       ScanEnd,
       ScanPast, DestroyLoad, DestroyCompare, vars, requestVars, historyVars,
       mainVars, Life
  <2>2. \A s \in Requests : Still(s)
    BY <2>1 DEF Still, Listed
  <2> QED
    BY <2>1, <2>2, NoneMoves
<1>5. CASE BeginDestroy
  <2>1. /\ UNCHANGED <<locked, error, exception, unhandled, told>>
        /\ Life = "open" /\ Life' = "closing"
    BY <1>5 DEF BeginDestroy, MainFree, Life
  <2>2. \A s \in Requests : Still(s)
    BY <2>1 DEF Still, Listed
  <2> DEFINE S == [r \in Requests |-> Stage(r)]
             T == [r \in Requests |-> Stage(r)']
             V == [r \in Requests |-> Verdict(r)]
             W == [r \in Requests |-> Verdict(r)']
             X == [r \in Requests |-> Tells(r)]
             Y == [r \in Requests |-> Tells(r)']
  <2>3. S = T /\ V = W
    BY <2>2, StillFacts
  <2>4. X = Y
    BY <2>1 DEF Tells
  <2>5. Contract!BeginClose
    BY <2>1, <2>3, <2>4 DEF Contract!BeginClose, Stage, Verdict, Tells, Life
  <2> QED
    BY <2>5 DEF Contract!Next
<1> DEFINE Goal == [Contract!Next]_(Contract!vars)
<1>6. Goal
  <2> HIDE DEF Goal
  <2>1. ASSUME NEW r \in Requests, NEW t \in Tasks, TrySubmit(r, t)
        PROVE  Goal
    BY <2>1, SubmitStep DEF Goal
  <2>2. ASSUME NEW t \in Tasks, TaskNext(t)
        PROVE  Goal
    BY <2>2, TaskMovesOne DEF Goal
  <2>3. CASE SubmitThrow
    BY <2>3, WithdrawStep DEF Goal
  <2>4. CASE Handle
    BY <2>4, HandleStep DEF Goal
  <2>5. CASE EndDestroy
    BY <2>5, CloseStep DEF Goal
  <2>6. CASE \/ \E r \in Requests : SubmitHookThrows(r)
             \/ SubmitReturnLast \/ BeginDestroy
    BY <1>2, <1>3, <1>5, <2>6 DEF Goal
  <2>7. CASE \/ \E r \in Requests, b \in Bodies : TryUpdatePostdata(r, b)
             \/ \E r \in Requests : Cancel(r)
             \/ SubmitReturn \/ CancelAll \/ StartPoll \/ ScanEnd \/ ScanPast
             \/ DestroyLoad \/ DestroyCompare \/ UNCHANGED vars
    BY <1>4, <2>7 DEF Goal
  <2> QED
    BY <2>1, <2>2, <2>3, <2>4, <2>5, <2>6, <2>7 DEF Next, MainNext
<1> QED
  BY <1>6

(* To main a curl_context is an HttpContext whose destructor waits: one    *)
(* answer for each submission, settled before main is told it and told     *)
(* once, and none for a submission its submitter took back by throwing.    *)
THEOREM ContextKeepsContract ==
  ASSUME Reentry # "throws"
  PROVE  Spec => ImplementsContract
<1>1. Init => Contract!Init
  BY DEF Init, Listed, Contract!Init
<1>2. IInv /\ [Next]_vars => [Contract!Next]_(Contract!vars)
  BY ContractStep
<1> QED
  BY <1>1, <1>2, ContextIsSafe, PTL DEF Spec, ImplementsContract, Contract!Spec

=============================================================================
