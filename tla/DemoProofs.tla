------------------------------ MODULE DemoProofs ------------------------------
EXTENDS Demo, TLAPS

-----------------------------------------------------------------------------
(* The inductive invariant.                                                *)

Submitted == {Program[i] : i \in 1..(next - 1)}

(* A request submitted is owed or told; the others are untouched.          *)
OwedOrTold ==
    \A r \in Requests :
        /\ r \in Submitted => stage[r] # "idle" \/ told[r] # NoVerdict
        /\ r \notin Submitted => stage[r] = "idle" /\ told[r] = NoVerdict
        /\ stage[r] = "settled" => verdict[r] # NoVerdict

(* Main is past its polling only with nothing owed, or having failed.      *)
PollsToTheEnd ==
    /\ backend = "null" => next = 1
    /\ failed => backend = "null" /\ at # "submitting"
    /\ ~failed /\ at # "submitting" => next = Len(Program) + 1
    /\ ~failed /\ at \notin {"submitting", "polling"} =>
          \A r \in Requests : told[r] # NoVerdict
    /\ status = "EXIT_SUCCESS" => ~failed /\ at = "exited"
    /\ status = "EXIT_FAILURE" => failed

IInv == TypeOK /\ OwedOrTold /\ PollsToTheEnd

-----------------------------------------------------------------------------

LEMMA ProgramFacts ==
  /\ Len(Program) \in Nat /\ DOMAIN Program = 1..Len(Program)
  /\ \A i \in 1..Len(Program) : Program[i] \in Requests
BY ProgramAssumption DEF Requests

LEMMA SubmittedFacts ==
  ASSUME next \in 1..(Len(Program) + 1)
  PROVE  /\ next = 1 => Submitted = {}
         /\ next = Len(Program) + 1 => Submitted = Requests
         /\ next' = next => Submitted' = Submitted
         /\ next <= Len(Program) /\ next' = next + 1 =>
               /\ Program[next] \in Requests \ Submitted
               /\ Submitted' = Submitted \cup {Program[next]}
<1>1. next = 1 => Submitted = {}
  BY DEF Submitted
<1>2. next = Len(Program) + 1 => Submitted = Requests
  BY ProgramFacts DEF Submitted, Requests
<1>3. next' = next => Submitted' = Submitted
  BY DEF Submitted
<1>4. ASSUME next <= Len(Program), next' = next + 1
      PROVE  /\ Program[next] \in Requests \ Submitted
             /\ Submitted' = Submitted \cup {Program[next]}
  <2>1. next \in 1..Len(Program) /\ next \notin 1..(next - 1)
    BY <1>4, ProgramFacts
  <2>2. \A i \in 1..(next - 1) : i \in 1..Len(Program)
    BY <1>4, ProgramFacts
  <2>3. Program[next] \notin Submitted
    BY <2>1, <2>2, ProgramFacts, ProgramAssumption DEF Submitted
  <2>4. 1..(next' - 1) = 1..(next - 1) \cup {next}
    BY <1>4, <2>1, ProgramFacts
  <2> QED
    BY <2>1, <2>3, <2>4, ProgramFacts DEF Submitted
<1> QED
  BY <1>1, <1>2, <1>3, <1>4

(* A step of the context changes one request's stage.                      *)
LEMMA SettleFacts ==
  ASSUME TypeOK, NEW r \in Requests, Settle(r)
  PROVE  /\ Context!TypeOK'
         /\ stage[r] = "submitted" /\ stage' = [stage EXCEPT ![r] = "settled"]
         /\ \E v \in Verdicts : verdict' = [verdict EXCEPT ![r] = v]
         /\ told' = told
         /\ UNCHANGED <<backend, at, next, failed, threads, status>>
BY DEF TypeOK, Context!TypeOK, Settle, Context!Settle

LEMMA TypeStep ==
  ASSUME TypeOK, [Next]_vars
  PROVE  TypeOK'
<1>1. /\ Context!TypeOK /\ next \in 1..(Len(Program) + 1)
      /\ Len(Program) \in Nat
  BY ProgramFacts DEF TypeOK
<1>2. CASE Submit
  <2>1. Program[next] \in Requests /\ next' \in 1..(Len(Program) + 1)
    BY <1>1, <1>2, ProgramFacts DEF Submit
  <2> QED
    BY <1>1, <1>2, <2>1 DEF Submit, Context!Submit, Context!TypeOK, TypeOK
<1>3. CASE Poll
  BY <1>3 DEF Poll, Context!Handle, Context!TypeOK, TypeOK
<1>4. CASE Refused \/ AllSubmitted \/ NothingOutstanding \/ JoinAndExit
  BY <1>4 DEF Refused, AllSubmitted, NothingOutstanding, JoinAndExit, contextVars,
     Context!TypeOK, TypeOK
<1>5. CASE CancelAndDestroy \/ Destroyed
  BY <1>5 DEF CancelAndDestroy, Destroyed, Context!BeginClose, Context!EndClose,
     Context!TypeOK, TypeOK
<1>6. ASSUME NEW r \in Requests, Settle(r)
      PROVE  TypeOK'
  BY <1>6, SettleFacts DEF TypeOK
<1>7. ASSUME NEW r \in Requests, ThreadEnds(r)
      PROVE  TypeOK'
  BY <1>7 DEF ThreadEnds, contextVars, Context!TypeOK, TypeOK
<1>8. CASE UNCHANGED vars
  BY <1>8 DEF vars, contextVars, Context!TypeOK, TypeOK
<1> QED
  BY <1>2, <1>3, <1>4, <1>5, <1>6, <1>7, <1>8 DEF Next, MainNext

LEMMA OwedStep ==
  ASSUME IInv, [Next]_vars
  PROVE  OwedOrTold'
<1>1. /\ next \in 1..(Len(Program) + 1)
      /\ stage \in [Requests -> {"idle", "submitted", "settled"}]
      /\ verdict \in [Requests -> Verdicts \cup {NoVerdict}]
      /\ told \in [Requests -> Verdicts \cup {NoVerdict}]
  BY DEF IInv, TypeOK, Context!TypeOK
<1>2. NoVerdict \notin Verdicts
  BY DEF NoVerdict, Verdicts
<1>3. CASE Submit
  <2>1. /\ Program[next] \in Requests \ Submitted
        /\ Submitted' = Submitted \cup {Program[next]}
    BY <1>1, <1>3, SubmittedFacts DEF Submit
  <2> QED
    BY <1>1, <1>3, <2>1 DEF Submit, Context!Submit, IInv, OwedOrTold
<1>4. CASE Poll
  <2>1. PICK r \in Requests : Context!Handle(r)
    BY <1>4 DEF Poll
  <2>2. Submitted' = Submitted
    BY <1>1, <1>4, SubmittedFacts DEF Poll
  <2> QED
    BY <1>1, <2>1, <2>2 DEF Context!Handle, IInv, OwedOrTold
<1>5. ASSUME UNCHANGED <<contextVars, next>>
      PROVE  OwedOrTold'
  BY <1>1, <1>5, SubmittedFacts DEF contextVars, IInv, OwedOrTold
<1>6. CASE CancelAndDestroy
  <2>1. Submitted' = Submitted
    BY <1>1, <1>6, SubmittedFacts DEF CancelAndDestroy
  <2> QED
    BY <1>6, <2>1 DEF CancelAndDestroy, Context!BeginClose, IInv, OwedOrTold
<1>7. CASE Destroyed
  <2>1. /\ at = "destroying" /\ told' = told
        /\ stage' = [r \in Requests |-> "idle"]
        /\ Submitted' = Submitted
    BY <1>1, <1>7, SubmittedFacts DEF Destroyed, Context!EndClose
  <2>2. \A r \in Submitted : r \in Requests => told[r] # NoVerdict
    <3>1. CASE failed
      BY <1>1, <3>1, SubmittedFacts DEF IInv, PollsToTheEnd
    <3>2. CASE ~failed
      BY <2>1, <3>2 DEF IInv, PollsToTheEnd
    <3> QED
      BY <3>1, <3>2
  <2> QED
    BY <2>1, <2>2 DEF IInv, OwedOrTold
<1>8. ASSUME NEW r \in Requests, Settle(r)
      PROVE  OwedOrTold'
  <2>1. Submitted' = Submitted
    BY <1>1, <1>8, SubmittedFacts, SettleFacts DEF IInv
  <2> QED
    BY <1>1, <1>2, <1>8, <2>1, SettleFacts DEF IInv, OwedOrTold
<1> QED
  BY <1>3, <1>4, <1>5, <1>6, <1>7, <1>8
  DEF Next, MainNext, Refused, AllSubmitted, NothingOutstanding, JoinAndExit,
      ThreadEnds, vars

LEMMA PollsStep ==
  ASSUME IInv, [Next]_vars
  PROVE  PollsToTheEnd'
<1>1. /\ next \in 1..(Len(Program) + 1) /\ Len(Program) \in Nat
      /\ failed \in BOOLEAN
  BY ProgramFacts DEF IInv, TypeOK
<1>2. CASE Submit \/ Refused \/ AllSubmitted
  BY <1>1, <1>2 DEF Submit, Refused, AllSubmitted, IInv, PollsToTheEnd
<1>3. CASE Poll
  BY <1>3 DEF Poll, IInv, PollsToTheEnd
<1>4. CASE NothingOutstanding
  <2>1. ASSUME ~failed, NEW r \in Requests
        PROVE  told[r] # NoVerdict
    <3>1. Submitted = Requests
      BY <1>1, <1>4, <2>1, SubmittedFacts
      DEF NothingOutstanding, IInv, PollsToTheEnd
    <3>2. stage[r] = "idle"
      BY <1>4, <2>1 DEF NothingOutstanding, Outstanding
    <3> QED
      BY <3>1, <3>2 DEF IInv, OwedOrTold
  <2> QED
    BY <1>4, <2>1 DEF NothingOutstanding, contextVars, IInv, PollsToTheEnd
<1>5. CASE CancelAndDestroy \/ Destroyed \/ JoinAndExit
  BY <1>5 DEF CancelAndDestroy, Destroyed, JoinAndExit, contextVars,
     Context!BeginClose, Context!EndClose, IInv, PollsToTheEnd
<1>6. ASSUME NEW r \in Requests, Settle(r)
      PROVE  PollsToTheEnd'
  BY <1>6, SettleFacts DEF IInv, PollsToTheEnd
<1>7. CASE (\E r \in Requests : ThreadEnds(r)) \/ UNCHANGED vars
  BY <1>7 DEF ThreadEnds, vars, contextVars, IInv, PollsToTheEnd
<1> QED
  BY <1>2, <1>3, <1>4, <1>5, <1>6, <1>7 DEF Next, MainNext

LEMMA InvInit == Init => IInv
<1> SUFFICES ASSUME Init
             PROVE  IInv
  OBVIOUS
<1>1. TypeOK
  <2>1. Context!TypeOK
    BY DEF Init, Context!Init, Context!TypeOK
  <2>2. next \in 1..(Len(Program) + 1)
    BY ProgramFacts DEF Init
  <2> QED
    BY <2>1, <2>2 DEF Init, TypeOK
<1>2. OwedOrTold
  <2>1. Submitted = {}
    BY DEF Init, Submitted
  <2> QED
    BY <2>1 DEF Init, Context!Init, OwedOrTold
<1>3. PollsToTheEnd
  BY DEF Init, PollsToTheEnd
<1> QED
  BY <1>1, <1>2, <1>3 DEF IInv

(* The exit status is honest for every program of distinct requests, with  *)
(* either backend: main polls to the end, and the exit code says so.       *)
THEOREM ExitStatusIsAlwaysHonest == Spec => []ExitStatusIsHonest
<1>1. IInv /\ [Next]_vars => IInv'
  BY TypeStep, OwedStep, PollsStep DEF IInv
<1>2. IInv => ExitStatusIsHonest
  <2> SUFFICES ASSUME IInv
               PROVE  ExitStatusIsHonest
    OBVIOUS
  <2>1. status = "EXIT_SUCCESS" => \A r \in Requests : told[r] # NoVerdict
    BY DEF IInv, PollsToTheEnd
  <2>2. status = "EXIT_FAILURE" => Submitted = {}
    BY SubmittedFacts DEF IInv, PollsToTheEnd, TypeOK
  <2> QED
    BY <2>1, <2>2 DEF ExitStatusIsHonest, IInv, OwedOrTold
<1> QED
  BY InvInit, <1>1, <1>2, PTL DEF Spec

=============================================================================
