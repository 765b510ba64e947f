-------------------------- MODULE FetchContextProofs --------------------------
EXTENDS FetchContext, RemovalLemmas, TLAPS

-----------------------------------------------------------------------------
(* The inductive invariant.                                                *)

Busy == {"offered", "kept", "started"}

(* Where main is; only inside the submitter is a worker half on offer.     *)
MainInv ==
    /\ main \in {Loop} \cup {Submitter(r) : r \in Requests}
                 \cup {Poll(at, i) : at \in {"aborting", "claiming"}, i \in Nat \ {0}}
    /\ main # Loop => life = "open"
    /\ \A r \in Requests :
          /\ half[r] = "offered" => main = Submitter(r)
          /\ main = Submitter(r) => inFlight[r] /\ half[r] \in Busy \cup {"spent"}

(* The list is what is in flight.                                          *)
ListInv ==
    /\ \A i, j \in 1..Len(unhandled) : unhandled[i] = unhandled[j] => i = j
    /\ life = "open" => \A r \in Requests : inFlight[r] <=> r \in Listed

(* A request in flight is fetching, then its half is busy, then unlocked.  *)
PhaseInv ==
    \A r \in Requests :
        /\ fetching[r] => /\ life = "open" /\ inFlight[r] /\ locked[r]
                          /\ half[r] = "none" /\ body[r] = sent[r]
        /\ half[r] \in Busy => inFlight[r] /\ locked[r]
        /\ inFlight[r] /\ locked[r] => error[r] = "none"
        /\ inFlight[r] /\ locked[r] /\ life = "open" =>
              fetching[r] \/ half[r] \in Busy
        /\ inFlight[r] /\ ~locked[r] /\ half[r] = "none" => error[r] = "cancelled"
        /\ ~inFlight[r] => locked[r]
        /\ inFlight[r] => told[r] = Untold

(* Every throw is captured; without the submitter's, the first one.        *)
CaptureInv ==
    \A r \in Requests :
        /\ inFlight[r] => (exception[r] # 0 <=> thrown[r] > 0)
        /\ ~SubmitterThrows => exception[r] \in {0, 1}

(* A cancellation is timely if it came before the half began, and then the *)
(* half never tells the handler of a response.                             *)
CancelInv ==
    \A r \in Requests :
        /\ timely[r] => ~heard[r]
        /\ half[r] = "started" => heard[r]
        /\ inFlight[r] /\ half[r] \notin {"started", "spent"} => ~heard[r]
        /\ inFlight[r] /\ timely[r] => cancelled[r]
        /\ inFlight[r] /\ half[r] \notin {"started", "spent"} /\ cancelled[r] =>
              timely[r]
        /\ inFlight[r] /\ ~locked[r] /\ timely[r] => error[r] = "cancelled"

(* What an unlocked request will tell, unless it threw.                    *)
Settled(r) ==
    /\ error[r] = "none" =>
          /\ heard[r] /\ answer[r].copied /\ ~dropped[r] /\ ~Failed(r)
          /\ config[r].resume => answer[r].status = 206
    /\ error[r] \in {"timed_out", "network_error"} =>
          heard[r] /\ answer[r].status = 0
    /\ error[r] = "http_error" =>
          heard[r] /\ answer[r].status >= 400 /\ config[r].fail_on_http_error
    /\ error[r] = "range_not_satisfied" =>
          heard[r] /\ config[r].resume /\ answer[r].status # 206
    /\ error[r] = "cancelled" => ~heard[r] /\ (timely[r] \/ dropped[r])
    /\ error[r] = "handler_threw" => exception[r] # 0

Accounted(r) ==
    /\ half[r] \in Unrun /\ ~answer[r].copied => cancelled[r]
    /\ half[r] = "started" => answer[r].copied
    /\ inFlight[r] /\ half[r] # "spent" => ~dropped[r]
    /\ inFlight[r] /\ ~locked[r] => Settled(r)

AnswerInv == \A r \in Requests : Accounted(r)

FirstToldInv == ~SubmitterThrows => FirstExceptionIsTold

IInv ==
    /\ TypeOK
    /\ MainInv /\ ListInv /\ PhaseInv /\ CaptureInv /\ CancelInv /\ AnswerInv
    /\ TimelyCancelWins /\ ToldWhatHappened /\ FirstToldInv

-----------------------------------------------------------------------------
(* Main, the list and the steps that read them.                            *)

LEMMA MainValues ==
  /\ \A r : Submitter(r) # Loop
  /\ \A r, s : Submitter(r) = Submitter(s) => r = s
  /\ \A at, i : /\ Poll(at, i).at = at /\ Poll(at, i).index = i
                /\ \A r : at \in {"aborting", "claiming"} => Poll(at, i) # Submitter(r)
                /\ at \in {"aborting", "claiming"} => Poll(at, i) # Loop
  /\ Loop.at = "loop" /\ \A r : Submitter(r).at = "submitter"
BY DEF Submitter, Loop, Poll

LEMMA ListedFacts ==
  ASSUME unhandled \in Seq(Requests)
  PROVE  /\ Len(unhandled) \in Nat
         /\ Listed \subseteq Requests
         /\ \A r : r \in Listed <=> \E i \in 1..Len(unhandled) : unhandled[i] = r
BY DEF Listed, Range

LEMMA PollFacts ==
  ASSUME TypeOK, MainInv, ListInv, main.at \in {"aborting", "claiming"}
  PROVE  /\ life = "open"
         /\ main = Poll(main.at, main.index) /\ main.index \in Nat \ {0}
         /\ ~Beyond(main.index) =>
               /\ main.index \in 1..Len(unhandled)
               /\ unhandled[main.index] \in Requests
               /\ inFlight[unhandled[main.index]]
<1>1. unhandled \in Seq(Requests)
  BY DEF TypeOK
<1>2. /\ main = Poll(main.at, main.index) /\ main.index \in Nat \ {0}
      /\ main # Loop
  BY MainValues DEF MainInv
<1>3. life = "open"
  BY <1>2 DEF MainInv
<1>4. ASSUME ~Beyond(main.index)
      PROVE  /\ main.index \in 1..Len(unhandled)
             /\ unhandled[main.index] \in Requests
             /\ inFlight[unhandled[main.index]]
  <2>1. main.index \in 1..Len(unhandled)
    BY <1>2, <1>4, <1>1, ListedFacts DEF Beyond
  <2>2. unhandled[main.index] \in Listed
    BY <1>1, <2>1, ListedFacts
  <2> QED
    BY <1>1, <1>3, <2>1, <2>2, ListedFacts DEF ListInv
<1> QED
  BY <1>2, <1>3, <1>4

(* A poll that only moves on.                                              *)
Looks == StartPoll \/ AbortsDone \/ ClaimNext \/ PollEnd

LEMMA LooksFacts ==
  ASSUME TypeOK, MainInv, ListInv, Looks
  PROVE  /\ life = "open"
         /\ \/ main' = Loop
            \/ \E at \in {"aborting", "claiming"}, i \in Nat \ {0} : main' = Poll(at, i)
         /\ \A r : main # Submitter(r)
         /\ UNCHANGED <<life, unhandled, config, fetching, inFlight, cancelled,
                        locked, error, exception, body, answer, half, sent, thrown,
                        timely, heard, dropped, told>>
<1>1. UNCHANGED <<life, unhandled, config, fetching, inFlight, cancelled,
                  locked, error, exception, body, answer, half, sent, thrown,
                  timely, heard, dropped, told>>
  BY DEF Looks, StartPoll, AbortsDone, ClaimNext, PollEnd, flags, history
<1>2. CASE StartPoll
  BY <1>1, <1>2, MainValues DEF StartPoll, InLoop
<1>3. CASE AbortsDone \/ ClaimNext \/ PollEnd
  <2>1. main.at \in {"aborting", "claiming"}
    BY <1>3 DEF AbortsDone, ClaimNext, PollEnd
  <2>2. \/ main' = Loop
        \/ main' = Poll("claiming", 1)
        \/ main' = Poll("claiming", main.index + 1)
    BY <1>3 DEF AbortsDone, ClaimNext, PollEnd
  <2>3. main.index + 1 \in Nat \ {0} /\ 1 \in Nat \ {0}
    BY <2>1, PollFacts
  <2>4. \A r : main # Submitter(r)
    BY <2>1, PollFacts, MainValues
  <2> QED
    BY <1>1, <2>1, <2>2, <2>3, <2>4, PollFacts
<1> QED
  BY <1>2, <1>3 DEF Looks

(* main_abort_if_cancelled finds one to abort, or it does not.             *)
LEMMA AbortFacts ==
  ASSUME TypeOK, MainInv, ListInv, AbortStep
  PROVE  /\ life = "open"
         /\ \E i \in Nat \ {0} : main' = Poll("aborting", i)
         /\ \A r : main # Submitter(r)
         /\ \/ UNCHANGED <<fetching, error, locked>>
            \/ \E r \in Requests :
                  /\ inFlight[r] /\ cancelled[r] /\ fetching[r]
                  /\ fetching' = [fetching EXCEPT ![r] = FALSE]
                  /\ error' = [error EXCEPT ![r] = "cancelled"]
                  /\ locked' = [locked EXCEPT ![r] = FALSE]
         /\ UNCHANGED <<life, unhandled, config, inFlight, cancelled, exception,
                        body, answer, half, sent, thrown, timely, heard,
                        dropped, told>>
<1>1. /\ main.at \in {"aborting", "claiming"} /\ ~Beyond(main.index)
      /\ main' = Poll("aborting", main.index + 1)
  BY DEF AbortStep
<1>2. main.index + 1 \in Nat \ {0} /\ \A r : main # Submitter(r)
  BY <1>1, PollFacts, MainValues
<1>3. unhandled[main.index] \in Requests /\ life = "open"
  BY <1>1, PollFacts
<1> QED
  BY <1>1, <1>2, <1>3 DEF AbortStep, history

LEMMA HandleFacts ==
  ASSUME TypeOK, MainInv, ListInv, Handle
  PROVE  /\ main' = Loop /\ life = "open"
         /\ \A r : main # Submitter(r)
         /\ unhandled' \in Seq(Requests)
         /\ \A i, j \in 1..Len(unhandled') : unhandled'[i] = unhandled'[j] => i = j
         /\ \E r \in Requests :
               /\ inFlight[r] /\ ~locked[r]
               /\ Listed' = Listed \ {r}
               /\ locked' = [locked EXCEPT ![r] = TRUE]
               /\ inFlight' = [inFlight EXCEPT ![r] = FALSE]
               /\ fetching' = [fetching EXCEPT ![r] = FALSE]
               /\ exception' = [exception EXCEPT ![r] = 0]
               /\ told' = [told EXCEPT ![r] = Report(r)]
         /\ UNCHANGED <<life, config, cancelled, error, body, answer, half, sent,
                        thrown, timely, heard, dropped>>
<1> DEFINE i == main.index
           r == unhandled[i]
           n == Len(unhandled)
<1>1. /\ main.at \in {"aborting", "claiming"} /\ ~Beyond(i) /\ ~locked[r]
      /\ unhandled' = RemoveAt(unhandled, i) /\ main' = Loop
  BY DEF Handle, DropAt
<1>2. /\ i \in 1..n /\ r \in Requests /\ inFlight[r] /\ life = "open"
      /\ \A s : main # Submitter(s)
  BY <1>1, PollFacts, MainValues
<1>3. /\ unhandled \in Seq(Requests) /\ n \in Nat
      /\ \A s : s \in Listed <=> \E k \in 1..n : unhandled[k] = s
      /\ \A k, l \in 1..n : unhandled[k] = unhandled[l] => k = l
  BY ListedFacts DEF TypeOK, ListInv
<1>4. /\ unhandled' \in Seq(Requests) /\ Len(unhandled') = n - 1
      /\ \A j \in 1..(n - 1) :
            unhandled'[j] = IF j < i THEN unhandled[j] ELSE unhandled[j + 1]
  BY <1>1, <1>2, <1>3, RemoveAtFacts
<1>5. /\ unhandled' \in Seq(Requests) => 
            \A s : s \in Listed' <=> \E k \in 1..Len(unhandled') : unhandled'[k] = s
  BY DEF Listed, Range
<1> HIDE DEF i, n
<1>6. \A k, l \in 1..Len(unhandled') : unhandled'[k] = unhandled'[l] => k = l
  <2> SUFFICES ASSUME NEW k \in 1..(n - 1), NEW l \in 1..(n - 1),
                      unhandled'[k] = unhandled'[l]
               PROVE  k = l
    BY <1>4
  <2> DEFINE up(j) == IF j < i THEN j ELSE j + 1
  <2>1. up(k) \in 1..n /\ up(l) \in 1..n
    BY <1>2, <1>3
  <2>2. unhandled'[k] = unhandled[up(k)] /\ unhandled'[l] = unhandled[up(l)]
    BY <1>4
  <2>3. up(k) = up(l)
    <3> HIDE DEF up
    <3> QED
      BY <1>3, <2>1, <2>2
  <2> QED
    BY <1>2, <1>3, <2>3
<1>7. Listed' = Listed \ {r}
  <2>1. ASSUME NEW s \in Listed'
        PROVE  s \in Listed \ {r}
    <3>1. PICK k \in 1..(n - 1) : unhandled'[k] = s
      BY <1>4, <1>5, <2>1
    <3> DEFINE m == IF k < i THEN k ELSE k + 1
    <3>2. m \in 1..n /\ m # i
      BY <1>2, <1>3
    <3>3. unhandled[m] = s
      BY <1>4, <3>1
    <3> HIDE DEF m
    <3> QED
      BY <1>2, <1>3, <3>2, <3>3
  <2>2. ASSUME NEW s \in Listed, s # r
        PROVE  s \in Listed'
    <3>1. PICK k \in 1..n : unhandled[k] = s
      BY <1>3, <2>2
    <3>2. k # i
      BY <2>2, <3>1
    <3> DEFINE m == IF k < i THEN k ELSE k - 1
    <3>3. m \in 1..(n - 1) /\ k = IF m < i THEN m ELSE m + 1
      BY <1>2, <1>3, <3>2
    <3>4. unhandled'[m] = s
      <4> HIDE DEF m
      <4>1. unhandled'[m] = IF m < i THEN unhandled[m] ELSE unhandled[m + 1]
        BY <1>4, <3>3
      <4> QED
        BY <3>1, <3>3, <4>1
    <3> HIDE DEF m
    <3> QED
      BY <1>4, <1>5, <3>3, <3>4
  <2> QED
    BY <2>1, <2>2
<1> QED
  BY <1>1, <1>2, <1>4, <1>6, <1>7 DEF Handle, i

LEMMA TrySubmitFacts ==
  ASSUME TypeOK, ListInv, NEW r \in Requests, TrySubmit(r)
  PROVE  /\ unhandled' \in Seq(Requests)
         /\ Listed' = Listed \cup {r}
         /\ \A i, j \in 1..Len(unhandled') : unhandled'[i] = unhandled'[j] => i = j
<1> DEFINE n == Len(unhandled)
<1>1. /\ unhandled \in Seq(Requests) /\ n \in Nat
      /\ \A s : s \in Listed <=> \E k \in 1..n : unhandled[k] = s
      /\ \A k, l \in 1..n : unhandled[k] = unhandled[l] => k = l
      /\ r \notin Listed
  BY ListedFacts DEF TypeOK, ListInv, TrySubmit, MayTry
<1>2. /\ unhandled' \in Seq(Requests) /\ Len(unhandled') = n + 1
      /\ unhandled'[n + 1] = r
      /\ \A k \in 1..n : unhandled'[k] = unhandled[k]
  BY <1>1, AppendProperties DEF TrySubmit
<1>3. unhandled' \in Seq(Requests) =>
         \A s : s \in Listed' <=> \E k \in 1..Len(unhandled') : unhandled'[k] = s
  BY DEF Listed, Range
<1> HIDE DEF n
<1>4. 1..(n + 1) = 1..n \cup {n + 1}
  BY <1>1
<1>5. Listed' = Listed \cup {r}
  BY <1>1, <1>2, <1>3, <1>4
<1>6. \A k, l \in 1..(n + 1) : unhandled'[k] = unhandled'[l] => k = l
  BY <1>1, <1>2, <1>4
<1> QED
  BY <1>2, <1>5, <1>6

(* cancel, and cancel_all.                                                 *)
Cancels ==
    /\ \E S \in SUBSET Requests : CancelSet(S)
    /\ UNCHANGED <<life, unhandled, main, config, fetching, inFlight, locked,
                   error, exception, body, answer, half, sent, thrown, heard,
                   dropped, told>>

LEMMA CancelFacts ==
  ASSUME TypeOK, CancelAll \/ \E r \in Requests : Cancel(r)
  PROVE  Cancels
<1>1. Listed \subseteq Requests
  BY ListedFacts DEF TypeOK
<1>2. CASE CancelAll
  BY <1>1, <1>2 DEF CancelAll, Cancels
<1>3. CASE \E r \in Requests : Cancel(r)
  <2>1. PICK r \in Requests : Cancel(r)
    BY <1>3
  <2>2. {r} \in SUBSET Requests
    OBVIOUS
  <2> QED
    BY <2>1, <2>2 DEF Cancel, Cancels
<1> QED
  BY <1>2, <1>3

-----------------------------------------------------------------------------
(* The parts of the invariant.                                             *)

LEMMA MainStep ==
  ASSUME TypeOK, MainInv, ListInv, PhaseInv, [Next]_vars
  PROVE  MainInv'
<1>0. /\ half \in [Requests -> {"none", "offered", "kept", "started", "spent"}]
      /\ inFlight \in [Requests -> BOOLEAN]
      /\ fetching \in [Requests -> BOOLEAN]
  BY DEF TypeOK
<1>1. ASSUME NEW r \in Requests, TrySubmit(r)
      PROVE  MainInv'
  BY <1>0, <1>1, TrySubmitFacts, MainValues DEF TrySubmit, MayTry, Reset,
     InLoop, MainInv, Busy
<1>2. ASSUME NEW r \in Requests, SubmitRefused(r)
      PROVE  MainInv'
  BY <1>0, <1>2 DEF SubmitRefused, MayTry, Reset, history, InLoop, MainInv, Busy
<1>3. ASSUME NEW r \in Requests, NEW b \in Bodies, TryUpdatePostdata(r, b)
      PROVE  MainInv'
  BY <1>0, <1>3 DEF TryUpdatePostdata, history, MainInv, Busy
<1>4. ASSUME Cancels
      PROVE  MainInv'
  BY <1>0, <1>4 DEF Cancels, CancelSet, MainInv, Busy
<1>5. ASSUME NEW r \in Requests, OnProgress(r)
      PROVE  MainInv'
  BY <1>0, <1>5 DEF OnProgress, Capture, InLoop, MainInv, Busy
<1>6. ASSUME NEW r \in Requests, Answered(r)
      PROVE  MainInv'
  BY <1>0, <1>6, MainValues DEF Answered, OnAnswer, flags, history, InLoop,
     PhaseInv, MainInv, Busy
<1>7. ASSUME NEW r \in Requests, SubmitReturn(r)
      PROVE  MainInv'
  BY <1>0, <1>7, MainValues DEF SubmitReturn, Drop, Unrun, MainInv, Busy
<1>8. ASSUME NEW r \in Requests, SubmitThrow(r)
      PROVE  MainInv'
  BY <1>0, <1>8, MainValues DEF SubmitThrow, Drop, Unrun, MainInv, Busy
<1>9. ASSUME NEW r \in Requests, PoolDrop(r)
      PROVE  MainInv'
  BY <1>0, <1>9 DEF PoolDrop, Drop, Unrun, MainInv, Busy
<1>10. ASSUME NEW r \in Requests, HalfStart(r)
      PROVE  MainInv'
  BY <1>0, <1>10 DEF HalfStart, Unrun, MainInv, Busy
<1>11. ASSUME NEW r \in Requests, HalfEnd(r)
      PROVE  MainInv'
  BY <1>0, <1>11 DEF HalfEnd, HalfErrors, Capture, MainInv, Busy
<1>12. ASSUME Looks
      PROVE  MainInv'
  BY <1>0, <1>12, LooksFacts, MainValues DEF MainInv, Busy
<1>13. ASSUME AbortStep
      PROVE  MainInv'
  BY <1>0, <1>13, AbortFacts, MainValues DEF MainInv, Busy
<1>14. ASSUME Handle
      PROVE  MainInv'
  BY <1>0, <1>14, HandleFacts, MainValues DEF MainInv, Busy
<1>15. ASSUME BeginDestroy
      PROVE  MainInv'
  BY <1>0, <1>15, MainValues DEF BeginDestroy, CancelSet, InLoop, MainInv, Busy
<1>16. ASSUME EndDestroy
      PROVE  MainInv'
  BY <1>0, <1>16 DEF EndDestroy, flags, history, MainInv, Busy
<1>17. CASE UNCHANGED vars
  BY <1>17 DEF vars, flags, history, MainInv, Busy
<1> QED
  BY <1>1, <1>2, <1>3, <1>4, <1>5, <1>6, <1>7, <1>8, <1>9, <1>10, <1>11,
     <1>12, <1>13, <1>14, <1>15, <1>16, <1>17, CancelFacts
  DEF Next, Polling, Looks

LEMMA ListStep ==
  ASSUME TypeOK, MainInv, ListInv, [Next]_vars
  PROVE  ListInv'
<1>0. /\ inFlight \in [Requests -> BOOLEAN]
  BY DEF TypeOK
<1>1. ASSUME NEW r \in Requests, TrySubmit(r)
      PROVE  ListInv'
  <2>1. life' = life /\ life = "open"
        /\ inFlight' = [inFlight EXCEPT ![r] = TRUE]
    BY <1>1 DEF TrySubmit, MayTry
  <2>2. \A s \in Requests : inFlight[s] <=> s \in Listed
    BY <2>1 DEF ListInv
  <2>3. \A s \in Requests : inFlight'[s] <=> s \in Listed'
    BY <1>0, <1>1, <2>1, <2>2, TrySubmitFacts
  <2> QED
    BY <1>1, <2>3, TrySubmitFacts DEF ListInv
<1>2. ASSUME NEW r \in Requests, SubmitRefused(r)
      PROVE  ListInv'
  BY <1>0, <1>2 DEF SubmitRefused, MayTry, Reset, history, Listed, ListInv
<1>3. ASSUME NEW r \in Requests, NEW b \in Bodies, TryUpdatePostdata(r, b)
      PROVE  ListInv'
  BY <1>0, <1>3 DEF TryUpdatePostdata, history, Listed, ListInv
<1>4. ASSUME Cancels
      PROVE  ListInv'
  BY <1>0, <1>4 DEF Cancels, CancelSet, Listed, ListInv
<1>5. ASSUME NEW r \in Requests, OnProgress(r)
      PROVE  ListInv'
  BY <1>0, <1>5 DEF OnProgress, Capture, Listed, ListInv
<1>6. ASSUME NEW r \in Requests, Answered(r)
      PROVE  ListInv'
  BY <1>0, <1>6 DEF Answered, OnAnswer, flags, history, Listed, ListInv
<1>7. ASSUME NEW r \in Requests, SubmitReturn(r)
      PROVE  ListInv'
  BY <1>0, <1>7 DEF SubmitReturn, Drop, Unrun, Listed, ListInv
<1>8. ASSUME NEW r \in Requests, SubmitThrow(r)
      PROVE  ListInv'
  BY <1>0, <1>8 DEF SubmitThrow, Drop, Unrun, Listed, ListInv
<1>9. ASSUME NEW r \in Requests, PoolDrop(r)
      PROVE  ListInv'
  BY <1>0, <1>9 DEF PoolDrop, Drop, Unrun, Listed, ListInv
<1>10. ASSUME NEW r \in Requests, HalfStart(r)
      PROVE  ListInv'
  BY <1>0, <1>10 DEF HalfStart, Unrun, Listed, ListInv
<1>11. ASSUME NEW r \in Requests, HalfEnd(r)
      PROVE  ListInv'
  BY <1>0, <1>11 DEF HalfEnd, HalfErrors, Capture, Listed, ListInv
<1>12. ASSUME Looks
      PROVE  ListInv'
  BY <1>0, <1>12, LooksFacts DEF Listed, ListInv
<1>13. ASSUME AbortStep
      PROVE  ListInv'
  BY <1>0, <1>13, AbortFacts DEF Listed, ListInv
<1>14. ASSUME Handle
      PROVE  ListInv'
  BY <1>0, <1>14, HandleFacts DEF ListInv
<1>15. ASSUME BeginDestroy
      PROVE  ListInv'
  BY <1>0, <1>15 DEF BeginDestroy, CancelSet, Listed, ListInv
<1>16. ASSUME EndDestroy
      PROVE  ListInv'
  <2>1. Len(unhandled') = 0 /\ life' # "open"
    BY <1>16 DEF EndDestroy
  <2> QED
    BY <2>1 DEF ListInv
<1>17. CASE UNCHANGED vars
  BY <1>17 DEF vars, flags, history, Listed, ListInv
<1> QED
  BY <1>1, <1>2, <1>3, <1>4, <1>5, <1>6, <1>7, <1>8, <1>9, <1>10, <1>11,
     <1>12, <1>13, <1>14, <1>15, <1>16, <1>17, CancelFacts
  DEF Next, Polling, Looks

LEMMA PhaseStep ==
  ASSUME TypeOK, MainInv, ListInv, PhaseInv, [Next]_vars
  PROVE  PhaseInv'
<1>0. /\ fetching \in [Requests -> BOOLEAN]
      /\ inFlight \in [Requests -> BOOLEAN]
      /\ locked \in [Requests -> BOOLEAN]
      /\ error \in [Requests -> Errors]
      /\ half \in [Requests -> {"none", "offered", "kept", "started", "spent"}]
      /\ body \in [Requests -> Bodies]
      /\ sent \in [Requests -> Bodies]
      /\ told \in [Requests -> [report : Reports, exception : Throws] \cup {Untold}]
  BY DEF TypeOK
<1>1. ASSUME NEW r \in Requests, TrySubmit(r)
      PROVE  PhaseInv'
  BY <1>0, <1>1, TrySubmitFacts DEF TrySubmit, MayTry, Reset, PhaseInv, Busy
<1>2. ASSUME NEW r \in Requests, SubmitRefused(r)
      PROVE  PhaseInv'
  BY <1>0, <1>2 DEF SubmitRefused, MayTry, Reset, history, PhaseInv, Busy
<1>3. ASSUME NEW r \in Requests, NEW b \in Bodies, TryUpdatePostdata(r, b)
      PROVE  PhaseInv'
  BY <1>0, <1>3 DEF TryUpdatePostdata, history, PhaseInv, Busy
<1>4. ASSUME Cancels
      PROVE  PhaseInv'
  BY <1>0, <1>4 DEF Cancels, CancelSet, PhaseInv, Busy
<1>5. ASSUME NEW r \in Requests, OnProgress(r)
      PROVE  PhaseInv'
  BY <1>0, <1>5 DEF OnProgress, Capture, PhaseInv, Busy
<1>6. ASSUME NEW r \in Requests, Answered(r)
      PROVE  PhaseInv'
  BY <1>0, <1>6 DEF Answered, OnAnswer, flags, history, PhaseInv, Busy
<1>7. ASSUME NEW r \in Requests, SubmitReturn(r)
      PROVE  PhaseInv'
  BY <1>0, <1>7 DEF SubmitReturn, Drop, Unrun, PhaseInv, Busy
<1>8. ASSUME NEW r \in Requests, SubmitThrow(r)
      PROVE  PhaseInv'
  BY <1>0, <1>8 DEF SubmitThrow, Drop, Unrun, PhaseInv, Busy
<1>9. ASSUME NEW r \in Requests, PoolDrop(r)
      PROVE  PhaseInv'
  BY <1>0, <1>9 DEF PoolDrop, Drop, Unrun, PhaseInv, Busy
<1>10. ASSUME NEW r \in Requests, HalfStart(r)
      PROVE  PhaseInv'
  BY <1>0, <1>10 DEF HalfStart, Unrun, PhaseInv, Busy
<1>11. ASSUME NEW r \in Requests, HalfEnd(r)
      PROVE  PhaseInv'
  BY <1>0, <1>11 DEF HalfEnd, HalfErrors, Capture, PhaseInv, Busy
<1>12. ASSUME Looks
      PROVE  PhaseInv'
  BY <1>0, <1>12, LooksFacts DEF PhaseInv, Busy
<1>13. ASSUME AbortStep
      PROVE  PhaseInv'
  BY <1>0, <1>13, AbortFacts DEF PhaseInv, Busy
<1>14. ASSUME Handle
      PROVE  PhaseInv'
  BY <1>0, <1>14, HandleFacts DEF PhaseInv, Busy
<1>15. ASSUME BeginDestroy
      PROVE  PhaseInv'
  BY <1>0, <1>15 DEF BeginDestroy, CancelSet, ListInv, PhaseInv, Busy
<1>16. ASSUME EndDestroy
      PROVE  PhaseInv'
  BY <1>0, <1>16 DEF EndDestroy, flags, history, PhaseInv, Busy
<1>17. CASE UNCHANGED vars
  BY <1>17 DEF vars, flags, history, PhaseInv, Busy
<1> QED
  BY <1>1, <1>2, <1>3, <1>4, <1>5, <1>6, <1>7, <1>8, <1>9, <1>10, <1>11,
     <1>12, <1>13, <1>14, <1>15, <1>16, <1>17, CancelFacts
  DEF Next, Polling, Looks

LEMMA CaptureStep ==
  ASSUME TypeOK, MainInv, ListInv, PhaseInv, CaptureInv, [Next]_vars
  PROVE  CaptureInv'
<1>0. /\ inFlight \in [Requests -> BOOLEAN]
      /\ exception \in [Requests -> Throws]
      /\ thrown \in [Requests -> Throws]
      /\ half \in [Requests -> {"none", "offered", "kept", "started", "spent"}]
  BY DEF TypeOK
<1>1. ASSUME NEW r \in Requests, TrySubmit(r)
      PROVE  CaptureInv'
  BY <1>0, <1>1, TrySubmitFacts DEF TrySubmit, MayTry, Reset, CaptureInv,
     PhaseInv, Throws, Busy
<1>2. ASSUME NEW r \in Requests, SubmitRefused(r)
      PROVE  CaptureInv'
  BY <1>0, <1>2 DEF SubmitRefused, MayTry, Reset, history, CaptureInv,
     PhaseInv, Throws, Busy
<1>3. ASSUME NEW r \in Requests, NEW b \in Bodies, TryUpdatePostdata(r, b)
      PROVE  CaptureInv'
  BY <1>0, <1>3 DEF TryUpdatePostdata, history, CaptureInv, PhaseInv, Throws,
     Busy
<1>4. ASSUME Cancels
      PROVE  CaptureInv'
  BY <1>0, <1>4 DEF Cancels, CancelSet, CaptureInv, PhaseInv, Throws, Busy
<1>5. ASSUME NEW r \in Requests, OnProgress(r)
      PROVE  CaptureInv'
  BY <1>0, <1>5 DEF OnProgress, Capture, CaptureInv, PhaseInv, Throws, Busy
<1>6. ASSUME NEW r \in Requests, Answered(r)
      PROVE  CaptureInv'
  BY <1>0, <1>6 DEF Answered, OnAnswer, flags, history, CaptureInv, PhaseInv,
     Throws, Busy
<1>7. ASSUME NEW r \in Requests, SubmitReturn(r)
      PROVE  CaptureInv'
  BY <1>0, <1>7 DEF SubmitReturn, Drop, Unrun, CaptureInv, PhaseInv, Throws,
     Busy
<1>8. ASSUME NEW r \in Requests, SubmitThrow(r)
      PROVE  CaptureInv'
  BY <1>0, <1>8 DEF SubmitThrow, Drop, Unrun, MainInv, CaptureInv, PhaseInv,
     Throws, Busy
<1>9. ASSUME NEW r \in Requests, PoolDrop(r)
      PROVE  CaptureInv'
  BY <1>0, <1>9 DEF PoolDrop, Drop, Unrun, CaptureInv, PhaseInv, Throws, Busy
<1>10. ASSUME NEW r \in Requests, HalfStart(r)
      PROVE  CaptureInv'
  BY <1>0, <1>10 DEF HalfStart, Unrun, CaptureInv, PhaseInv, Throws, Busy
<1>11. ASSUME NEW r \in Requests, HalfEnd(r)
      PROVE  CaptureInv'
  BY <1>0, <1>11 DEF HalfEnd, HalfErrors, Capture, CaptureInv, PhaseInv,
     Throws, Busy
<1>12. ASSUME Looks
      PROVE  CaptureInv'
  BY <1>0, <1>12, LooksFacts DEF CaptureInv, PhaseInv, Throws, Busy
<1>13. ASSUME AbortStep
      PROVE  CaptureInv'
  BY <1>0, <1>13, AbortFacts DEF CaptureInv, PhaseInv, Throws, Busy
<1>14. ASSUME Handle
      PROVE  CaptureInv'
  BY <1>0, <1>14, HandleFacts DEF CaptureInv, PhaseInv, Throws, Busy
<1>15. ASSUME BeginDestroy
      PROVE  CaptureInv'
  BY <1>0, <1>15 DEF BeginDestroy, CancelSet, CaptureInv, PhaseInv, Throws, Busy
<1>16. ASSUME EndDestroy
      PROVE  CaptureInv'
  BY <1>0, <1>16 DEF EndDestroy, flags, history, CaptureInv, PhaseInv,
     Throws, Busy
<1>17. CASE UNCHANGED vars
  BY <1>17 DEF vars, flags, history, CaptureInv, PhaseInv, Throws, Busy
<1> QED
  BY <1>1, <1>2, <1>3, <1>4, <1>5, <1>6, <1>7, <1>8, <1>9, <1>10, <1>11,
     <1>12, <1>13, <1>14, <1>15, <1>16, <1>17, CancelFacts
  DEF Next, Polling, Looks

LEMMA CancelStep ==
  ASSUME TypeOK, MainInv, ListInv, PhaseInv, CancelInv, [Next]_vars
  PROVE  CancelInv'
<1>0. /\ fetching \in [Requests -> BOOLEAN]
      /\ inFlight \in [Requests -> BOOLEAN]
      /\ cancelled \in [Requests -> BOOLEAN]
      /\ locked \in [Requests -> BOOLEAN]
      /\ error \in [Requests -> Errors]
      /\ half \in [Requests -> {"none", "offered", "kept", "started", "spent"}]
      /\ timely \in [Requests -> BOOLEAN]
      /\ heard \in [Requests -> BOOLEAN]
  BY DEF TypeOK
<1>1. ASSUME NEW r \in Requests, TrySubmit(r)
      PROVE  CancelInv'
  BY <1>0, <1>1, TrySubmitFacts DEF TrySubmit, MayTry, Reset, CancelInv,
     PhaseInv, Busy
<1>2. ASSUME NEW r \in Requests, SubmitRefused(r)
      PROVE  CancelInv'
  BY <1>0, <1>2 DEF SubmitRefused, MayTry, Reset, history, CancelInv,
     PhaseInv, Busy
<1>3. ASSUME NEW r \in Requests, NEW b \in Bodies, TryUpdatePostdata(r, b)
      PROVE  CancelInv'
  BY <1>0, <1>3 DEF TryUpdatePostdata, history, CancelInv, PhaseInv, Busy
<1>4. ASSUME Cancels
      PROVE  CancelInv'
  BY <1>0, <1>4 DEF Cancels, CancelSet, CancelInv, PhaseInv, Busy
<1>5. ASSUME NEW r \in Requests, OnProgress(r)
      PROVE  CancelInv'
  BY <1>0, <1>5 DEF OnProgress, Capture, CancelInv, PhaseInv, Busy
<1>6. ASSUME NEW r \in Requests, Answered(r)
      PROVE  CancelInv'
  BY <1>0, <1>6 DEF Answered, OnAnswer, flags, history, CancelInv, PhaseInv,
     Busy
<1>7. ASSUME NEW r \in Requests, SubmitReturn(r)
      PROVE  CancelInv'
  BY <1>0, <1>7 DEF SubmitReturn, Drop, Unrun, CancelInv, PhaseInv, Busy
<1>8. ASSUME NEW r \in Requests, SubmitThrow(r)
      PROVE  CancelInv'
  BY <1>0, <1>8 DEF SubmitThrow, Drop, Unrun, CancelInv, PhaseInv, Busy
<1>9. ASSUME NEW r \in Requests, PoolDrop(r)
      PROVE  CancelInv'
  BY <1>0, <1>9 DEF PoolDrop, Drop, Unrun, CancelInv, PhaseInv, Busy
<1>10. ASSUME NEW r \in Requests, HalfStart(r)
      PROVE  CancelInv'
  BY <1>0, <1>10 DEF HalfStart, Unrun, CancelInv, PhaseInv, Busy
<1>11. ASSUME NEW r \in Requests, HalfEnd(r)
      PROVE  CancelInv'
  BY <1>0, <1>11 DEF HalfEnd, HalfErrors, Capture, CancelInv, PhaseInv, Busy
<1>12. ASSUME Looks
      PROVE  CancelInv'
  BY <1>0, <1>12, LooksFacts DEF CancelInv, PhaseInv, Busy
<1>13. ASSUME AbortStep
      PROVE  CancelInv'
  BY <1>0, <1>13, AbortFacts DEF CancelInv, PhaseInv, Busy
<1>14. ASSUME Handle
      PROVE  CancelInv'
  BY <1>0, <1>14, HandleFacts DEF CancelInv, PhaseInv, Busy
<1>15. ASSUME BeginDestroy
      PROVE  CancelInv'
  BY <1>0, <1>15 DEF BeginDestroy, CancelSet, CancelInv, PhaseInv, Busy
<1>16. ASSUME EndDestroy
      PROVE  CancelInv'
  BY <1>0, <1>16 DEF EndDestroy, flags, history, CancelInv, PhaseInv, Busy
<1>17. CASE UNCHANGED vars
  BY <1>17 DEF vars, flags, history, CancelInv, PhaseInv, Busy
<1> QED
  BY <1>1, <1>2, <1>3, <1>4, <1>5, <1>6, <1>7, <1>8, <1>9, <1>10, <1>11,
     <1>12, <1>13, <1>14, <1>15, <1>16, <1>17, CancelFacts
  DEF Next, Polling, Looks

LEMMA AnswerStep ==
  ASSUME TypeOK, MainInv, ListInv, PhaseInv, CaptureInv, CancelInv, AnswerInv, [Next]_vars
  PROVE  AnswerInv'
<1>0. /\ fetching \in [Requests -> BOOLEAN]
      /\ inFlight \in [Requests -> BOOLEAN]
      /\ cancelled \in [Requests -> BOOLEAN]
      /\ locked \in [Requests -> BOOLEAN]
      /\ error \in [Requests -> Errors]
      /\ exception \in [Requests -> Throws]
      /\ half \in [Requests -> {"none", "offered", "kept", "started", "spent"}]
      /\ answer \in [Requests -> [status : Statuses \cup {0}, copied : BOOLEAN]]
      /\ thrown \in [Requests -> Throws]
      /\ timely \in [Requests -> BOOLEAN]
      /\ heard \in [Requests -> BOOLEAN]
      /\ dropped \in [Requests -> BOOLEAN]
  BY DEF TypeOK
<1>1. ASSUME NEW r \in Requests, TrySubmit(r)
      PROVE  AnswerInv'
  BY <1>0, <1>1, TrySubmitFacts DEF TrySubmit, MayTry, Reset, AnswerInv,
     Accounted, Settled, Failed, PhaseInv, CancelInv, Busy, Unrun
<1>2. ASSUME NEW r \in Requests, SubmitRefused(r)
      PROVE  AnswerInv'
  BY <1>0, <1>2 DEF SubmitRefused, MayTry, Reset, history, AnswerInv,
     Accounted, Settled, Failed, PhaseInv, CancelInv, Busy, Unrun
<1>3. ASSUME NEW r \in Requests, NEW b \in Bodies, TryUpdatePostdata(r, b)
      PROVE  AnswerInv'
  BY <1>0, <1>3 DEF TryUpdatePostdata, history, AnswerInv, Accounted,
     Settled, Failed, PhaseInv, CancelInv, Busy, Unrun
<1>4. ASSUME Cancels
      PROVE  AnswerInv'
  BY <1>0, <1>4 DEF Cancels, CancelSet, AnswerInv, Accounted, Settled,
     Failed, PhaseInv, CancelInv, Busy, Unrun
<1>5. ASSUME NEW r \in Requests, OnProgress(r)
      PROVE  AnswerInv'
  BY <1>0, <1>5 DEF OnProgress, Capture, AnswerInv, Accounted, Settled,
     Failed, PhaseInv, CancelInv, Busy, Unrun
<1>6. ASSUME NEW r \in Requests, Answered(r)
      PROVE  AnswerInv'
  BY <1>0, <1>6 DEF Answered, OnAnswer, flags, history, AnswerInv, Accounted,
     Settled, Failed, PhaseInv, CancelInv, Busy, Unrun
<1>7. ASSUME NEW r \in Requests, SubmitReturn(r)
      PROVE  AnswerInv'
  BY <1>0, <1>7 DEF SubmitReturn, Drop, Unrun, AnswerInv, Accounted, Settled,
     Failed, PhaseInv, CancelInv, Busy
<1>8. ASSUME NEW r \in Requests, SubmitThrow(r)
      PROVE  AnswerInv'
  <2>1. thrown[r] \in Nat
    BY <1>0 DEF Throws
  <2>2. exception'[r] # 0
    BY <1>0, <1>8, <2>1 DEF SubmitThrow
  <2>3. \A s \in Requests : s # r => exception'[s] = exception[s]
    BY <1>0, <1>8 DEF SubmitThrow
  <2>4. /\ half[r] \in {"offered", "spent"} /\ thrown' = [thrown EXCEPT ![r] = @ + 1]
        /\ \/ half[r] = "offered" /\ Drop(r)
           \/ half[r] = "spent" /\ UNCHANGED <<error, locked, half, dropped>>
        /\ UNCHANGED <<config, inFlight, cancelled, answer, timely, heard>>
    BY <1>8 DEF SubmitThrow
  <2> QED
    BY <1>0, <2>2, <2>3, <2>4 DEF Drop, AnswerInv, Accounted, Settled,
       Failed, PhaseInv,
       CancelInv, Busy, Unrun
<1>9. ASSUME NEW r \in Requests, PoolDrop(r)
      PROVE  AnswerInv'
  BY <1>0, <1>9 DEF PoolDrop, Drop, Unrun, AnswerInv, Accounted, Settled,
     Failed, PhaseInv, CancelInv, Busy
<1>10. ASSUME NEW r \in Requests, HalfStart(r)
      PROVE  AnswerInv'
  <2>1. /\ half[r] \in Unrun
        /\ \/ /\ cancelled[r]
              /\ error' = [error EXCEPT ![r] = "cancelled"]
              /\ locked' = [locked EXCEPT ![r] = FALSE]
              /\ half' = [half EXCEPT ![r] = "spent"]
              /\ heard' = heard
           \/ /\ ~cancelled[r]
              /\ half' = [half EXCEPT ![r] = "started"]
              /\ heard' = [heard EXCEPT ![r] = TRUE]
              /\ UNCHANGED <<error, locked>>
        /\ UNCHANGED <<config, inFlight, cancelled, exception, answer, timely,
                       dropped>>
    BY <1>10 DEF HalfStart
  <2>2. inFlight[r] /\ locked[r] /\ ~heard[r] /\ (cancelled[r] => timely[r])
    BY <2>1 DEF PhaseInv, CancelInv, Busy, Unrun
  <2>3. ASSUME NEW s \in Requests, s # r
        PROVE  Accounted(s)'
    BY <1>0, <2>1, <2>3 DEF AnswerInv, Accounted, Settled, Failed
  <2>4. Accounted(r)'
    BY <1>0, <2>1, <2>2 DEF AnswerInv, Accounted, Settled, Failed, Unrun
  <2> QED
    BY <2>3, <2>4 DEF AnswerInv
<1>11. ASSUME NEW r \in Requests, HalfEnd(r)
      PROVE  AnswerInv'
  <2>1. /\ half[r] = "started" /\ half' = [half EXCEPT ![r] = "spent"]
        /\ locked' = [locked EXCEPT ![r] = FALSE]
        /\ UNCHANGED <<config, inFlight, cancelled, answer, timely, heard,
                       dropped>>
    BY <1>11 DEF HalfEnd
  <2>2. /\ inFlight[r] /\ error[r] = "none" /\ heard[r] /\ ~timely[r]
        /\ answer[r].copied /\ ~dropped[r]
    BY <2>1 DEF PhaseInv, CancelInv, AnswerInv, Accounted, Busy
  <2>3. \/ /\ exception' = exception
           /\ \E e \in HalfErrors(r) : error' = [error EXCEPT ![r] =
                 IF exception[r] # 0 THEN "handler_threw" ELSE e]
        \/ /\ exception'[r] # 0 /\ error' = [error EXCEPT ![r] = "handler_threw"]
           /\ \A s \in Requests : s # r => exception'[s] = exception[s]
    <3>1. thrown[r] \in Nat
      BY <1>0 DEF Throws
    <3> QED
      BY <1>0, <1>11, <3>1 DEF HalfEnd, Capture
  <2>4. ASSUME NEW s \in Requests, s # r
        PROVE  Accounted(s)'
    <3>1. error'[s] = error[s] /\ exception'[s] = exception[s]
      BY <1>0, <2>3, <2>4
    <3> QED
      BY <1>0, <2>1, <2>4, <3>1 DEF AnswerInv, Accounted, Settled, Failed
  <2>5. Settled(r)'
    <3>1. CASE error'[r] = "handler_threw"
      <4>1. exception'[r] # 0
        BY <1>0, <2>2, <2>3, <3>1 DEF HalfErrors
      <4> QED
        BY <3>1, <4>1 DEF Settled
    <3>2. CASE error'[r] # "handler_threw"
      <4>1. error'[r] \in HalfErrors(r)
        BY <1>0, <2>3, <3>2
      <4> QED
        BY <2>1, <2>2, <4>1 DEF Settled, HalfErrors, Failed
    <3> QED
      BY <3>1, <3>2
  <2>6. Accounted(r)'
    BY <1>0, <2>1, <2>2, <2>5 DEF Accounted, Unrun
  <2> QED
    BY <2>4, <2>6 DEF AnswerInv
<1>12. ASSUME Looks
      PROVE  AnswerInv'
  BY <1>0, <1>12, LooksFacts DEF AnswerInv, Accounted, Settled, Failed,
     PhaseInv, CancelInv, Busy, Unrun
<1>13. ASSUME AbortStep
      PROVE  AnswerInv'
  BY <1>0, <1>13, AbortFacts DEF AnswerInv, Accounted, Settled, Failed,
     PhaseInv, CancelInv, Busy, Unrun
<1>14. ASSUME Handle
      PROVE  AnswerInv'
  BY <1>0, <1>14, HandleFacts DEF AnswerInv, Accounted, Settled, Failed,
     PhaseInv, CancelInv, Busy, Unrun
<1>15. ASSUME BeginDestroy
      PROVE  AnswerInv'
  BY <1>0, <1>15 DEF BeginDestroy, CancelSet, AnswerInv, Accounted, Settled,
     Failed, PhaseInv, CancelInv, Busy, Unrun
<1>16. ASSUME EndDestroy
      PROVE  AnswerInv'
  BY <1>0, <1>16 DEF EndDestroy, flags, history, AnswerInv, Accounted,
     Settled, Failed, PhaseInv, CancelInv, Busy, Unrun
<1>17. CASE UNCHANGED vars
  BY <1>17 DEF vars, flags, history, AnswerInv, Accounted, Settled, Failed,
     PhaseInv, CancelInv, Busy, Unrun
<1> QED
  BY <1>1, <1>2, <1>3, <1>4, <1>5, <1>6, <1>7, <1>8, <1>9, <1>10, <1>11,
     <1>12, <1>13, <1>14, <1>15, <1>16, <1>17, CancelFacts
  DEF Next, Polling, Looks

-----------------------------------------------------------------------------
(* Types, and what main tells.                                             *)

FieldTypes ==
    /\ life \in {"open", "closing", "destroyed"}
    /\ config \in [Requests -> Configs]
    /\ fetching \in [Requests -> BOOLEAN]
    /\ inFlight \in [Requests -> BOOLEAN]
    /\ cancelled \in [Requests -> BOOLEAN]
    /\ locked \in [Requests -> BOOLEAN]
    /\ error \in [Requests -> Errors]
    /\ exception \in [Requests -> Throws]
    /\ body \in [Requests -> Bodies]
    /\ answer \in [Requests -> [status : Statuses \cup {0}, copied : BOOLEAN]]
    /\ half \in [Requests -> {"none", "offered", "kept", "started", "spent"}]
    /\ sent \in [Requests -> Bodies]
    /\ thrown \in [Requests -> Throws]
    /\ timely \in [Requests -> BOOLEAN]
    /\ heard \in [Requests -> BOOLEAN]
    /\ dropped \in [Requests -> BOOLEAN]
    /\ told \in [Requests -> [report : Reports, exception : Throws] \cup {Untold}]

LEMMA ReportFacts ==
  ASSUME FieldTypes, NEW r \in Requests,
         error[r] = "handler_threw" => exception[r] # 0
  PROVE  /\ Report(r) \in [report : Reports, exception : Throws]
         /\ Report(r).report = IF exception[r] # 0 THEN "rethrown"
                               ELSE IF error[r] = "none" THEN "success" ELSE error[r]
         /\ Report(r).exception = exception[r]
<1>1. error[r] \in Errors /\ exception[r] \in Throws
  BY DEF FieldTypes
<1> DEFINE report == IF exception[r] # 0 THEN "rethrown"
                     ELSE IF error[r] = "none" THEN "success" ELSE error[r]
<1>2. report \in Reports /\ Report(r) = [report |-> report, exception |-> exception[r]]
  BY <1>1 DEF Report, Reports, Errors
<1> HIDE DEF report
<1>3. /\ Report(r) \in [report : Reports, exception : Throws]
      /\ Report(r).report = report /\ Report(r).exception = exception[r]
  BY <1>1, <1>2
<1> QED
  BY <1>3 DEF report

LEMMA FieldStep ==
  ASSUME FieldTypes, TypeOK, MainInv, ListInv, PhaseInv, AnswerInv, [Next]_vars
  PROVE  FieldTypes'
<1>1. ASSUME NEW r \in Requests, TrySubmit(r)
      PROVE  FieldTypes'
  <2>1. 0 \in Throws /\ NoAnswer \in [status : Statuses \cup {0}, copied : BOOLEAN]
        /\ "none" \in Errors
    BY FetchThrowsAssumption DEF Throws, NoAnswer, Errors
  <2> QED
    BY <1>1, <2>1 DEF TrySubmit, Reset, FieldTypes
<1>2. ASSUME NEW r \in Requests, SubmitRefused(r)
      PROVE  FieldTypes'
  <2>1. 0 \in Throws /\ "none" \in Errors
    BY FetchThrowsAssumption DEF Throws, Errors
  <2> QED
    BY <1>2, <2>1 DEF SubmitRefused, Reset, history, FieldTypes
<1>3. ASSUME NEW r \in Requests, NEW b \in Bodies, TryUpdatePostdata(r, b)
      PROVE  FieldTypes'
  BY <1>3 DEF TryUpdatePostdata, history, FieldTypes
<1>4. ASSUME Cancels
      PROVE  FieldTypes'
  BY <1>4 DEF Cancels, CancelSet, FieldTypes
<1>5. ASSUME NEW r \in Requests, thrown[r] < ThrowsBound
      PROVE  thrown[r] + 1 \in Throws
  BY <1>5, FetchThrowsAssumption DEF FieldTypes, Throws
<1>6. ASSUME NEW r \in Requests, OnProgress(r)
      PROVE  FieldTypes'
  BY <1>5, <1>6 DEF OnProgress, Capture, FieldTypes
<1>7. ASSUME NEW r \in Requests, Answered(r)
      PROVE  FieldTypes'
  BY <1>7 DEF Answered, OnAnswer, flags, history, FieldTypes
<1>8. "cancelled" \in Errors /\ "handler_threw" \in Errors
  BY DEF Errors
<1>9. ASSUME NEW r \in Requests, SubmitReturn(r) \/ PoolDrop(r) \/ HalfStart(r)
      PROVE  FieldTypes'
  <2>1. CASE UNCHANGED <<error, locked, dropped>>
    <3>1. half' \in [Requests -> {"none", "offered", "kept", "started", "spent"}]
          /\ heard' \in [Requests -> BOOLEAN]
      BY <1>9, <2>1 DEF SubmitReturn, PoolDrop, HalfStart, Drop, FieldTypes
    <3> QED
      BY <1>9, <2>1, <3>1 DEF SubmitReturn, PoolDrop, HalfStart, FieldTypes
  <2>2. CASE Drop(r)
    <3>1. error' \in [Requests -> Errors]
      BY <1>8, <2>2 DEF Drop, FieldTypes
    <3> QED
      BY <1>9, <2>2, <3>1 DEF SubmitReturn, PoolDrop, HalfStart, Drop, FieldTypes
  <2>3. CASE HalfStart(r) /\ cancelled[r]
    <3>1. error' \in [Requests -> Errors]
      BY <1>8, <2>3 DEF HalfStart, FieldTypes
    <3> QED
      BY <2>3, <3>1 DEF HalfStart, FieldTypes
  <2> QED
    BY <1>9, <2>1, <2>2, <2>3 DEF SubmitReturn, PoolDrop, HalfStart
<1>10. ASSUME NEW r \in Requests, SubmitThrow(r)
       PROVE  FieldTypes'
  <2>1. exception' \in [Requests -> Throws] /\ thrown' \in [Requests -> Throws]
    BY <1>5, <1>10 DEF SubmitThrow, FieldTypes
  <2>2. error' \in [Requests -> Errors]
    BY <1>8, <1>10 DEF SubmitThrow, Drop, FieldTypes
  <2> QED
    BY <1>10, <2>1, <2>2 DEF SubmitThrow, Drop, FieldTypes
<1>11. ASSUME NEW r \in Requests, HalfEnd(r)
       PROVE  FieldTypes'
  <2>1. HalfErrors(r) \subseteq Errors
    BY DEF HalfErrors, Errors, FieldTypes
  <2>2. exception' \in [Requests -> Throws] /\ thrown' \in [Requests -> Throws]
    BY <1>5, <1>11 DEF HalfEnd, Capture, FieldTypes
  <2>3. error' \in [Requests -> Errors]
    BY <1>8, <1>11, <2>1 DEF HalfEnd, FieldTypes
  <2> QED
    BY <1>11, <2>2, <2>3 DEF HalfEnd, FieldTypes
<1>12. ASSUME Looks
       PROVE  FieldTypes'
  BY <1>12, LooksFacts DEF FieldTypes
<1>13. ASSUME AbortStep
       PROVE  FieldTypes'
  <2>1. /\ fetching' \in [Requests -> BOOLEAN] /\ locked' \in [Requests -> BOOLEAN]
        /\ error' \in [Requests -> Errors]
    <3>1. CASE UNCHANGED <<fetching, error, locked>>
      BY <3>1 DEF FieldTypes
    <3>2. ASSUME NEW r \in Requests,
                 fetching' = [fetching EXCEPT ![r] = FALSE],
                 error' = [error EXCEPT ![r] = "cancelled"],
                 locked' = [locked EXCEPT ![r] = FALSE]
          PROVE  /\ fetching' \in [Requests -> BOOLEAN]
                 /\ locked' \in [Requests -> BOOLEAN]
                 /\ error' \in [Requests -> Errors]
      BY <1>8, <3>2 DEF FieldTypes
    <3> QED
      BY <1>13, <3>1, <3>2, AbortFacts
  <2> QED
    BY <1>13, <2>1, AbortFacts DEF FieldTypes
<1>14. ASSUME Handle
       PROVE  FieldTypes'
  <2>1. PICK r \in Requests :
           /\ inFlight[r] /\ ~locked[r]
           /\ locked' = [locked EXCEPT ![r] = TRUE]
           /\ inFlight' = [inFlight EXCEPT ![r] = FALSE]
           /\ fetching' = [fetching EXCEPT ![r] = FALSE]
           /\ exception' = [exception EXCEPT ![r] = 0]
           /\ told' = [told EXCEPT ![r] = Report(r)]
    BY <1>14, HandleFacts
  <2>2. Report(r) \in [report : Reports, exception : Throws]
    BY <2>1, ReportFacts DEF AnswerInv, Accounted, Settled
  <2>3. 0 \in Throws
    BY FetchThrowsAssumption DEF Throws
  <2> QED
    BY <1>14, <2>1, <2>2, <2>3, HandleFacts DEF FieldTypes
<1>15. ASSUME BeginDestroy \/ EndDestroy
       PROVE  FieldTypes'
  BY <1>15 DEF BeginDestroy, EndDestroy, CancelSet, flags, history, FieldTypes
<1>16. CASE UNCHANGED vars
  BY <1>16 DEF vars, flags, history, FieldTypes
<1> QED
  BY <1>1, <1>2, <1>3, <1>4, <1>6, <1>7, <1>9, <1>10, <1>11, <1>12, <1>13,
     <1>14, <1>15, <1>16, CancelFacts
  DEF Next, Polling, Looks

LEMMA MainType ==
  MainInv => main \in [at : {"loop", "submitter", "aborting", "claiming"},
                       request : Requests \cup {"none"}, index : Nat]
BY DEF MainInv, Loop, Submitter, Poll

LEMMA TypeStep ==
  ASSUME TypeOK, MainInv, ListInv, PhaseInv, AnswerInv, MainInv', [Next]_vars
  PROVE  TypeOK'
<1>1. FieldTypes'
  <2>1. FieldTypes
    BY DEF TypeOK, FieldTypes
  <2> QED
    BY <2>1, FieldStep
<1>2. unhandled' \in Seq(Requests)
  <2>0. unhandled \in Seq(Requests)
    BY DEF TypeOK
  <2>1. CASE \E r \in Requests : TrySubmit(r)
    BY <2>1, TrySubmitFacts
  <2>2. CASE Handle
    BY <2>2, HandleFacts
  <2>3. CASE EndDestroy
    BY <2>3 DEF EndDestroy
  <2>4. CASE Looks \/ AbortStep
    BY <2>0, <2>4, LooksFacts, AbortFacts
  <2>5. ASSUME NEW r \in Requests,
               \/ SubmitRefused(r) \/ (\E b \in Bodies : TryUpdatePostdata(r, b))
               \/ OnProgress(r) \/ Answered(r) \/ SubmitReturn(r) \/ SubmitThrow(r)
               \/ HalfStart(r) \/ HalfEnd(r) \/ PoolDrop(r)
        PROVE  unhandled' = unhandled
    BY <2>5 DEF SubmitRefused, TryUpdatePostdata, OnProgress, Answered, OnAnswer,
       SubmitReturn, SubmitThrow, HalfStart, HalfEnd, PoolDrop
  <2>6. CASE Cancels \/ BeginDestroy \/ UNCHANGED vars
    BY <2>0, <2>6 DEF Cancels, BeginDestroy, vars
  <2> QED
    BY <2>0, <2>1, <2>2, <2>3, <2>4, <2>5, <2>6, CancelFacts
    DEF Next, Polling, Looks
<1>3. main' \in [at : {"loop", "submitter", "aborting", "claiming"},
                 request : Requests \cup {"none"}, index : Nat]
  BY DEF MainInv, Loop, Submitter, Poll
<1> QED
  BY <1>1, <1>2, <1>3 DEF TypeOK, FieldTypes

(* A request that is told is out of flight, and nothing about its last     *)
(* submission changes until the next one.                                  *)
Tells(s) ==
    \/ told'[s] = Untold
    \/ /\ \/ told'[s] = told[s] /\ ~inFlight[s]
          \/ told'[s] = Report(s) /\ inFlight[s] /\ ~locked[s]
       /\ config'[s] = config[s] /\ answer'[s] = answer[s]
       /\ thrown'[s] = thrown[s] /\ timely'[s] = timely[s]
       /\ heard'[s] = heard[s] /\ dropped'[s] = dropped[s]

LEMMA TellsStep ==
  ASSUME TypeOK, MainInv, ListInv, PhaseInv, [Next]_vars, NEW s \in Requests
  PROVE  Tells(s)
<1>0. /\ config \in [Requests -> Configs]
      /\ inFlight \in [Requests -> BOOLEAN]
      /\ locked \in [Requests -> BOOLEAN]
      /\ answer \in [Requests -> [status : Statuses \cup {0}, copied : BOOLEAN]]
      /\ half \in [Requests -> {"none", "offered", "kept", "started", "spent"}]
      /\ thrown \in [Requests -> Throws]
      /\ timely \in [Requests -> BOOLEAN]
      /\ heard \in [Requests -> BOOLEAN]
      /\ dropped \in [Requests -> BOOLEAN]
      /\ told \in [Requests -> [report : Reports, exception : Throws] \cup {Untold}]
  BY DEF TypeOK
<1>1. ASSUME NEW r \in Requests, TrySubmit(r)
      PROVE  Tells(s)
  BY <1>0, <1>1, TrySubmitFacts DEF TrySubmit, MayTry, Reset, Tells,
     PhaseInv, Busy
<1>2. ASSUME NEW r \in Requests, SubmitRefused(r)
      PROVE  Tells(s)
  BY <1>0, <1>2 DEF SubmitRefused, MayTry, Reset, history, Tells, PhaseInv, Busy
<1>3. ASSUME NEW r \in Requests, NEW b \in Bodies, TryUpdatePostdata(r, b)
      PROVE  Tells(s)
  BY <1>0, <1>3 DEF TryUpdatePostdata, history, Tells, PhaseInv, Busy
<1>4. ASSUME Cancels
      PROVE  Tells(s)
  BY <1>0, <1>4 DEF Cancels, CancelSet, Tells, PhaseInv, Busy
<1>5. ASSUME NEW r \in Requests, OnProgress(r)
      PROVE  Tells(s)
  BY <1>0, <1>5 DEF OnProgress, Capture, Tells, PhaseInv, Busy
<1>6. ASSUME NEW r \in Requests, Answered(r)
      PROVE  Tells(s)
  BY <1>0, <1>6 DEF Answered, OnAnswer, flags, history, Tells, PhaseInv, Busy
<1>7. ASSUME NEW r \in Requests, SubmitReturn(r)
      PROVE  Tells(s)
  BY <1>0, <1>7 DEF SubmitReturn, Drop, Unrun, Tells, PhaseInv, Busy
<1>8. ASSUME NEW r \in Requests, SubmitThrow(r)
      PROVE  Tells(s)
  BY <1>0, <1>8 DEF SubmitThrow, Drop, Unrun, MainInv, Tells, PhaseInv, Busy
<1>9. ASSUME NEW r \in Requests, PoolDrop(r)
      PROVE  Tells(s)
  BY <1>0, <1>9 DEF PoolDrop, Drop, Unrun, Tells, PhaseInv, Busy
<1>10. ASSUME NEW r \in Requests, HalfStart(r)
      PROVE  Tells(s)
  BY <1>0, <1>10 DEF HalfStart, Unrun, Tells, PhaseInv, Busy
<1>11. ASSUME NEW r \in Requests, HalfEnd(r)
      PROVE  Tells(s)
  BY <1>0, <1>11 DEF HalfEnd, HalfErrors, Capture, Tells, PhaseInv, Busy
<1>12. ASSUME Looks
      PROVE  Tells(s)
  BY <1>0, <1>12, LooksFacts DEF Tells, PhaseInv, Busy
<1>13. ASSUME AbortStep
      PROVE  Tells(s)
  BY <1>0, <1>13, AbortFacts DEF Tells, PhaseInv, Busy
<1>14. ASSUME Handle
      PROVE  Tells(s)
  BY <1>0, <1>14, HandleFacts DEF Tells, PhaseInv, Busy
<1>15. ASSUME BeginDestroy
      PROVE  Tells(s)
  BY <1>0, <1>15 DEF BeginDestroy, CancelSet, Tells, PhaseInv, Busy
<1>16. ASSUME EndDestroy
      PROVE  Tells(s)
  BY <1>0, <1>16 DEF EndDestroy, flags, history, Tells, PhaseInv, Busy
<1>17. CASE UNCHANGED vars
  BY <1>17 DEF vars, flags, history, Tells, PhaseInv, Busy
<1> QED
  BY <1>1, <1>2, <1>3, <1>4, <1>5, <1>6, <1>7, <1>8, <1>9, <1>10, <1>11,
     <1>12, <1>13, <1>14, <1>15, <1>16, <1>17, CancelFacts
  DEF Next, Polling, Looks

(* What an unlocked request's report says of its submission.               *)
LEMMA ReportIsTrue ==
  ASSUME TypeOK, PhaseInv, CaptureInv, CancelInv, AnswerInv, NEW s \in Requests,
         inFlight[s], ~locked[s]
  PROVE  /\ timely[s] => Report(s).report =
                            IF thrown[s] > 0 THEN "rethrown" ELSE "cancelled"
         /\ Report(s).report = "success" =>
               /\ heard[s] /\ answer[s].copied /\ ~dropped[s] /\ thrown[s] = 0
               /\ ~Failed(s)
               /\ config[s].resume => answer[s].status = 206
         /\ Report(s).report \in {"timed_out", "network_error"} =>
               heard[s] /\ answer[s].status = 0
         /\ Report(s).report = "http_error" =>
               heard[s] /\ answer[s].status >= 400 /\ config[s].fail_on_http_error
         /\ Report(s).report = "range_not_satisfied" =>
               heard[s] /\ config[s].resume /\ answer[s].status # 206
         /\ Report(s).report = "cancelled" => ~heard[s] /\ (timely[s] \/ dropped[s])
         /\ (Report(s).report = "rethrown") = (thrown[s] > 0)
         /\ ~SubmitterThrows /\ Report(s).report = "rethrown" =>
               Report(s).exception = 1
<1>1. /\ Report(s).report = IF exception[s] # 0 THEN "rethrown"
                            ELSE IF error[s] = "none" THEN "success" ELSE error[s]
      /\ Report(s).exception = exception[s]
  <2>1. FieldTypes
    BY DEF TypeOK, FieldTypes
  <2> QED
    BY <2>1, ReportFacts DEF AnswerInv, Accounted, Settled
<1>2. /\ error[s] \in Errors /\ thrown[s] \in Nat
      /\ exception[s] # 0 <=> thrown[s] > 0
      /\ ~SubmitterThrows => exception[s] \in {0, 1}
  BY DEF TypeOK, CaptureInv, Throws
<1>3. Settled(s) /\ (timely[s] => error[s] = "cancelled")
  BY DEF AnswerInv, Accounted, CancelInv
<1>4. CASE exception[s] # 0
  BY <1>1, <1>2, <1>4
<1>5. CASE exception[s] = 0
  <2>1. /\ thrown[s] = 0
        /\ Report(s).report = IF error[s] = "none" THEN "success" ELSE error[s]
        /\ error[s] \notin {"success", "rethrown"}
    BY <1>1, <1>2, <1>5 DEF Errors
  <2>2. (Report(s).report = "rethrown") = (thrown[s] > 0)
    BY <2>1
  <2> QED
    BY <1>1, <1>3, <1>5, <2>1, <2>2 DEF Settled
<1> QED
  BY <1>4, <1>5

LEMMA ToldStep ==
  ASSUME IInv, CancelInv', [Next]_vars
  PROVE  TimelyCancelWins' /\ ToldWhatHappened' /\ FirstToldInv'
<1>1. ASSUME NEW s \in Requests
      PROVE  Tells(s)
  BY TellsStep DEF IInv
<1>2. /\ TypeOK /\ PhaseInv /\ CaptureInv /\ CancelInv /\ AnswerInv
      /\ TimelyCancelWins /\ ToldWhatHappened /\ FirstToldInv
  BY DEF IInv
<1>3. Untold.report = "nothing"
  BY DEF Untold
<1>4. ASSUME NEW s \in Requests, timely'[s], told'[s] # Untold
      PROVE  told'[s].report = IF thrown'[s] > 0 THEN "rethrown" ELSE "cancelled"
  BY <1>1, <1>2, <1>4, ReportIsTrue DEF Tells, TimelyCancelWins
<1>5. TimelyCancelWins'
  BY <1>4 DEF TimelyCancelWins, CancelInv
<1>6. ToldWhatHappened'
  <2> SUFFICES ASSUME NEW s \in Requests, told'[s] # Untold
               PROVE  ToldWhatHappened!(s)'
    BY DEF ToldWhatHappened
  <2> QED
    BY <1>1, <1>2, ReportIsTrue DEF Tells, ToldWhatHappened, Failed
<1>7. FirstToldInv'
  BY <1>1, <1>2, <1>3, ReportIsTrue DEF Tells, FirstToldInv, FirstExceptionIsTold
<1> QED
  BY <1>5, <1>6, <1>7

-----------------------------------------------------------------------------
(* The invariant.                                                          *)

LEMMA InvInit == Init => IInv
<1> SUFFICES ASSUME Init
             PROVE  IInv
  OBVIOUS
<1>1. /\ unhandled = <<>> /\ Len(unhandled) = 0 /\ Listed = {}
      /\ unhandled \in Seq(Requests)
  BY DEF Init, Listed, Range
<1>2. /\ 0 \in Throws /\ "none" \in Errors
      /\ NoAnswer \in [status : Statuses \cup {0}, copied : BOOLEAN]
  BY FetchThrowsAssumption DEF Throws, Errors, NoAnswer
<1>3. MainInv
  BY MainValues DEF Init, MainInv, All
<1>4. FieldTypes
  BY <1>2 DEF Init, FieldTypes, All
<1>5. TypeOK
  BY <1>1, <1>3, <1>4, MainType DEF TypeOK, FieldTypes
<1>6. ListInv
  BY <1>1 DEF Init, ListInv, All
<1>7. /\ PhaseInv /\ CaptureInv /\ CancelInv
      /\ AnswerInv
  BY DEF Init, PhaseInv, CaptureInv, CancelInv, AnswerInv, Accounted, All, Busy,
     Unrun
<1>8. \A r \in Requests : told[r] = Untold /\ Untold.report = "nothing" /\ ~timely[r]
  BY DEF Init, All, Untold
<1> QED
  BY <1>3, <1>5, <1>6, <1>7, <1>8
  DEF IInv, TimelyCancelWins, ToldWhatHappened, FirstToldInv, FirstExceptionIsTold

LEMMA InvStep == IInv /\ [Next]_vars => IInv'
<1> SUFFICES ASSUME IInv, [Next]_vars
             PROVE  IInv'
  OBVIOUS
<1>1. /\ TypeOK /\ MainInv /\ ListInv /\ PhaseInv /\ CaptureInv /\ CancelInv
      /\ AnswerInv
  BY DEF IInv
<1>2. MainInv' /\ ListInv' /\ PhaseInv' /\ CaptureInv' /\ CancelInv' /\ AnswerInv'
  BY <1>1, MainStep, ListStep, PhaseStep, CaptureStep, CancelStep, AnswerStep
<1>3. TypeOK'
  BY <1>1, <1>2, TypeStep
<1> QED
  BY <1>2, <1>3, ToldStep DEF IInv

(* All of it is an invariant: for every set of requests, whatever the      *)
(* browser answers and the submitter and its pool do.                      *)
THEOREM FetchInvariant == Spec => []IInv
<1>1. IInv /\ UNCHANGED vars => IInv'
  BY InvStep
<1> QED
  BY InvInit, InvStep, PTL DEF Spec

(* The context's and the requests' fields keep their types.                *)
THEOREM TypesAreKept == Spec => []TypeOK
BY FetchInvariant, PTL DEF IInv

(* While a fetch is pending its request is the browser's alone, and so is  *)
(* the POST body the browser reads in place.                               *)
THEOREM PendingFetchIsPrivate == Spec => []PendingIsPrivate
<1>1. IInv => PendingIsPrivate
  BY DEF IInv, PhaseInv, ListInv, PendingIsPrivate
<1> QED
  BY <1>1, FetchInvariant, PTL

(* No request is lost or listed twice, and each that is locked has         *)
(* something that will unlock it, though the submitter drop its task.      *)
THEOREM NoRequestIsStranded == Spec => []NothingStranded
<1>1. IInv => NothingStranded
  <2> SUFFICES ASSUME IInv, life = "open"
               PROVE  NothingStranded
    BY DEF NothingStranded
  <2>1. \A r \in Requests : inFlight[r] \in BOOLEAN
    BY DEF IInv, TypeOK
  <2>2. \A r \in Requests : inFlight[r] = (r \in Listed)
    BY <2>1 DEF IInv, ListInv
  <2> QED
    BY <2>2 DEF IInv, ListInv, PhaseInv, Busy, NothingStranded
<1> QED
  BY <1>1, FetchInvariant, PTL

(* A cancellation that comes before the worker half begins wins, whichever *)
(* of the three looks at the flag sees it first.                           *)
THEOREM TimelyCancelAlwaysWins == Spec => []TimelyCancelWins
BY FetchInvariant, PTL DEF IInv

(* What main is told is what became of this submission.                    *)
THEOREM AnswersAreTrue == Spec => []ToldWhatHappened
BY FetchInvariant, PTL DEF IInv

(* The exception main rethrows is the first, if the submitter never throws.*)
THEOREM FirstExceptionIsRethrown ==
  ASSUME ~SubmitterThrows
  PROVE  Spec => []FirstExceptionIsTold
<1>1. IInv => FirstExceptionIsTold
  BY DEF IInv, FirstToldInv
<1> QED
  BY <1>1, FetchInvariant, PTL

-----------------------------------------------------------------------------
(* The context implements the contract.                                    *)

(* A request main cannot be told of yet, and what the contract sees of one.*)
Out(r) == locked[r] \/ main = Submitter(r)
Stage(r) == IF r \notin Listed THEN "idle"
            ELSE IF locked[r] \/ main = Submitter(r) THEN "submitted" ELSE "settled"
Verdict(r) == IF r \in Listed /\ ~locked[r] /\ main # Submitter(r)
              THEN Report(r) ELSE Untold
Life == IF life = "destroyed" THEN "closed" ELSE life

Still(s) ==
    /\ s \in Listed' <=> s \in Listed
    /\ locked'[s] <=> locked[s]
    /\ main' = Submitter(s) <=> main = Submitter(s)
    /\ error'[s] = error[s] /\ exception'[s] = exception[s]

LEMMA StillFacts ==
  ASSUME NEW s \in Requests, Still(s)
  PROVE  Stage(s)' = Stage(s) /\ Verdict(s)' = Verdict(s)
<1>1. Report(s)' = Report(s)
  BY DEF Still, Report
<1>2. Stage(s)' = IF s \notin Listed' THEN "idle"
                  ELSE IF locked'[s] \/ main' = Submitter(s) THEN "submitted"
                  ELSE "settled"
  BY DEF Stage, Submitter
<1>3. Verdict(s)' = IF s \in Listed' /\ ~locked'[s] /\ main' # Submitter(s)
                    THEN Report(s)' ELSE Untold
  BY DEF Verdict, Submitter, Untold
<1> QED
  BY <1>1, <1>2, <1>3 DEF Still, Stage, Verdict

LEMMA ReportType ==
  ASSUME IInv', NEW r \in Requests, ~locked'[r]
  PROVE  Report(r)' \in [report : Reports, exception : Throws]
<1>1. FieldTypes'
  BY DEF IInv, TypeOK, FieldTypes
<1>2. inFlight'[r]
  BY DEF IInv, PhaseInv
<1>3. error'[r] = "handler_threw" => exception'[r] # 0
  BY <1>2 DEF IInv, AnswerInv, Accounted, Settled
<1> DEFINE report == IF exception'[r] # 0 THEN "rethrown"
                     ELSE IF error'[r] = "none" THEN "success" ELSE error'[r]
<1>4. exception'[r] \in Throws /\ report \in Reports
  BY <1>1, <1>3 DEF FieldTypes, Reports, Errors
<1>5. Report(r)' = [report |-> report, exception |-> exception'[r]]
  BY DEF Report
<1> HIDE DEF report
<1> QED
  BY <1>4, <1>5

LEMMA ContractVars ==
  /\ Contract!vars = << [r \in Requests |-> Stage(r)], [r \in Requests |-> Verdict(r)],
                        told, Life >>
  /\ Contract!vars' = << [r \in Requests |-> Stage(r)'],
                         [r \in Requests |-> Verdict(r)'], told', Life' >>
BY DEF Contract!vars, Stage, Verdict, Life

(* A step that moves one request out of main's hands, or none.             *)
LEMMA NoneMoves ==
  ASSUME \A s \in Requests : Still(s), told' = told, Life' = Life
  PROVE  UNCHANGED Contract!vars
<1>1. \A s \in Requests : Stage(s)' = Stage(s) /\ Verdict(s)' = Verdict(s)
  BY StillFacts
<1> DEFINE S == [r \in Requests |-> Stage(r)]
           T == [r \in Requests |-> Stage(r)']
           V == [r \in Requests |-> Verdict(r)]
           W == [r \in Requests |-> Verdict(r)']
<1>2. S = T /\ V = W
  BY <1>1
<1>3. Contract!vars = <<S, V, told, Life>> /\ Contract!vars' = <<T, W, told', Life'>>
  BY ContractVars
<1> HIDE DEF S, T, V, W
<1> QED
  BY <1>2, <1>3

LEMMA OneMoves ==
  ASSUME IInv, IInv', NEW r \in Requests, \A s \in Requests \ {r} : Still(s),
         r \in Listed' <=> r \in Listed, Out(r), told' = told, life' = life
  PROVE  [Contract!Next]_(Contract!vars)
<1> DEFINE S == [s \in Requests |-> Stage(s)]
           T == [s \in Requests |-> Stage(s)']
           V == [s \in Requests |-> Verdict(s)]
           W == [s \in Requests |-> Verdict(s)']
<1>1. \A s \in Requests \ {r} : Stage(s)' = Stage(s) /\ Verdict(s)' = Verdict(s)
  BY StillFacts
<1>2. Life' = Life
  BY DEF Life
<1>3. CASE r \notin Listed \/ Out(r)'
  <2>1. Stage(r)' = Stage(r) /\ Verdict(r)' = Verdict(r)
    BY <1>3 DEF Stage, Verdict, Out, Submitter, Untold
  <2>2. S = T /\ V = W
    BY <1>1, <2>1
  <2>3. Contract!vars = <<S, V, told, Life>> /\ Contract!vars' = <<T, W, told', Life'>>
    BY ContractVars
  <2> HIDE DEF S, T, V, W
  <2> QED
    BY <1>2, <2>2, <2>3
<1>4. CASE r \in Listed /\ ~Out(r)'
  <2>1. /\ Stage(r) = "submitted" /\ Stage(r)' = "settled"
        /\ Verdict(r)' = Report(r)'
    BY <1>4 DEF Stage, Verdict, Out, Submitter
  <2>2. Report(r)' \in [report : Reports, exception : Throws]
    <3>1. ~locked'[r]
      BY <1>4 DEF Out
    <3> QED
      BY <3>1, ReportType
  <2>3. T = [S EXCEPT ![r] = "settled"]
    BY <1>1, <2>1
  <2>4. W = [V EXCEPT ![r] = Report(r)']
    BY <1>1, <2>1
  <2>5. Contract!Settle(r)
    BY <1>2, <2>1, <2>2, <2>3, <2>4 DEF Contract!Settle, Stage, Verdict, Life
  <2> QED
    BY <2>5 DEF Contract!Next
<1> QED
  BY <1>3, <1>4

LEMMA ContractStep ==
  ASSUME IInv, IInv', [Next]_vars
  PROVE  [Contract!Next]_(Contract!vars)
<1>1. /\ TypeOK /\ MainInv /\ ListInv /\ PhaseInv /\ CaptureInv /\ CancelInv
      /\ AnswerInv
  BY DEF IInv
<1>2. ASSUME NEW r \in Requests,
             \/ SubmitRefused(r) \/ (\E b \in Bodies : TryUpdatePostdata(r, b))
             \/ OnProgress(r) \/ Answered(r) \/ SubmitReturn(r) \/ SubmitThrow(r)
             \/ HalfStart(r) \/ HalfEnd(r) \/ PoolDrop(r)
      PROVE  [Contract!Next]_(Contract!vars)
  <2>1. Out(r) /\ told' = told /\ life' = life /\ unhandled' = unhandled
    <3>1. CASE SubmitRefused(r) \/ (\E b \in Bodies : TryUpdatePostdata(r, b))
      BY <1>1, <3>1 DEF SubmitRefused, MayTry, TryUpdatePostdata, history,
         PhaseInv, Out
    <3>2. CASE OnProgress(r) \/ Answered(r)
      BY <1>1, <3>2 DEF OnProgress, Answered, OnAnswer, history, PhaseInv, Out
    <3>3. CASE SubmitReturn(r) \/ SubmitThrow(r)
      BY <3>3 DEF SubmitReturn, SubmitThrow, Out
    <3>4. CASE HalfStart(r) \/ HalfEnd(r) \/ PoolDrop(r)
      BY <1>1, <3>4 DEF HalfStart, HalfEnd, PoolDrop, Unrun, Busy, PhaseInv, Out
    <3> QED
      BY <1>2, <3>1, <3>2, <3>3, <3>4
  <2>2. Listed' = Listed
    BY <2>1 DEF Listed
  <2>3. \/ main' = main
        \/ main = Loop /\ main' = Submitter(r)
        \/ main = Submitter(r) /\ main' = Loop
    BY <1>2 DEF SubmitRefused, TryUpdatePostdata, OnProgress, Answered, OnAnswer,
       SubmitReturn, SubmitThrow, HalfStart, HalfEnd, PoolDrop, InLoop
  <2>4. \A s \in Requests \ {r} : main' = Submitter(s) <=> main = Submitter(s)
    BY <2>3, MainValues
  <2>5. \A s \in Requests \ {r} :
           /\ locked'[s] = locked[s]
           /\ error'[s] = error[s] /\ exception'[s] = exception[s]
    BY <1>1, <1>2 DEF SubmitRefused, Reset, TryUpdatePostdata, OnProgress, Capture,
       Answered, OnAnswer, flags, SubmitReturn, SubmitThrow, HalfStart, HalfEnd,
       PoolDrop, Drop, TypeOK
  <2>6. \A s \in Requests \ {r} : Still(s)
    BY <2>2, <2>4, <2>5 DEF Still
  <2> QED
    BY <2>1, <2>2, <2>6, OneMoves
<1>3. CASE Cancels \/ Looks \/ BeginDestroy \/ UNCHANGED vars
  <2>1. told' = told /\ UNCHANGED <<unhandled, locked, error, exception>>
    BY <1>1, <1>3, LooksFacts DEF Cancels, BeginDestroy, vars, flags, history
  <2>2. main' = main \/ \A s : main # Submitter(s) /\ main' # Submitter(s)
    BY <1>1, <1>3, LooksFacts, MainValues DEF Cancels, BeginDestroy, vars
  <2>3. \A s \in Requests : Still(s)
    BY <2>1, <2>2 DEF Still, Listed
  <2>4. CASE BeginDestroy
    <3>1. Life = "open" /\ Life' = "closing"
      BY <2>4 DEF BeginDestroy, Life
    <3> DEFINE S == [r \in Requests |-> Stage(r)]
               T == [r \in Requests |-> Stage(r)']
               V == [r \in Requests |-> Verdict(r)]
               W == [r \in Requests |-> Verdict(r)']
    <3>2. S = T /\ V = W
      BY <2>3, StillFacts
    <3>3. Contract!BeginClose
      BY <2>1, <3>1, <3>2 DEF Contract!BeginClose, Stage, Verdict, Life
    <3> QED
      BY <3>3 DEF Contract!Next
  <2>5. CASE ~BeginDestroy
    <3>1. Life' = Life
      BY <1>1, <1>3, <2>5, LooksFacts DEF Cancels, vars, Life
    <3> QED
      BY <2>1, <2>3, <3>1, NoneMoves
  <2> QED
    BY <2>4, <2>5
<1>4. CASE AbortStep
  <2>1. /\ life' = life /\ told' = told /\ Listed' = Listed
        /\ exception' = exception
        /\ \A s : main # Submitter(s) /\ main' # Submitter(s)
    BY <1>1, <1>4, AbortFacts, MainValues DEF Listed
  <2>2. CASE UNCHANGED <<fetching, error, locked>>
    <3>1. \A s \in Requests : Still(s)
      BY <2>1, <2>2 DEF Still
    <3>2. Life' = Life
      BY <2>1 DEF Life
    <3> QED
      BY <2>1, <3>1, <3>2, NoneMoves
  <2>3. ASSUME NEW r \in Requests, fetching[r],
               error' = [error EXCEPT ![r] = "cancelled"],
               locked' = [locked EXCEPT ![r] = FALSE]
        PROVE  [Contract!Next]_(Contract!vars)
    <3>1. \A s \in Requests \ {r} : Still(s)
      BY <1>1, <2>1, <2>3 DEF Still, TypeOK
    <3>2. Out(r)
      BY <1>1, <2>3 DEF PhaseInv, Out
    <3> QED
      BY <2>1, <3>1, <3>2, OneMoves
  <2> QED
    BY <1>1, <1>4, <2>2, <2>3, AbortFacts
<1>5. ASSUME NEW r \in Requests, TrySubmit(r)
      PROVE  [Contract!Next]_(Contract!vars)
  <2>1. Listed' = Listed \cup {r} /\ r \notin Listed
    BY <1>1, <1>5, TrySubmitFacts DEF TrySubmit, MayTry, ListInv
  <2>2. locked' = [locked EXCEPT ![r] = TRUE] /\ main' = main /\ life' = life
        /\ life = "open" /\ told' = [told EXCEPT ![r] = Untold]
    BY <1>5 DEF TrySubmit, Reset, MayTry
  <2>3. \A s \in Requests \ {r} : Still(s)
    BY <1>1, <1>5, <2>1, <2>2 DEF TrySubmit, Reset, Still, TypeOK
  <2>4. locked'[r]
    BY <1>1, <2>2 DEF TypeOK
  <2>5. /\ Stage(r) = "idle" /\ Stage(r)' = "submitted"
        /\ Verdict(r)' = Verdict(r)
    BY <2>1, <2>4 DEF Stage, Verdict, Submitter, Untold
  <2> DEFINE S == [s \in Requests |-> Stage(s)]
             T == [s \in Requests |-> Stage(s)']
             V == [s \in Requests |-> Verdict(s)]
             W == [s \in Requests |-> Verdict(s)']
  <2>6. T = [S EXCEPT ![r] = "submitted"] /\ W = V
    BY <2>3, <2>5, StillFacts
  <2>7. Contract!Submit(r)
    BY <2>2, <2>5, <2>6 DEF Contract!Submit, Stage, Verdict, Life
  <2> QED
    BY <2>7 DEF Contract!Next
<1>6. CASE Handle
  <2>1. /\ life' = life /\ life = "open" /\ error' = error
        /\ \A s : main # Submitter(s) /\ main' # Submitter(s)
    BY <1>1, <1>6, HandleFacts, MainValues
  <2>2. PICK r \in Requests :
           /\ inFlight[r] /\ ~locked[r]
           /\ Listed' = Listed \ {r}
           /\ locked' = [locked EXCEPT ![r] = TRUE]
           /\ exception' = [exception EXCEPT ![r] = 0]
           /\ told' = [told EXCEPT ![r] = Report(r)]
    BY <1>1, <1>6, HandleFacts
  <2>3. \A s \in Requests \ {r} : Still(s)
    BY <1>1, <2>1, <2>2 DEF Still, TypeOK
  <2>4. r \in Listed
    BY <1>1, <2>1, <2>2 DEF ListInv
  <2>5. /\ Stage(r) = "settled" /\ Stage(r)' = "idle"
        /\ Verdict(r) = Report(r) /\ Verdict(r)' = Untold
    BY <2>1, <2>2, <2>4 DEF Stage, Verdict, Submitter, Untold
  <2> DEFINE S == [s \in Requests |-> Stage(s)]
             T == [s \in Requests |-> Stage(s)']
             V == [s \in Requests |-> Verdict(s)]
             W == [s \in Requests |-> Verdict(s)']
  <2>6. T = [S EXCEPT ![r] = "idle"] /\ W = [V EXCEPT ![r] = Untold]
    BY <2>3, <2>5, StillFacts
  <2>7. told' = [told EXCEPT ![r] = V[r]]
    BY <2>2, <2>5
  <2>8. Contract!Handle(r)
    BY <2>1, <2>5, <2>6, <2>7 DEF Contract!Handle, Stage, Verdict, Life
  <2> QED
    BY <2>8 DEF Contract!Next
<1>7. CASE EndDestroy
  <2>1. /\ life = "closing" /\ life' = "destroyed" /\ told' = told
        /\ unhandled' = <<>>
    BY <1>7 DEF EndDestroy, history
  <2>2. Listed' = {}
    BY <2>1 DEF Listed, Range
  <2>3. \A r \in Requests : Stage(r)' = "idle" /\ Verdict(r)' = Untold
    BY <2>2 DEF Stage, Verdict, Submitter, Untold
  <2> DEFINE T == [r \in Requests |-> Stage(r)']
             W == [r \in Requests |-> Verdict(r)']
  <2>4. T = [r \in Requests |-> "idle"] /\ W = [r \in Requests |-> Untold]
    BY <2>3
  <2>5. Contract!EndClose
    BY <2>1, <2>4 DEF Contract!EndClose, Stage, Verdict, Life
  <2> QED
    BY <2>5 DEF Contract!Next
<1>8. CASE CancelAll \/ \E r \in Requests : Cancel(r)
  BY <1>1, <1>3, <1>8, CancelFacts
<1> DEFINE Goal == [Contract!Next]_(Contract!vars)
<1>9. Goal
  <2> HIDE DEF Goal
  <2>1. ASSUME NEW r \in Requests,
               \/ TrySubmit(r) \/ SubmitRefused(r)
               \/ (\E b \in Bodies : TryUpdatePostdata(r, b))
               \/ Cancel(r)
               \/ OnProgress(r) \/ Answered(r)
               \/ SubmitReturn(r) \/ SubmitThrow(r)
               \/ HalfStart(r) \/ HalfEnd(r) \/ PoolDrop(r)
        PROVE  Goal
    <3>1. CASE Cancel(r)
      BY <1>8, <3>1 DEF Goal
    <3>2. CASE TrySubmit(r)
      BY <1>5, <3>2 DEF Goal
    <3> QED
      BY <1>2, <2>1, <3>1, <3>2 DEF Goal
  <2>2. CASE Polling
    BY <1>3, <1>4, <1>6, <2>2 DEF Polling, Looks, Goal
  <2>3. CASE CancelAll \/ BeginDestroy \/ EndDestroy \/ UNCHANGED vars
    BY <1>3, <1>7, <1>8, <2>3 DEF Goal
  <2> QED
    BY <2>1, <2>2, <2>3 DEF Next
<1> QED
  BY <1>9

(* To main a fetch_context is an HttpContext whose destructor does not     *)
(* wait: one answer for each submission, fixed before main is told it,     *)
(* told once, and none for a submission refused or withdrawn.              *)
THEOREM FetchKeepsContract == Spec => ImplementsContract
<1>1. Init => Contract!Init
  BY DEF Init, All, Listed, Range, Loop, Contract!Init
<1>2. IInv /\ IInv' /\ [Next]_vars => [Contract!Next]_(Contract!vars)
  BY ContractStep
<1> QED
  BY <1>1, <1>2, FetchInvariant, PTL DEF Spec, ImplementsContract, Contract!Spec

=============================================================================
