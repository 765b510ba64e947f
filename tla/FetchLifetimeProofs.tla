------------------------ MODULE FetchLifetimeProofs ------------------------
(***************************************************************************)
(* The fetch backend's objects are there when they are used, and a         *)
(* submission ends once, for any requests, any memory for fetches and main *)
(* calls inside one another to any depth.                                  *)
(***************************************************************************)
EXTENDS FetchLifetime, Integers, SequenceTheorems, TLAPS

Depth == Len(calls)
Kept(k) == \A i \in 1..k : calls'[i] = calls[i]

-----------------------------------------------------------------------------
(* Main's calls as a stack.                                                *)

LEMMA FrontFacts ==
  ASSUME NEW S, NEW s \in Seq(S), s # <<>>
  PROVE  /\ Len(s) \in Nat \ {0}
         /\ Front(s) \in Seq(S) /\ Len(Front(s)) = Len(s) - 1
         /\ \A i \in 1..(Len(s) - 1) : Front(s)[i] = s[i]
         /\ Last(s) = s[Len(s)] /\ Last(s) \in S
<1>1. Len(s) \in Nat \ {0}
  BY EmptySeq
<1>2. /\ SubSeq(s, 1, Len(s) - 1) \in Seq(S)
      /\ Len(SubSeq(s, 1, Len(s) - 1)) = Len(s) - 1
      /\ \A i \in 1..(Len(s) - 1) : SubSeq(s, 1, Len(s) - 1)[i] = s[i]
  <2> DEFINE n == Len(s) - 1
  <2>1. n \in Nat /\ \A i \in 1..n : s[i] \in S
    BY <1>1, ElementOfSeq
  <2> HIDE DEF n
  <2>2. /\ SubSeq(s, 1, n) \in Seq(S)
        /\ Len(SubSeq(s, 1, n)) = IF 1 <= n THEN n - 1 + 1 ELSE 0
        /\ \A i \in 1..(n - 1 + 1) : SubSeq(s, 1, n)[i] = s[1 + i - 1]
    BY <2>1, SubSeqProperties
  <2>3. Len(SubSeq(s, 1, n)) = n /\ \A i \in 1..n : SubSeq(s, 1, n)[i] = s[i]
    BY <2>1, <2>2
  <2> QED
    BY <2>2, <2>3 DEF n
<1>3. Last(s) = s[Len(s)] /\ s[Len(s)] \in S
  BY <1>1, ElementOfSeq DEF Last
<1> QED
  BY <1>1, <1>2, <1>3 DEF Front

LEMMA AppendFacts ==
  ASSUME NEW S, NEW s \in Seq(S), NEW c \in S
  PROVE  /\ Append(s, c) \in Seq(S) /\ Len(Append(s, c)) = Len(s) + 1
         /\ Len(s) \in Nat /\ DOMAIN s = 1..Len(s)
         /\ \A i \in 1..Len(s) : Append(s, c)[i] = s[i]
         /\ Append(s, c)[Len(s) + 1] = c
BY AppendProperties, LenProperties

LEMMA CallType ==
  ASSUME NEW at \in Places, NEW r \in Requests \cup {Null},
         NEW f \in Fetches \cup {Null}
  PROVE  /\ Call(at, r, f) \in Calls
         /\ Call(at, r, f).at = at /\ Call(at, r, f).request = r
         /\ Call(at, r, f).fetch = f
BY DEF Call, Calls

(* The innermost call.                                                     *)
LEMMA HereFacts ==
  ASSUME TypeOK, calls # <<>>
  PROVE  /\ Depth \in Nat \ {0} /\ DOMAIN calls = 1..Depth
         /\ Here = calls[Depth] /\ Here \in Calls
BY FrontFacts DEF TypeOK, Depth, Here

LEMMA Returned ==
  ASSUME TypeOK, calls # <<>>, calls' = Return
  PROVE  /\ calls' \in Seq(Calls) /\ Depth' = Depth - 1
         /\ Depth \in Nat \ {0} /\ DOMAIN calls = 1..Depth
         /\ DOMAIN calls' = 1..(Depth - 1) /\ Kept(Depth - 1)
<1>1. /\ Return \in Seq(Calls) /\ Len(Return) = Depth - 1 /\ Depth \in Nat \ {0}
      /\ \A i \in 1..(Depth - 1) : Return[i] = calls[i]
  BY FrontFacts DEF TypeOK, Return, Depth
<1> QED
  BY <1>1 DEF Kept, Depth, TypeOK

LEMMA Called ==
  ASSUME TypeOK, NEW c \in Calls, calls' = Append(calls, c)
  PROVE  /\ calls' \in Seq(Calls) /\ Depth' = Depth + 1
         /\ Depth \in Nat /\ DOMAIN calls = 1..Depth
         /\ DOMAIN calls' = 1..(Depth + 1) /\ Kept(Depth)
         /\ calls'[Depth + 1] = c
BY AppendFacts DEF TypeOK, Depth, Kept

LEMMA Changed ==
  ASSUME TypeOK, calls # <<>>, NEW c \in Calls, calls' = Append(Return, c)
  PROVE  /\ calls' \in Seq(Calls) /\ Depth' = Depth
         /\ Depth \in Nat \ {0} /\ DOMAIN calls = 1..Depth
         /\ DOMAIN calls' = 1..Depth /\ Kept(Depth - 1)
         /\ calls'[Depth] = c
<1>1. /\ Return \in Seq(Calls) /\ Len(Return) = Depth - 1 /\ Depth \in Nat \ {0}
      /\ \A i \in 1..(Depth - 1) : Return[i] = calls[i]
  BY FrontFacts DEF TypeOK, Return, Depth
<1>2. /\ Append(Return, c) \in Seq(Calls)
      /\ Len(Append(Return, c)) = (Depth - 1) + 1
      /\ \A i \in 1..(Depth - 1) : Append(Return, c)[i] = Return[i]
      /\ Append(Return, c)[(Depth - 1) + 1] = c
  BY <1>1, AppendFacts
<1>3. (Depth - 1) + 1 = Depth
  BY <1>1
<1> QED
  BY <1>1, <1>2, <1>3 DEF Kept, Depth, TypeOK

LEMMA ChangedAndCalled ==
  ASSUME TypeOK, calls # <<>>, NEW c \in Calls, NEW d \in Calls,
         calls' = Append(Append(Return, c), d)
  PROVE  /\ calls' \in Seq(Calls) /\ Depth' = Depth + 1
         /\ Depth \in Nat \ {0} /\ DOMAIN calls = 1..Depth
         /\ DOMAIN calls' = 1..(Depth + 1) /\ Kept(Depth - 1)
         /\ calls'[Depth] = c /\ calls'[Depth + 1] = d
<1>1. /\ Return \in Seq(Calls) /\ Len(Return) = Depth - 1 /\ Depth \in Nat \ {0}
      /\ \A i \in 1..(Depth - 1) : Return[i] = calls[i]
  BY FrontFacts DEF TypeOK, Return, Depth
<1> DEFINE s == Append(Return, c)
<1>2. /\ s \in Seq(Calls) /\ Len(s) = Depth
      /\ \A i \in 1..(Depth - 1) : s[i] = Return[i]
      /\ s[Depth] = c
  <2>1. (Depth - 1) + 1 = Depth
    BY <1>1
  <2> QED
    BY <1>1, <2>1, AppendFacts
<1>3. /\ Append(s, d) \in Seq(Calls) /\ Len(Append(s, d)) = Depth + 1
      /\ \A i \in 1..Depth : Append(s, d)[i] = s[i]
      /\ Append(s, d)[Depth + 1] = d
  <2> HIDE DEF s
  <2> QED
    BY <1>2, AppendFacts
<1>4. 1..(Depth - 1) \subseteq 1..Depth /\ Depth \in 1..Depth
  BY <1>1
<1> HIDE DEF s
<1>5. calls' = Append(s, d)
  BY DEF s
<1> QED
  BY <1>1, <1>2, <1>3, <1>4, <1>5 DEF Kept, Depth, TypeOK

LEMMA CalledTwice ==
  ASSUME TypeOK, NEW c \in Calls, NEW d \in Calls,
         calls' = Append(Append(calls, c), d)
  PROVE  /\ calls' \in Seq(Calls) /\ Depth' = Depth + 2
         /\ Depth \in Nat /\ DOMAIN calls = 1..Depth
         /\ DOMAIN calls' = 1..(Depth + 2) /\ Kept(Depth)
         /\ calls'[Depth + 1] = c /\ calls'[Depth + 2] = d
<1> DEFINE s == Append(calls, c)
<1>1. /\ s \in Seq(Calls) /\ Len(s) = Depth + 1
      /\ Depth \in Nat /\ DOMAIN calls = 1..Depth
      /\ \A i \in 1..Depth : s[i] = calls[i]
      /\ s[Depth + 1] = c
  BY AppendFacts DEF TypeOK, Depth
<1> HIDE DEF s
<1>2. /\ Append(s, d) \in Seq(Calls) /\ Len(Append(s, d)) = (Depth + 1) + 1
      /\ \A i \in 1..(Depth + 1) : Append(s, d)[i] = s[i]
      /\ Append(s, d)[(Depth + 1) + 1] = d
  BY <1>1, AppendFacts
<1>3. /\ 1..Depth \subseteq 1..(Depth + 1) /\ Depth + 1 \in 1..(Depth + 1)
      /\ (Depth + 1) + 1 = Depth + 2
  BY <1>1
<1>4. calls' = Append(s, d)
  BY DEF s
<1> QED
  BY <1>1, <1>2, <1>3, <1>4 DEF Kept, Depth

-----------------------------------------------------------------------------
(* The innermost call, and the one or two about which it is made, apart,   *)
(* main's calls are handlers'.                                             *)

LEMMA BeneathFacts ==
  ASSUME TypeOK, CallsInv, NEW i \in 1..(Depth - 1)
  PROVE  \/ calls[i].at = "handling"
         \/ i = Depth - 1 /\ Within(calls[i], Here)
         \/ /\ i = Depth - 2 /\ calls[i].at \in {"aborting", "finished"}
            /\ calls[i + 1].at = "deleting" /\ Here.at = "answering"
<1>1. calls # <<>>
  BY EmptySeq DEF TypeOK, Depth
<1>2. Depth \in Nat \ {0} /\ DOMAIN calls = 1..Depth /\ Here = calls[Depth]
  BY <1>1, HereFacts
<1>3. /\ i + 1 \in DOMAIN calls /\ i + 1 # 1 /\ (i + 1) - 1 = i
      /\ i + 1 = Depth \/ i + 2 \in DOMAIN calls
      /\ i + 2 # 1 /\ (i + 2) - 1 = i + 1
      /\ i + 2 = Depth \/ i + 2 \notin DOMAIN calls \/ i + 3 \in DOMAIN calls
      /\ i + 3 # 1 /\ (i + 3) - 1 = i + 2
      /\ i + 1 = Depth => i = Depth - 1
      /\ i + 2 = Depth => i = Depth - 2
  BY <1>2
<1>4. Within(calls[i], calls[i + 1])
  BY <1>3 DEF CallsInv
<1>5. i + 2 \in DOMAIN calls => Within(calls[i + 1], calls[i + 2])
  BY <1>3 DEF CallsInv
<1>6. i + 3 \in DOMAIN calls => Within(calls[i + 2], calls[i + 3])
  BY <1>3 DEF CallsInv
<1> QED
  BY <1>2, <1>3, <1>4, <1>5, <1>6 DEF Within

(* An answer that no close_fetch asked for, and what follows it, come when *)
(* main is in no other call.                                               *)
LEMMA AnswerIsFirst ==
  ASSUME TypeOK, CallsInv, calls # <<>>,
         Here.at \in {"finishing", "finished", "submitting"}
  PROVE  Depth = 1
<1>1. Depth \in Nat \ {0} /\ DOMAIN calls = 1..Depth /\ Here = calls[Depth]
  BY HereFacts
<1>2. Depth \in DOMAIN calls
  BY <1>1
<1> QED
  BY <1>1, <1>2 DEF CallsInv, Within

(* Whatever main has been called in, its first call is not such an answer. *)
LEMMA FirstFacts ==
  ASSUME TypeOK, CallsInv
  PROVE  /\ calls # <<>> => 1 \in DOMAIN calls
         /\ Depth \in Nat /\ (Depth = 0 => calls = <<>>)
         /\ Depth # 0 /\ Depth # 1 => calls[1].at # "answering"
<1>1. Depth \in Nat /\ DOMAIN calls = 1..Depth /\ (Depth = 0 => calls = <<>>)
  BY EmptySeq DEF TypeOK, Depth
<1>2. calls # <<>> => 1 \in DOMAIN calls
  BY HereFacts
<1>3. ASSUME Depth # 0, Depth # 1
      PROVE  calls[1].at # "answering"
  <2>1. 2 \in DOMAIN calls /\ 2 # 1 /\ 2 - 1 = 1
    BY <1>1, <1>3
  <2>2. Within(calls[2 - 1], calls[2])
    BY <2>1 DEF CallsInv
  <2>3. Within(calls[1], calls[2])
    BY <2>1, <2>2
  <2> QED
    BY <2>3 DEF Within
<1> QED
  BY <1>1, <1>2, <1>3

LEMMA ProgramCalls ==
  ASSUME TypeOK, CallsInv, InProgram
  PROVE  \A i \in DOMAIN calls : calls[i].at = "handling"
<1>1. CASE calls = <<>>
  BY <1>1
<1>2. CASE calls # <<>> /\ Here.at = "handling"
  <2>1. /\ Depth \in Nat \ {0} /\ DOMAIN calls = 1..Depth
        /\ calls[Depth].at = "handling"
    BY <1>2, HereFacts
  <2>2. \A i \in 1..(Depth - 1) : calls[i].at = "handling"
    BY <1>2, BeneathFacts DEF Within
  <2> QED
    BY <2>1, <2>2
<1> QED
  BY <1>1, <1>2 DEF InProgram, InLoop, In, Here

-----------------------------------------------------------------------------
(* What each action does to the stack.                                     *)

LEMMA HereType ==
  ASSUME TypeOK, CallsInv, calls # <<>>
  PROVE  /\ Depth \in Nat \ {0} /\ DOMAIN calls = 1..Depth
         /\ Here = calls[Depth] /\ Here.at \in Places
         /\ IF Here.at = "answering" THEN Here.request = Null
            ELSE Here.request \in Requests
         /\ IF Here.at \in {"answering", "finishing", "closing", "deleting"}
            THEN Here.fetch \in Fetches ELSE Here.fetch = Null
<1>1. /\ Depth \in Nat \ {0} /\ DOMAIN calls = 1..Depth
      /\ Here = calls[Depth] /\ Here \in Calls
  BY HereFacts
<1>2. Depth \in DOMAIN calls
  BY <1>1
<1>3. /\ Here.request = Null <=> Here.at = "answering"
      /\ Here.fetch # Null <=>
            Here.at \in {"answering", "finishing", "closing", "deleting"}
  BY <1>1, <1>2 DEF CallsInv, Sound
<1> QED
  BY <1>1, <1>3 DEF Calls

LEMMA ClosingFacts ==
  ASSUME TypeOK, CallsInv, EmscriptenFetchClose
  PROVE  LET r == Here.request
             f == Here.fetch
         IN
         /\ r \in Requests /\ f \in Fetches
         /\ Depth \in Nat \ {0} /\ DOMAIN calls = 1..Depth
         /\ calls[Depth] = Here /\ Here.at = "closing"
         /\ calls' \in Seq(Calls) /\ DOMAIN calls' = 1..Depth'
         /\ Kept(Depth - 1) /\ calls'[Depth] = Call("deleting", r, f)
         /\ \/ /\ state[f] = "pending"
               /\ state' = [state EXCEPT ![f] = "closed"]
               /\ Depth' = Depth + 1
               /\ calls'[Depth + 1] = Call("answering", Null, f)
            \/ /\ state[f] # "pending" /\ state' = state
               /\ Depth' = Depth
<1> DEFINE r == Here.request
           f == Here.fetch
           c == Call("deleting", r, f)
           d == Call("answering", Null, f)
<1>1. calls # <<>> /\ Here.at = "closing"
  BY DEF EmscriptenFetchClose, In, Here
<1>2. /\ r \in Requests /\ f \in Fetches /\ Depth \in Nat \ {0}
      /\ DOMAIN calls = 1..Depth /\ calls[Depth] = Here
  BY <1>1, HereType
<1>3. c \in Calls /\ d \in Calls
  BY <1>2, CallType DEF Places
<1>4. \/ /\ state[f] = "pending"
         /\ state' = [state EXCEPT ![f] = "closed"]
         /\ calls' = Append(Append(Return, c), d)
      \/ /\ state[f] # "pending" /\ state' = state
         /\ calls' = Append(Return, c)
  BY DEF EmscriptenFetchClose
<1> HIDE DEF r, f, c, d
<1>5. CASE calls' = Append(Append(Return, c), d) /\ state[f] = "pending"
  BY <1>1, <1>2, <1>3, <1>4, <1>5, ChangedAndCalled DEF r, f, c, d
<1>6. CASE calls' = Append(Return, c) /\ state[f] # "pending"
  BY <1>1, <1>2, <1>3, <1>4, <1>6, Changed DEF r, f, c, d
<1> QED
  BY <1>4, <1>5, <1>6

(* A call that returns.                                                    *)
Returning(place) ==
    /\ Depth \in Nat \ {0} /\ DOMAIN calls = 1..Depth
    /\ calls[Depth] = Here /\ Here.at = place
    /\ calls' \in Seq(Calls) /\ Depth' = Depth - 1 /\ DOMAIN calls' = 1..(Depth - 1)
    /\ Kept(Depth - 1)

LEMMA ReturningFacts ==
  ASSUME TypeOK, CallsInv, NEW place, In(place), calls' = Return
  PROVE  Returning(place)
<1>1. calls # <<>> /\ Here.at = place
  BY DEF In, Here
<1> QED
  BY <1>1, Returned, HereFacts DEF Returning

(* A call that goes on elsewhere.                                          *)
Moving(place, c) ==
    /\ Depth \in Nat \ {0} /\ DOMAIN calls = 1..Depth
    /\ calls[Depth] = Here /\ Here.at = place
    /\ calls' \in Seq(Calls) /\ Depth' = Depth /\ DOMAIN calls' = 1..Depth
    /\ Kept(Depth - 1) /\ calls'[Depth] = c

LEMMA MovingFacts ==
  ASSUME TypeOK, CallsInv, NEW place, In(place), NEW c \in Calls,
         calls' = Append(Return, c)
  PROVE  Moving(place, c)
<1>1. calls # <<>> /\ Here.at = place
  BY DEF In, Here
<1> QED
  BY <1>1, Changed, HereFacts DEF Moving

LEMMA OnAnswerFacts ==
  ASSUME TypeOK, CallsInv, OnAnswer
  PROVE  /\ Here.fetch \in Fetches
         /\ \/ userData[Here.fetch] = Null /\ Returning("answering")
            \/ /\ userData[Here.fetch] \in Requests
               /\ Moving("answering",
                         Call("finishing", userData[Here.fetch], Here.fetch))
<1>1. In("answering") /\ calls # <<>> /\ Here.at = "answering"
  BY DEF OnAnswer, In, Here
<1>2. Here.fetch \in Fetches
  BY <1>1, HereType
<1>3. userData[Here.fetch] \in Requests \cup {Null}
  BY <1>2 DEF TypeOK
<1>4. CASE userData[Here.fetch] = Null
  <2>1. calls' = Return
    BY <1>4 DEF OnAnswer
  <2> QED
    BY <1>1, <1>2, <1>4, <2>1, ReturningFacts
<1>5. CASE userData[Here.fetch] # Null
  <2>1. calls' = Append(Return, Call("finishing", userData[Here.fetch], Here.fetch))
    BY <1>5 DEF OnAnswer
  <2>2. Call("finishing", userData[Here.fetch], Here.fetch) \in Calls
    BY <1>2, <1>3, CallType DEF Places
  <2> QED
    BY <1>1, <1>2, <1>3, <1>5, <2>1, <2>2, MovingFacts
<1> QED
  BY <1>4, <1>5

LEMMA MainFinishFacts ==
  ASSUME TypeOK, CallsInv, FetchInv, MainFinish
  PROVE  LET r == Here.request
             f == Here.fetch
         IN
         /\ r \in Requests /\ f \in Fetches /\ pFetch[r] = f
         /\ Depth \in Nat \ {0} /\ DOMAIN calls = 1..Depth
         /\ calls[Depth] = Here /\ Here.at = "finishing"
         /\ calls' \in Seq(Calls) /\ Depth' = Depth + 1
         /\ DOMAIN calls' = 1..(Depth + 1) /\ Kept(Depth - 1)
         /\ calls'[Depth] = Call("finished", r, Null)
         /\ calls'[Depth + 1] = Call("closing", r, f)
         /\ pFetch' = [pFetch EXCEPT ![r] = Null]
         /\ userData' = [userData EXCEPT ![f] = Null]
<1> DEFINE r == Here.request
           f == Here.fetch
           c == Call("finished", r, Null)
           d == Call("closing", r, f)
<1>1. calls # <<>> /\ Here.at = "finishing"
  BY DEF MainFinish, In, Here
<1>2. /\ r \in Requests /\ f \in Fetches /\ Depth \in Nat \ {0}
      /\ DOMAIN calls = 1..Depth /\ calls[Depth] = Here
  BY <1>1, HereType
<1>3. c \in Calls /\ d \in Calls
  BY <1>2, CallType DEF Places
<1>4. pFetch[r] = f /\ f # Null
  <2>1. Depth \in DOMAIN calls
    BY <1>2
  <2> QED
    BY <1>1, <1>2, <2>1, FetchPointersAssumption DEF FetchInv, HasFetch
<1>5. /\ calls' = Append(Append(Return, c), d)
      /\ pFetch' = [pFetch EXCEPT ![r] = Null]
      /\ userData' = [userData EXCEPT ![f] = Null]
  BY <1>4 DEF MainFinish, CloseFetch
<1> HIDE DEF r, f, c, d
<1> QED
  BY <1>1, <1>2, <1>3, <1>4, <1>5, ChangedAndCalled DEF r, f, c, d

LEMMA AbortFacts ==
  ASSUME TypeOK, CallsInv, NEW r \in Requests, Abort(r)
  PROVE  LET f == pFetch[r] IN
         /\ f \in Fetches
         /\ Depth \in Nat /\ DOMAIN calls = 1..Depth
         /\ \A i \in 1..Depth : calls[i].at = "handling"
         /\ calls' \in Seq(Calls) /\ Depth' = Depth + 2
         /\ DOMAIN calls' = 1..(Depth + 2) /\ Kept(Depth)
         /\ calls'[Depth + 1] = Call("aborting", r, Null)
         /\ calls'[Depth + 2] = Call("closing", r, f)
         /\ pFetch' = [pFetch EXCEPT ![r] = Null]
         /\ userData' = [userData EXCEPT ![f] = Null]
<1> DEFINE f == pFetch[r]
           c == Call("aborting", r, Null)
           d == Call("closing", r, f)
<1>1. f \in Fetches /\ f # Null /\ InProgram
  BY DEF Abort, TypeOK
<1>2. c \in Calls /\ d \in Calls
  BY <1>1, CallType DEF Places
<1>3. /\ calls' = Append(Append(calls, c), d)
      /\ pFetch' = [pFetch EXCEPT ![r] = Null]
      /\ userData' = [userData EXCEPT ![f] = Null]
  BY <1>1 DEF Abort, CloseFetch
<1>4. \A i \in DOMAIN calls : calls[i].at = "handling"
  BY <1>1, ProgramCalls
<1> HIDE DEF f, c, d
<1> QED
  BY <1>1, <1>2, <1>3, <1>4, CalledTwice DEF f, c, d

LEMMA ClaimFacts ==
  ASSUME TypeOK, CallsInv, FetchInv, NEW r \in Requests, Claim(r)
  PROVE  /\ pFetch[r] = Null /\ UNCHANGED <<pFetch, userData>>
         /\ Depth \in Nat /\ DOMAIN calls = 1..Depth
         /\ \A i \in 1..Depth : calls[i].at = "handling"
         /\ calls' \in Seq(Calls) /\ Depth' = Depth + 1
         /\ DOMAIN calls' = 1..(Depth + 1) /\ Kept(Depth)
         /\ calls'[Depth + 1] = Call("handling", r, Null)
<1> DEFINE c == Call("handling", r, Null)
<1>1. pFetch[r] = Null /\ InProgram
  BY DEF Claim, FetchInv, Fetching, Unended
<1>2. c \in Calls
  BY CallType DEF Places
<1>3. calls' = Append(calls, c) /\ UNCHANGED <<pFetch, userData>>
  BY <1>1 DEF Claim, CloseFetch
<1>4. \A i \in DOMAIN calls : calls[i].at = "handling"
  BY <1>1, ProgramCalls
<1> HIDE DEF c
<1> QED
  BY <1>1, <1>2, <1>3, <1>4, Called DEF c

(* A first call.                                                           *)
Starting(c) ==
    /\ Depth = 0 /\ DOMAIN calls = {} /\ Depth' = 1
    /\ calls' \in Seq(Calls) /\ DOMAIN calls' = {1} /\ calls'[1] = c

LEMMA StartingFacts ==
  ASSUME InLoop, NEW c \in Calls, calls' = <<c>>
  PROVE  Starting(c)
<1>1. Len(<<c>>) = 1 /\ DOMAIN <<c>> = {1} /\ <<c>>[1] = c /\ <<c>> \in Seq(Calls)
  OBVIOUS
<1>2. calls = <<>> /\ Len(<<>>) = 0 /\ DOMAIN <<>> = {}
  BY DEF InLoop
<1> QED
  BY <1>1, <1>2 DEF Starting, Depth

LEMMA AnswerFacts ==
  ASSUME NEW f \in Fetches, Answer(f)
  PROVE  Starting(Call("answering", Null, f))
<1>1. Call("answering", Null, f) \in Calls
  BY CallType DEF Places
<1> QED
  BY <1>1, StartingFacts DEF Answer

LEMMA AbandonFacts ==
  ASSUME TypeOK, NEW r \in Requests, Abandon(r)
  PROVE  LET f == pFetch[r] IN
         \/ f = Null /\ UNCHANGED <<calls, pFetch, userData>>
         \/ /\ f \in Fetches /\ Starting(Call("closing", r, f))
            /\ pFetch' = [pFetch EXCEPT ![r] = Null]
            /\ userData' = [userData EXCEPT ![f] = Null]
<1>1. CASE pFetch[r] = Null
  BY <1>1 DEF Abandon, CloseFetch
<1>2. CASE pFetch[r] # Null
  <2>1. pFetch[r] \in Fetches /\ Call("closing", r, pFetch[r]) \in Calls
    BY <1>2, CallType DEF TypeOK, Places
  <2>2. /\ InLoop /\ calls' = <<Call("closing", r, pFetch[r])>>
        /\ pFetch' = [pFetch EXCEPT ![r] = Null]
        /\ userData' = [userData EXCEPT ![pFetch[r]] = Null]
    BY <1>2 DEF Abandon, CloseFetch, InLoop
  <2> QED
    BY <2>1, <2>2, StartingFacts
<1> QED
  BY <1>1, <1>2

LEMMA RunWorkerHalfFacts ==
  ASSUME TypeOK, CallsInv, RunWorkerHalf
  PROVE  LET r == Here.request IN
         /\ r \in Requests /\ life = "open"
         /\ Moving("finished", Call("submitting", r, Null))
         /\ working' = [working EXCEPT ![r] = TRUE]
<1>1. In("finished") /\ calls # <<>> /\ Here.at = "finished"
  BY DEF RunWorkerHalf, In, Here
<1>2. Here.request \in Requests /\ Depth \in DOMAIN calls /\ Here = calls[Depth]
  BY <1>1, HereType
<1>3. life = "open"
  BY <1>1, <1>2 DEF CallsInv, Sound
<1>4. Call("submitting", Here.request, Null) \in Calls
  BY <1>2, CallType DEF Places
<1>5. /\ calls' = Append(Return, Call("submitting", Here.request, Null))
      /\ working' = [working EXCEPT ![Here.request] = TRUE]
  BY <1>3 DEF RunWorkerHalf
<1> QED
  BY <1>1, <1>2, <1>3, <1>4, <1>5, MovingFacts

(* The calls that end and do nothing more to the stack.                    *)
LEMMA EndingFacts ==
  ASSUME TypeOK, CallsInv,
         DeleteHolder \/ SubmitterReturns \/ AbortEnds \/ HandlerReturns
  PROVE  \/ DeleteHolder /\ Returning("deleting") /\ Here.fetch \in Fetches
         \/ SubmitterReturns /\ Returning("submitting")
         \/ AbortEnds /\ Returning("aborting") /\ Here.request \in Requests
         \/ HandlerReturns /\ Returning("handling")
<1>1. CASE DeleteHolder
  <2>1. In("deleting") /\ calls' = Return /\ calls # <<>> /\ Here.at = "deleting"
    BY <1>1 DEF DeleteHolder, In, Here
  <2> QED
    BY <1>1, <2>1, ReturningFacts, HereType
<1>2. CASE SubmitterReturns
  BY <1>2, ReturningFacts DEF SubmitterReturns
<1>3. CASE AbortEnds
  <2>1. In("aborting") /\ calls' = Return /\ calls # <<>> /\ Here.at = "aborting"
    BY <1>3 DEF AbortEnds, In, Here
  <2> QED
    BY <1>3, <2>1, ReturningFacts, HereType
<1>4. CASE HandlerReturns
  BY <1>4, ReturningFacts DEF HandlerReturns
<1> QED
  BY <1>1, <1>2, <1>3, <1>4

-----------------------------------------------------------------------------
(* Types.                                                                  *)

LEMMA TypeStep ==
  ASSUME IInv, [Next]_vars
  PROVE  TypeOK'
<1> USE DEF TypeOK
<1>0. TypeOK /\ CallsInv /\ FetchInv
  BY DEF IInv
<1> USE <1>0
<1>1. ASSUME NEW r \in Requests, NEW f \in Fetches, TrySubmit(r, f)
      PROVE  TypeOK'
  BY <1>1 DEF TrySubmit, tasks
<1>2. ASSUME NEW r \in Requests, SubmitRefused(r) \/ Cancel(r) \/ DropName(r)
      PROVE  TypeOK'
  BY <1>2 DEF SubmitRefused, Cancel, DropName, flags, tasks, fetchVars
<1>3. ASSUME NEW r \in Requests, TaskEnds(r) \/ Release(r)
      PROVE  TypeOK'
  <2>1. CASE TaskEnds(r)
    <3>1. ended[r] + 1 \in Nat /\ spent[r] + 1 \in Nat
      OBVIOUS
    <3> QED
      BY <2>1, <3>1 DEF TaskEnds, Unlock, fetchVars
  <2>2. CASE Release(r)
    <3>1. spent[r] - 1 \in Nat
      BY <2>2 DEF Release
    <3> QED
      BY <2>2, <3>1 DEF Release, flags, fetchVars
  <2> QED
    BY <1>3, <2>1, <2>2
<1>4. ASSUME NEW r \in Requests, Abort(r)
      PROVE  TypeOK'
  BY <1>4, AbortFacts DEF Abort, flags, tasks
<1>5. ASSUME NEW r \in Requests, Claim(r)
      PROVE  TypeOK'
  BY <1>5, ClaimFacts DEF Claim, tasks
<1>6. ASSUME NEW r \in Requests, Abandon(r)
      PROVE  TypeOK'
  <2>1. calls' \in Seq(Calls)
        /\ pFetch' \in [Requests -> Fetches \cup {Null}]
        /\ userData' \in [Fetches -> Requests \cup {Null}]
    BY <1>6, AbandonFacts DEF Starting
  <2> QED
    BY <1>6, <2>1 DEF Abandon, tasks
<1>7. ASSUME NEW r \in Requests, Destroy(r)
      PROVE  TypeOK'
  BY <1>7 DEF Destroy, flags, tasks, fetchVars
<1>8. ASSUME NEW f \in Fetches, Answer(f)
      PROVE  TypeOK'
  BY <1>8, AnswerFacts DEF Answer, Starting, flags, tasks
<1>9. ASSUME EmscriptenFetchClose
      PROVE  TypeOK'
  BY <1>9, ClosingFacts DEF EmscriptenFetchClose, flags, tasks
<1>10. ASSUME DeleteHolder \/ SubmitterReturns \/ AbortEnds \/ HandlerReturns
       PROVE  TypeOK'
  <2>1. CASE DeleteHolder
    BY <2>1, EndingFacts DEF Returning, DeleteHolder, flags, tasks
  <2>2. CASE SubmitterReturns \/ HandlerReturns
    <3>1. calls' \in Seq(Calls)
      BY <2>2, ReturningFacts DEF Returning, SubmitterReturns, HandlerReturns
    <3> QED
      BY <2>2, <3>1 DEF SubmitterReturns, HandlerReturns, flags, tasks, fetchVars
  <2>3. CASE AbortEnds
    <3>1. calls' \in Seq(Calls)
      BY <2>3, ReturningFacts DEF Returning, AbortEnds
    <3>2. Here.request \in Requests
      <4>1. calls # <<>> /\ Here.at = "aborting"
        BY <2>3 DEF AbortEnds, In, Here
      <4> QED
        BY <4>1, HereType
    <3>3. ended[Here.request] + 1 \in Nat
      BY <3>2
    <3> QED
      BY <2>3, <3>1, <3>2, <3>3 DEF AbortEnds, Unlock, tasks, fetchVars
  <2> QED
    BY <1>10, <2>1, <2>2, <2>3
<1>11. ASSUME OnAnswer
       PROVE  TypeOK'
  BY <1>11, OnAnswerFacts DEF OnAnswer, Returning, Moving, flags, tasks, fetchVars
<1>12. ASSUME MainFinish
       PROVE  TypeOK'
  BY <1>12, MainFinishFacts DEF MainFinish, flags, tasks
<1>13. ASSUME RunWorkerHalf
       PROVE  TypeOK'
  BY <1>13, RunWorkerHalfFacts DEF RunWorkerHalf, Moving, flags, fetchVars
<1>14. ASSUME BeginDestroy \/ EndDestroy
       PROVE  TypeOK'
  BY <1>14 DEF BeginDestroy, EndDestroy, flags, tasks, fetchVars
<1>15. CASE UNCHANGED vars
  BY <1>15 DEF vars, flags, tasks, fetchVars
<1> QED
  BY <1>1, <1>2, <1>3, <1>4, <1>5, <1>6, <1>7, <1>8, <1>9, <1>10, <1>11, <1>12,
     <1>13, <1>14, <1>15 DEF Next, Returns

-----------------------------------------------------------------------------
(* Main's calls stay the ones CallsInv allows.  Only the calls above those *)
(* that are kept need looking at.                                          *)

LEMMA CallsKept ==
  ASSUME TypeOK, CallsInv, NEW k \in 0..Depth, Kept(k), life' = life \/ k = 0,
         DOMAIN calls = 1..Depth, DOMAIN calls' = 1..Depth', k <= Depth',
         Depth \in Nat, Depth' \in Nat,
         \A i \in (k + 1)..Depth' :
            Sound(calls[i])' /\ (i # 1 => Within(calls'[i - 1], calls'[i])),
         calls' # <<>> /\ calls'[1].at = "answering" =>
            life' = "open" /\ state'[calls'[1].fetch] = "answered"
  PROVE  CallsInv'
<1>1. ASSUME NEW i \in DOMAIN calls'
      PROVE  Sound(calls[i])' /\ (i # 1 => Within(calls'[i - 1], calls'[i]))
  <2>1. CASE i \in 1..k
    <3>1. k # 0 /\ i \in DOMAIN calls /\ (i # 1 => i - 1 \in 1..k)
      BY <2>1
    <3>2. Sound(calls[i]) /\ (i # 1 => Within(calls[i - 1], calls[i]))
      BY <3>1 DEF CallsInv
    <3>3. calls'[i] = calls[i] /\ (i # 1 => calls'[i - 1] = calls[i - 1])
      BY <2>1, <3>1 DEF Kept
    <3>4. Sound(calls[i])'
      BY <3>1, <3>2, <3>3 DEF Sound
    <3> QED
      BY <3>2, <3>3, <3>4
  <2>2. CASE i \notin 1..k
    BY <1>1, <2>2
  <2> QED
    BY <2>1, <2>2
<1>2. ASSUME NEW i \in DOMAIN calls', i # 1
      PROVE  Within(calls[i - 1], calls[i])'
  BY <1>1, <1>2 DEF Within
<1> QED
  BY <1>1, <1>2 DEF CallsInv

LEMMA CallsStep ==
  ASSUME IInv, [Next]_vars
  PROVE  CallsInv'
<1>0. TypeOK /\ CallsInv /\ FetchInv
  BY DEF IInv
<1> USE <1>0
<1>1. Depth \in Nat /\ DOMAIN calls = 1..Depth /\ 1..0 = {}
  BY DEF TypeOK, Depth
(* The stack and the context as they are: no answer is about to be given   *)
(* to main.                                                                *)
<1>2. ASSUME UNCHANGED <<life, calls, state>>
      PROVE  CallsInv'
  BY <1>2 DEF CallsInv, Sound, Within
<1>3. ASSUME NEW r \in Requests, NEW f \in Fetches, TrySubmit(r, f)
      PROVE  CallsInv'
  <2>1. UNCHANGED <<life, calls>> /\ InProgram
    BY <1>3 DEF TrySubmit
  <2>2. calls # <<>> => calls[1].at = "handling"
    BY <2>1, FirstFacts, ProgramCalls
  <2> QED
    BY <2>1, <2>2 DEF CallsInv, Sound, Within
<1>4. ASSUME NEW r \in Requests, Abort(r)
      PROVE  CallsInv'
  <2>1. life = "open" /\ life' = life
    BY <1>4 DEF Abort
  <2>2. /\ pFetch[r] \in Fetches /\ Depth' = Depth + 2 /\ DOMAIN calls' = 1..Depth'
        /\ \A i \in 1..Depth : calls[i].at = "handling"
        /\ Kept(Depth) /\ calls'[Depth + 1] = Call("aborting", r, Null)
        /\ calls'[Depth + 2] = Call("closing", r, pFetch[r])
    BY <1>4, AbortFacts
  <2>3. ASSUME NEW i \in (Depth + 1)..Depth'
        PROVE  Sound(calls[i])' /\ (i # 1 => Within(calls'[i - 1], calls'[i]))
    <3>1. CASE i = Depth + 1
      <4>1. i # 1 => calls'[i - 1].at = "handling"
        BY <1>1, <2>2, <3>1 DEF Kept
      <4> QED
        BY <2>1, <2>2, <3>1, <4>1, FetchPointersAssumption DEF Sound, Within, Call
    <3>2. CASE i = Depth + 2
      <4>1. i - 1 = Depth + 1
        BY <1>1, <3>2
      <4> QED
        BY <2>1, <2>2, <3>2, <4>1, FetchPointersAssumption DEF Sound, Within, Call
    <3> QED
      BY <1>1, <2>2, <3>1, <3>2
  <2>4. calls'[1].at # "answering"
    BY <1>1, <2>2 DEF Kept, Call
  <2> QED
    BY <1>1, <2>1, <2>2, <2>3, <2>4, CallsKept
<1>5. ASSUME NEW r \in Requests, Claim(r)
      PROVE  CallsInv'
  <2>1. life = "open" /\ life' = life
    BY <1>5 DEF Claim
  <2>2. /\ Depth' = Depth + 1 /\ DOMAIN calls' = 1..Depth'
        /\ \A i \in 1..Depth : calls[i].at = "handling"
        /\ Kept(Depth) /\ calls'[Depth + 1] = Call("handling", r, Null)
    BY <1>5, ClaimFacts
  <2>3. ASSUME NEW i \in (Depth + 1)..Depth'
        PROVE  Sound(calls[i])' /\ (i # 1 => Within(calls'[i - 1], calls'[i]))
    <3>1. i = Depth + 1
      BY <1>1, <2>2
    <3>2. i # 1 => calls'[i - 1].at = "handling"
      BY <1>1, <2>2, <3>1 DEF Kept
    <3> QED
      BY <2>1, <2>2, <3>1, <3>2, FetchPointersAssumption DEF Sound, Within, Call
  <2>4. calls'[1].at # "answering"
    BY <1>1, <2>2 DEF Kept, Call
  <2> QED
    BY <1>1, <2>1, <2>2, <2>3, <2>4, CallsKept
<1>6. ASSUME NEW r \in Requests, Abandon(r)
      PROVE  CallsInv'
  <2>1. life' = life /\ state' = state
    BY <1>6 DEF Abandon
  <2>2. CASE UNCHANGED calls
    BY <2>1, <2>2, <1>2
  <2>3. CASE pFetch[r] \in Fetches /\ Starting(Call("closing", r, pFetch[r]))
    BY <2>1, <2>3, FetchPointersAssumption DEF Starting, CallsInv, Sound, Call
  <2> QED
    BY <1>6, <2>2, <2>3, AbandonFacts
<1>7. ASSUME NEW f \in Fetches, Answer(f)
      PROVE  CallsInv'
  <2>1. life' = life /\ life = "open" /\ state'[f] = "answered"
    BY <1>7 DEF Answer, FetchInv, TypeOK
  <2>2. DOMAIN calls' = {1} /\ calls'[1] = Call("answering", Null, f)
    BY <1>7, AnswerFacts DEF Starting
  <2>3. Sound(calls[1])'
    BY <2>1, <2>2, FetchPointersAssumption DEF Sound, Call
  <2> QED
    BY <2>1, <2>2, <2>3 DEF CallsInv, Call
<1>8. ASSUME EmscriptenFetchClose
      PROVE  CallsInv'
  <2> DEFINE r == Here.request
             f == Here.fetch
  <2>1. life' = life
    BY <1>8 DEF EmscriptenFetchClose
  <2>2. /\ r \in Requests /\ f \in Fetches /\ Depth \in Nat \ {0}
        /\ calls[Depth] = Here /\ Here.at = "closing"
        /\ DOMAIN calls' = 1..Depth' /\ Kept(Depth - 1)
        /\ calls'[Depth] = Call("deleting", r, f)
        /\ \/ Depth' = Depth
           \/ Depth' = Depth + 1 /\ calls'[Depth + 1] = Call("answering", Null, f)
    BY <1>8, ClosingFacts
  <2> HIDE DEF r, f
  <2>3. ASSUME NEW i \in Depth..Depth'
        PROVE  Sound(calls[i])' /\ (i # 1 => Within(calls'[i - 1], calls'[i]))
    <3>1. CASE i = Depth
      <4>1. i # 1 => i - 1 \in 1..(Depth - 1) /\ i \in DOMAIN calls
        BY <1>1, <2>2, <3>1
      <4>2. i # 1 => Within(calls[i - 1], Here) /\ calls'[i - 1] = calls[i - 1]
        BY <2>2, <3>1, <4>1 DEF CallsInv, Kept
      <4> QED
        BY <2>2, <3>1, <4>2, FetchPointersAssumption DEF Sound, Within, Call
    <3>2. CASE i = Depth + 1 /\ Depth' = Depth + 1
      <4>1. i - 1 = Depth
        BY <2>2, <3>2
      <4>2. calls'[i] = Call("answering", Null, f)
        BY <2>2, <3>2
      <4> QED
        BY <2>2, <4>1, <4>2, FetchPointersAssumption DEF Sound, Within, Call
    <3> QED
      BY <2>2, <3>1, <3>2
  <2>4. calls'[1].at # "answering"
    <3>1. CASE Depth = 1
      BY <2>2, <3>1 DEF Call
    <3>2. CASE Depth # 1
      <4>1. 1 \in 1..(Depth - 1)
        BY <2>2, <3>2
      <4> QED
        BY <2>2, <3>2, <4>1, FirstFacts DEF Kept
    <3> QED
      BY <3>1, <3>2
  <2>5. Depth - 1 \in 0..Depth /\ (Depth - 1) + 1 = Depth /\ Depth - 1 <= Depth'
    BY <2>2
  <2>6. Depth' \in Nat
    BY <2>2
  <2> QED
    BY <1>1, <2>1, <2>2, <2>3, <2>4, <2>5, <2>6, CallsKept
<1>9. ASSUME NEW place, Returning(place), life' = life,
             state' = state \/ place = "deleting"
      PROVE  CallsInv'
  <2>1. /\ Depth \in Nat \ {0} /\ calls[Depth] = Here /\ Here.at = place
        /\ Depth' = Depth - 1 /\ DOMAIN calls' = 1..(Depth - 1)
        /\ Kept(Depth - 1)
    BY <1>9 DEF Returning
  <2>2. calls' # <<>> => calls'[1].at # "answering"
    <3>1. CASE Depth = 1
      BY <2>1, <3>1, <1>9, EmptySeq DEF Depth, Returning
    <3>2. CASE Depth # 1
      <4>1. 1 \in 1..(Depth - 1)
        BY <2>1, <3>2
      <4> QED
        BY <2>1, <3>2, <4>1, FirstFacts DEF Kept
    <3> QED
      BY <3>1, <3>2
  <2>3. /\ Depth - 1 \in 0..Depth /\ (Depth - 1) + 1 = Depth /\ Depth - 1 <= Depth'
        /\ Depth' \in Nat /\ Depth..Depth' = {}
    BY <2>1
  <2> QED
    BY <1>1, <1>9, <2>1, <2>2, <2>3, CallsKept
<1>10. ASSUME DeleteHolder \/ SubmitterReturns \/ AbortEnds \/ HandlerReturns
       PROVE  CallsInv'
  <2>1. life' = life
    BY <1>10 DEF DeleteHolder, SubmitterReturns, AbortEnds, HandlerReturns
  <2>2. SubmitterReturns \/ AbortEnds \/ HandlerReturns => state' = state
    BY DEF SubmitterReturns, AbortEnds, HandlerReturns, fetchVars
  <2>3. \E place : Returning(place) /\ (state' = state \/ place = "deleting")
    BY <1>10, <2>2, EndingFacts
  <2> QED
    BY <1>9, <2>1, <2>3
<1>11. ASSUME OnAnswer
       PROVE  CallsInv'
  <2> DEFINE r == userData[Here.fetch]
             f == Here.fetch
  <2>1. life' = life /\ state' = state
    BY <1>11 DEF OnAnswer, fetchVars
  <2>2. CASE Returning("answering")
    BY <1>9, <2>1, <2>2
  <2>3. CASE r \in Requests /\ f \in Fetches
             /\ Moving("answering", Call("finishing", r, f))
    <3>1. /\ Depth \in Nat \ {0} /\ calls[Depth] = Here /\ Here.at = "answering"
          /\ Depth' = Depth /\ DOMAIN calls' = 1..Depth
          /\ calls'[Depth] = Call("finishing", r, f)
      BY <2>3 DEF Moving
    <3>2. Depth = 1
      <4> SUFFICES ASSUME Depth # 1
                   PROVE  FALSE
        OBVIOUS
      <4>1. Depth \in DOMAIN calls /\ Depth - 1 \in DOMAIN calls
        BY <1>1, <3>1
      <4>2. Within(calls[Depth - 1], Here)
        BY <3>1, <4>1 DEF CallsInv
      <4>3. calls[Depth - 1].at = "deleting" /\ calls[Depth - 1].fetch = f
        BY <3>1, <4>2 DEF Within
      <4>4. userData[f] = Null
        BY <4>1, <4>3 DEF FetchInv, HasFetch
      <4> QED
        BY <2>3, <4>4, FetchPointersAssumption
    <3>3. life = "open"
      BY <1>1, <3>1, <3>2, EmptySeq DEF CallsInv
    <3> QED
      BY <2>1, <2>3, <3>1, <3>2, <3>3, FetchPointersAssumption
      DEF CallsInv, Sound, Call
  <2> QED
    BY <1>11, <2>2, <2>3, OnAnswerFacts
<1>12. ASSUME MainFinish
       PROVE  CallsInv'
  <2> DEFINE r == Here.request
             f == Here.fetch
  <2>1. life' = life /\ calls # <<>> /\ Here.at = "finishing"
    BY <1>12 DEF MainFinish, In, Here
  <2>2. /\ r \in Requests /\ f \in Fetches /\ Depth = 1
        /\ DOMAIN calls' = 1..2
        /\ calls[1].at = "finishing"
        /\ calls'[1] = Call("finished", r, Null) /\ calls'[2] = Call("closing", r, f)
    BY <1>12, <2>1, MainFinishFacts, AnswerIsFirst
  <2>3. life = "open"
    BY <1>1, <2>2 DEF CallsInv, Sound
  <2> HIDE DEF r, f
  <2>4. ASSUME NEW i \in DOMAIN calls'
        PROVE  Sound(calls[i])' /\ (i # 1 => Within(calls[i - 1], calls[i])')
    <3>1. CASE i = 1
      BY <2>1, <2>2, <2>3, <3>1, FetchPointersAssumption DEF Sound, Call
    <3>2. CASE i = 2
      <4>1. i - 1 = 1
        BY <3>2
      <4> QED
        BY <2>1, <2>2, <2>3, <3>2, <4>1, FetchPointersAssumption
        DEF Sound, Within, Call
    <3> QED
      BY <2>2, <3>1, <3>2
  <2> QED
    BY <2>2, <2>4 DEF CallsInv, Call
<1>13. ASSUME RunWorkerHalf
       PROVE  CallsInv'
  <2> DEFINE r == Here.request
  <2>1. calls # <<>> /\ Here.at = "finished" /\ life' = life
    BY <1>13 DEF RunWorkerHalf, In, Here
  <2>2. /\ r \in Requests /\ life = "open" /\ Depth = 1
        /\ DOMAIN calls' = 1..1 /\ calls'[1] = Call("submitting", r, Null)
    BY <1>13, <2>1, RunWorkerHalfFacts, AnswerIsFirst DEF Moving
  <2> QED
    BY <2>1, <2>2, FetchPointersAssumption DEF CallsInv, Sound, Call
<1>14. ASSUME BeginDestroy \/ EndDestroy
       PROVE  CallsInv'
  <2>1. calls = <<>> /\ calls' = <<>>
    BY <1>14 DEF BeginDestroy, EndDestroy, InLoop
  <2> QED
    BY <2>1 DEF CallsInv
<1>15. ASSUME NEW r \in Requests,
              \/ SubmitRefused(r) \/ Cancel(r) \/ DropName(r)
              \/ TaskEnds(r) \/ Release(r) \/ Destroy(r)
       PROVE  CallsInv'
  BY <1>2, <1>15
  DEF SubmitRefused, Cancel, DropName, TaskEnds, Release, Destroy, fetchVars
<1>16. CASE UNCHANGED vars
  BY <1>2, <1>16 DEF vars, fetchVars
<1> QED
  BY <1>3, <1>4, <1>5, <1>6, <1>7, <1>8, <1>10, <1>11, <1>12, <1>13, <1>14,
     <1>15, <1>16 DEF Next, Returns

-----------------------------------------------------------------------------
(* Fetches stay their requests' until close_fetch frees them.              *)

StillClosed == \A f \in Fetches : BeingClosed(f) => BeingClosed(f)'

(* A fetch being closed still is, if the calls that return do not close.   *)
LEMMA ClosesKept ==
  ASSUME DOMAIN calls = 1..Depth, DOMAIN calls' = 1..Depth',
         Depth \in Nat, Depth' \in Nat, NEW k \in 0..Depth, k <= Depth', Kept(k),
         \A i \in (k + 1)..Depth : calls[i].at \notin {"closing", "deleting"}
  PROVE  StillClosed
<1> SUFFICES ASSUME NEW f \in Fetches, BeingClosed(f)
             PROVE  BeingClosed(f)'
  BY DEF StillClosed
<1>1. PICK i \in DOMAIN calls :
         calls[i].at \in {"closing", "deleting"} /\ calls[i].fetch = f
  BY DEF BeingClosed
<1>2. i \in 1..k /\ i \in DOMAIN calls'
  BY <1>1
<1>3. calls'[i] = calls[i]
  BY <1>2 DEF Kept
<1> QED
  BY <1>1, <1>2, <1>3 DEF BeingClosed

(* Steps that neither open nor close a fetch.                              *)
LEMMA FetchesKept ==
  ASSUME FetchInv, UNCHANGED <<life, todo, fetchVars>>, StillClosed,
         \A r \in Requests : pFetch[r] # Null => Unended(r)',
         \A i \in DOMAIN calls' : HasFetch(calls[i])',
         life = "gone" => calls' = <<>>
  PROVE  FetchInv'
<1>1. ASSUME NEW r \in Requests, pFetch'[r] # Null
      PROVE  Fetching(r)'
  BY <1>1 DEF FetchInv, Fetching, fetchVars
<1>2. ASSUME NEW f \in Fetches
      PROVE  Held(f)'
  BY <1>2 DEF FetchInv, Held, fetchVars, StillClosed
<1>3. life' = "gone" => calls' = <<>> /\ \A f \in Fetches : state'[f] = "free"
  BY DEF FetchInv, fetchVars
<1> QED
  BY <1>1, <1>2, <1>3 DEF FetchInv

(* The first half of close_fetch, and a call that is to do the other.      *)
LEMMA FetchTaken ==
  ASSUME TypeOK, FetchInv, NEW r \in Requests, NEW f \in Fetches, pFetch[r] = f,
         life' = life, todo \ {r} \subseteq todo', UNCHANGED <<state, holder>>,
         UNCHANGED <<listed, inFlight, locked, working, ended>>,
         pFetch' = [pFetch EXCEPT ![r] = Null],
         userData' = [userData EXCEPT ![f] = Null], BeingClosed(f)', StillClosed,
         \A i \in DOMAIN calls' : HasFetch(calls[i])'
  PROVE  FetchInv'
<1>1. Fetching(r)
  BY FetchPointersAssumption DEF FetchInv
<1>2. ASSUME NEW q \in Requests, pFetch'[q] # Null
      PROVE  Fetching(q)'
  <2>1. q # r /\ pFetch'[q] = pFetch[q] /\ Fetching(q)
    BY <1>2 DEF TypeOK, FetchInv
  <2>2. pFetch[q] # f /\ userData'[pFetch[q]] = userData[pFetch[q]]
    BY <1>1, <2>1 DEF Fetching, TypeOK
  <2> QED
    BY <2>1, <2>2 DEF Fetching, Unended
<1>3. ASSUME NEW g \in Fetches
      PROVE  Held(g)'
  <2>1. CASE g = f
    <3>1. state[g] # "free" /\ userData'[g] = Null
      BY <1>1, <2>1 DEF Fetching, TypeOK
    <3> QED
      BY <2>1, <3>1 DEF Held, BeingClosed
  <2>2. CASE g # f
    <3>1. userData'[g] = userData[g] /\ Held(g)
      BY <1>1, <2>2 DEF TypeOK, FetchInv
    <3>2. userData[g] # Null => pFetch'[userData[g]] = g
      BY <3>1, <2>2 DEF Held, TypeOK
    <3> QED
      BY <3>1, <3>2 DEF Held, StillClosed
  <2> QED
    BY <2>1, <2>2
<1>4. life' # "gone"
  BY <1>1 DEF Fetching
<1> QED
  BY <1>2, <1>3, <1>4 DEF FetchInv

(* A call that returns without having closed.                              *)
LEMMA FetchesReturned ==
  ASSUME TypeOK, FetchInv, NEW place, place \notin {"closing", "deleting"},
         Returning(place), UNCHANGED <<life, todo, fetchVars>>,
         \A r \in Requests : pFetch[r] # Null => Unended(r)'
  PROVE  FetchInv'
<1>1. /\ Depth \in Nat \ {0} /\ DOMAIN calls = 1..Depth
      /\ calls[Depth].at = place /\ Kept(Depth - 1)
      /\ Depth' = Depth - 1 /\ DOMAIN calls' = 1..(Depth - 1)
  BY DEF Returning
<1>2. StillClosed
  <2>1. /\ Depth - 1 \in 0..Depth /\ (Depth - 1) + 1 = Depth /\ Depth' \in Nat
        /\ Depth - 1 <= Depth' /\ \A i \in Depth..Depth : i = Depth
    BY <1>1
  <2> QED
    BY <1>1, <2>1, ClosesKept
<1>3. ASSUME NEW i \in DOMAIN calls'
      PROVE  HasFetch(calls[i])'
  <2>1. i \in DOMAIN calls /\ calls'[i] = calls[i]
    BY <1>1 DEF Kept
  <2> QED
    BY <2>1 DEF FetchInv, HasFetch, fetchVars
<1>4. life # "gone"
  BY <1>1 DEF FetchInv
<1> QED
  BY <1>2, <1>3, <1>4, FetchesKept

LEMMA FetchStep ==
  ASSUME IInv, [Next]_vars
  PROVE  FetchInv'
<1>0. TypeOK /\ CallsInv /\ FetchInv /\ EndInv
  BY DEF IInv
<1> USE <1>0
<1>91. Depth \in Nat /\ DOMAIN calls = 1..Depth
  BY DEF TypeOK, Depth
<1>92. ASSUME NEW r \in Requests, pFetch[r] # Null
      PROVE  /\ pFetch[r] \in Fetches /\ holder[pFetch[r]] = r
             /\ userData[pFetch[r]] = r /\ Unended(r) /\ life # "gone"
             /\ state[pFetch[r]] \in {"pending", "answered"}
  BY <1>92 DEF FetchInv, Fetching
<1>1. ASSUME NEW r \in Requests, NEW f \in Fetches, TrySubmit(r, f)
      PROVE  FetchInv'
  <2>1. /\ state[f] = "free" /\ pFetch[r] = Null /\ ~working[r] /\ life = "open"
        /\ \A q \in Requests : pFetch[q] # f
    <3>1. \A q \in Requests : pFetch[q] # f
      BY <1>1, <1>92, FetchPointersAssumption DEF TrySubmit
    <3> QED
      BY <1>1, <1>92, <3>1 DEF TrySubmit, Unended, EndInv, Ended
  <2>2. ASSUME NEW q \in Requests, pFetch'[q] # Null
        PROVE  Fetching(q)'
    <3>1. CASE q = r
      BY <1>1, <2>1, <3>1 DEF TrySubmit, Fetching, Unended, TypeOK, tasks
    <3>2. CASE q # r
      <4>1. Fetching(q) /\ pFetch'[q] = pFetch[q] /\ pFetch[q] # f
        BY <1>1, <2>1, <2>2, <3>2 DEF TrySubmit, FetchInv, TypeOK
      <4> QED
        BY <1>1, <3>2, <4>1 DEF TrySubmit, Fetching, Unended, TypeOK, tasks
    <3> QED
      BY <3>1, <3>2
  <2>3. ASSUME NEW g \in Fetches
        PROVE  Held(g)'
    <3>1. CASE g = f
      BY <1>1, <3>1, FetchPointersAssumption DEF TrySubmit, Held, TypeOK
    <3>2. CASE g # f
      <4>1. /\ Held(g) /\ userData'[g] = userData[g] /\ state'[g] = state[g]
            /\ holder'[g] = holder[g] /\ BeingClosed(g)' = BeingClosed(g)
        BY <1>1, <3>2 DEF TrySubmit, FetchInv, TypeOK, BeingClosed
      <4>2. userData[g] # Null => pFetch'[userData[g]] = pFetch[userData[g]]
        BY <1>1, <2>1, <4>1, FetchPointersAssumption DEF TrySubmit, Held, TypeOK
      <4> QED
        BY <4>1, <4>2 DEF Held
    <3> QED
      BY <3>1, <3>2
  <2>4. ASSUME NEW i \in DOMAIN calls'
        PROVE  HasFetch(calls[i])'
    <3>1. calls' = calls /\ InProgram
      BY <1>1 DEF TrySubmit
    <3> QED
      BY <3>1, ProgramCalls DEF HasFetch
  <2>5. life' # "gone"
    BY <1>1, <2>1 DEF TrySubmit
  <2> QED
    BY <2>2, <2>3, <2>4, <2>5 DEF FetchInv
(* Main stays where it is.                                                 *)
<1>2. ASSUME UNCHANGED <<life, todo, calls, fetchVars>>,
             \A r \in Requests : pFetch[r] # Null => Unended(r)'
      PROVE  FetchInv'
  <2>1. StillClosed
    BY <1>2 DEF StillClosed, BeingClosed
  <2>2. \A i \in DOMAIN calls' : HasFetch(calls[i])'
    BY <1>2 DEF FetchInv, HasFetch, fetchVars
  <2>3. life = "gone" => calls' = <<>>
    BY <1>2 DEF FetchInv
  <2> QED
    BY <1>2, <2>1, <2>2, <2>3, FetchesKept
<1>3. ASSUME NEW r \in Requests,
             \/ SubmitRefused(r) \/ Cancel(r) \/ DropName(r)
             \/ TaskEnds(r) \/ Release(r) \/ Destroy(r)
      PROVE  FetchInv'
  <2>1. UNCHANGED <<life, todo, calls, fetchVars>>
    BY <1>3 DEF SubmitRefused, Cancel, DropName, TaskEnds, Release, Destroy
  <2>2. ASSUME NEW q \in Requests, pFetch[q] # Null
        PROVE  Unended(q)'
    <3>1. Unended(q)
      BY <1>92, <2>2
    <3>2. CASE SubmitRefused(r) \/ Cancel(r) \/ DropName(r) \/ Release(r) \/ Destroy(r)
      BY <3>1, <3>2 DEF SubmitRefused, Cancel, DropName, Release, Destroy, Unended,
         TypeOK, flags, tasks
    <3>3. CASE TaskEnds(r)
      <4>1. q # r
        BY <3>1, <3>3 DEF TaskEnds, Unended
      <4> QED
        BY <3>1, <3>3, <4>1 DEF TaskEnds, Unlock, Unended, TypeOK
    <3> QED
      BY <1>3, <3>2, <3>3
  <2> QED
    BY <1>2, <2>1, <2>2
<1>4. ASSUME NEW r \in Requests, Abort(r)
      PROVE  FetchInv'
  <2> DEFINE f == pFetch[r]
  <2>1. /\ f \in Fetches /\ holder[f] = r /\ Depth' = Depth + 2
        /\ DOMAIN calls' = 1..(Depth + 2) /\ Kept(Depth)
        /\ \A i \in 1..Depth : calls[i].at = "handling"
        /\ calls'[Depth + 1] = Call("aborting", r, Null)
        /\ calls'[Depth + 2] = Call("closing", r, f)
        /\ pFetch' = [pFetch EXCEPT ![r] = Null]
        /\ userData' = [userData EXCEPT ![f] = Null]
        /\ UNCHANGED <<life, todo, state, holder, listed, inFlight, locked,
                       working, ended>>
    <3>1. pFetch[r] # Null
      BY <1>4 DEF Abort
    <3> QED
      BY <1>4, <1>92, <3>1, AbortFacts DEF Abort, flags, tasks
  <2>2. PICK g \in Fetches : g = f
    BY <2>1
  <2> HIDE DEF f
  <2>3. StillClosed
    <3>1. Depth \in 0..Depth /\ (Depth + 1)..Depth = {} /\ Depth <= Depth'
          /\ Depth' \in Nat
      BY <1>91, <2>1
    <3> QED
      BY <1>91, <2>1, <3>1, ClosesKept
  <2>4. BeingClosed(g)'
    <3>1. Depth + 2 \in 1..(Depth + 2)
      BY <1>91
    <3> QED
      BY <2>1, <2>2, <3>1 DEF BeingClosed, Call
  <2>5. ASSUME NEW i \in DOMAIN calls'
        PROVE  HasFetch(calls[i])'
    <3>1. CASE i \in 1..Depth
      BY <2>1, <3>1 DEF Kept, HasFetch
    <3>2. CASE i = Depth + 1
      BY <2>1, <3>2 DEF HasFetch, Call
    <3>3. CASE i = Depth + 2
      <4>1. calls'[i] = Call("closing", r, f) /\ userData'[f] = Null /\ holder'[f] = r
        BY <2>1, <3>3 DEF TypeOK
      <4> QED
        BY <4>1 DEF HasFetch, Call
    <3> QED
      BY <1>91, <2>1, <3>1, <3>2, <3>3
  <2> QED
    BY <2>1, <2>2, <2>3, <2>4, <2>5, FetchTaken DEF f
<1>5. ASSUME MainFinish
      PROVE  FetchInv'
  <2> DEFINE r == Here.request
             f == Here.fetch
  <2>1. calls # <<>> /\ Here.at = "finishing"
    BY <1>5 DEF MainFinish, In, Here
  <2>2. /\ r \in Requests /\ f \in Fetches /\ pFetch[r] = f /\ Depth = 1
        /\ calls[1].at = "finishing" /\ Depth' = 2 /\ DOMAIN calls' = 1..2
        /\ calls'[1] = Call("finished", r, Null) /\ calls'[2] = Call("closing", r, f)
        /\ pFetch' = [pFetch EXCEPT ![r] = Null]
        /\ userData' = [userData EXCEPT ![f] = Null]
    BY <1>5, <2>1, MainFinishFacts, AnswerIsFirst
  <2>3. UNCHANGED <<life, todo, state, holder, listed, inFlight, locked, working,
                    ended>>
    BY <1>5 DEF MainFinish, flags, tasks
  <2>4. PICK q \in Requests, g \in Fetches : q = r /\ g = f
    BY <2>2
  <2> HIDE DEF r, f
  <2>5. holder[g] = q /\ pFetch[q] = g
    BY <1>92, <2>2, <2>4, FetchPointersAssumption
  <2>6. StillClosed
    BY <1>91, <2>2 DEF StillClosed, BeingClosed
  <2>7. BeingClosed(g)'
    BY <2>2, <2>4 DEF BeingClosed, Call
  <2>8. ASSUME NEW i \in DOMAIN calls'
        PROVE  HasFetch(calls[i])'
    <3>1. CASE i = 1
      BY <2>2, <3>1 DEF HasFetch, Call
    <3>2. CASE i = 2
      <4>1. calls'[i] = Call("closing", q, g) /\ userData'[g] = Null /\ holder'[g] = q
        BY <2>2, <2>3, <2>4, <2>5, <3>2 DEF TypeOK
      <4> QED
        BY <4>1 DEF HasFetch, Call
    <3> QED
      BY <2>2, <3>1, <3>2
  <2> QED
    BY <2>2, <2>3, <2>4, <2>5, <2>6, <2>7, <2>8, FetchTaken
<1>6. ASSUME NEW r \in Requests, Abandon(r)
      PROVE  FetchInv'
  <2>1. /\ todo' = todo \ {r}
        /\ UNCHANGED <<life, state, holder, listed, inFlight, locked, working, ended>>
    BY <1>6 DEF Abandon, tasks
  <2>2. CASE pFetch[r] = Null /\ UNCHANGED <<calls, pFetch, userData>>
    <3>1. ASSUME NEW q \in Requests, pFetch'[q] # Null
          PROVE  Fetching(q)'
      BY <2>1, <2>2, <3>1 DEF FetchInv, Fetching, Unended
    <3>2. ASSUME NEW f \in Fetches
          PROVE  Held(f)'
      BY <2>1, <2>2 DEF FetchInv, Held, BeingClosed
    <3> QED
      BY <2>1, <2>2, <3>1, <3>2 DEF FetchInv, HasFetch
  <2>3. CASE /\ pFetch[r] \in Fetches /\ Starting(Call("closing", r, pFetch[r]))
             /\ pFetch' = [pFetch EXCEPT ![r] = Null]
             /\ userData' = [userData EXCEPT ![pFetch[r]] = Null]
    <3>1. PICK f \in Fetches : f = pFetch[r]
      BY <2>3
    <3>2. /\ DOMAIN calls = {} /\ DOMAIN calls' = {1}
          /\ calls'[1] = Call("closing", r, f) /\ holder[f] = r /\ pFetch[r] = f
          /\ pFetch' = [pFetch EXCEPT ![r] = Null]
          /\ userData' = [userData EXCEPT ![f] = Null]
      BY <1>92, <2>3, <3>1, FetchPointersAssumption DEF Starting
    <3>3. StillClosed
      BY <3>2 DEF StillClosed, BeingClosed
    <3>4. BeingClosed(f)'
      BY <3>2 DEF BeingClosed, Call
    <3>5. \A i \in DOMAIN calls' : HasFetch(calls[i])'
      <4>1. userData'[f] = Null /\ holder'[f] = r
        BY <2>1, <3>2 DEF TypeOK
      <4> QED
        BY <3>2, <4>1 DEF HasFetch, Call
    <3> QED
      BY <2>1, <3>2, <3>3, <3>4, <3>5, FetchTaken
  <2> QED
    BY <1>6, <2>2, <2>3, AbandonFacts
<1>7. ASSUME NEW r \in Requests, Claim(r)
      PROVE  FetchInv'
  <2>1. /\ pFetch[r] = Null /\ Depth' = Depth + 1 /\ DOMAIN calls' = 1..(Depth + 1)
        /\ \A i \in 1..Depth : calls[i].at = "handling"
        /\ Kept(Depth) /\ calls'[Depth + 1] = Call("handling", r, Null)
    BY <1>7, ClaimFacts
  <2>2. UNCHANGED <<life, todo, fetchVars>> /\ life = "open"
    BY <1>7, ClaimFacts DEF Claim, fetchVars
  <2>3. StillClosed
    <3>1. Depth \in 0..Depth /\ (Depth + 1)..Depth = {} /\ Depth <= Depth'
          /\ Depth' \in Nat
      BY <1>91, <2>1
    <3> QED
      BY <1>91, <2>1, <3>1, ClosesKept
  <2>4. ASSUME NEW q \in Requests, pFetch[q] # Null
        PROVE  Unended(q)'
    BY <1>7, <1>92, <2>1, <2>4 DEF Claim, Unended, TypeOK, tasks
  <2>5. ASSUME NEW i \in DOMAIN calls'
        PROVE  HasFetch(calls[i])'
    <3>1. calls'[i].at = "handling"
      BY <1>91, <2>1 DEF Kept, Call
    <3> QED
      BY <3>1 DEF HasFetch
  <2> QED
    BY <2>2, <2>3, <2>4, <2>5, FetchesKept
<1>8. ASSUME OnAnswer
      PROVE  FetchInv'
  <2> DEFINE r == userData[Here.fetch]
             f == Here.fetch
  <2>1. UNCHANGED <<life, todo, fetchVars, listed, inFlight, locked, working, ended>>
    BY <1>8 DEF OnAnswer, flags, tasks
  <2>2. \A q \in Requests : pFetch[q] # Null => Unended(q)'
    BY <1>92, <2>1 DEF Unended
  <2>3. CASE Returning("answering")
    BY <2>1, <2>2, <2>3, FetchesReturned
  <2>4. CASE f \in Fetches /\ r \in Requests
             /\ Moving("answering", Call("finishing", r, f))
    <3>1. /\ Depth \in Nat \ {0} /\ calls[Depth].at = "answering" /\ Depth' = Depth
          /\ DOMAIN calls' = 1..Depth /\ Kept(Depth - 1)
          /\ calls'[Depth] = Call("finishing", r, f)
      BY <2>4 DEF Moving
    <3>2. StillClosed
      <4>1. /\ Depth - 1 \in 0..Depth /\ (Depth - 1) + 1 = Depth
            /\ Depth - 1 <= Depth' /\ Depth' \in Nat
            /\ \A i \in ((Depth - 1) + 1)..Depth : i = Depth
        BY <3>1
      <4>2. \A i \in ((Depth - 1) + 1)..Depth :
               calls[i].at \notin {"closing", "deleting"}
        BY <3>1, <4>1
      <4> QED
        BY <1>91, <3>1, <4>1, <4>2, ClosesKept
    <3>3. pFetch[r] = f
      BY <2>4, FetchPointersAssumption DEF FetchInv, Held
    <3>4. ASSUME NEW i \in DOMAIN calls'
          PROVE  HasFetch(calls[i])'
      <4>1. CASE i = Depth
        <5>1. PICK q \in Requests, g \in Fetches : q = r /\ g = f
          BY <2>4
        <5>2. calls'[i] = Call("finishing", q, g) /\ pFetch[q] = g
          BY <3>1, <3>3, <4>1, <5>1
        <5> QED
          BY <2>1, <5>2 DEF HasFetch, Call, fetchVars
      <4>2. CASE i # Depth
        <5>1. i \in DOMAIN calls /\ calls'[i] = calls[i]
          BY <1>91, <3>1, <4>2 DEF Kept
        <5> QED
          BY <2>1, <5>1 DEF FetchInv, HasFetch, fetchVars
      <4> QED
        BY <4>1, <4>2
    <3>5. life # "gone"
      BY <1>91, <3>1 DEF FetchInv
    <3> QED
      BY <2>1, <2>2, <3>2, <3>4, <3>5, FetchesKept
  <2> QED
    BY <1>8, <2>3, <2>4, OnAnswerFacts
<1>9. ASSUME RunWorkerHalf
      PROVE  FetchInv'
  <2> DEFINE r == Here.request
  <2>1. calls # <<>> /\ Here.at = "finished"
    BY <1>9 DEF RunWorkerHalf, In, Here
  <2>2. /\ r \in Requests /\ life = "open" /\ Depth = 1 /\ DOMAIN calls' = 1..1
        /\ calls[1] = Here /\ calls'[1] = Call("submitting", r, Null)
        /\ working' = [working EXCEPT ![r] = TRUE]
    BY <1>9, <2>1, RunWorkerHalfFacts, AnswerIsFirst DEF Moving
  <2>3. UNCHANGED <<life, todo, fetchVars, listed, inFlight, locked, ended>>
    BY <1>9 DEF RunWorkerHalf, flags
  <2>4. pFetch[r] = Null
    BY <1>91, <2>1, <2>2 DEF EndInv, Ending
  <2>5. StillClosed
    BY <1>91, <2>1, <2>2 DEF StillClosed, BeingClosed
  <2>6. ASSUME NEW q \in Requests, pFetch[q] # Null
        PROVE  Unended(q)'
    BY <1>92, <2>2, <2>3, <2>4, <2>6 DEF Unended, TypeOK
  <2>7. ASSUME NEW i \in DOMAIN calls'
        PROVE  HasFetch(calls[i])'
    BY <2>2 DEF HasFetch, Call
  <2> QED
    BY <2>2, <2>3, <2>5, <2>6, <2>7, FetchesKept
<1>10. ASSUME SubmitterReturns \/ HandlerReturns
       PROVE  FetchInv'
  <2>1. /\ UNCHANGED <<life, todo, fetchVars>>
        /\ UNCHANGED <<listed, inFlight, locked, working, ended>>
    BY <1>10 DEF SubmitterReturns, HandlerReturns, flags, tasks
  <2>2. \A q \in Requests : pFetch[q] # Null => Unended(q)'
    BY <1>92, <2>1 DEF Unended
  <2>3. Returning("submitting") \/ Returning("handling")
    BY <1>10, ReturningFacts DEF SubmitterReturns, HandlerReturns
  <2> QED
    BY <2>1, <2>2, <2>3, FetchesReturned
<1>11. ASSUME AbortEnds
       PROVE  FetchInv'
  <2> DEFINE r == Here.request
  <2>1. Returning("aborting") /\ UNCHANGED <<life, todo, fetchVars>>
    BY <1>11, ReturningFacts DEF AbortEnds
  <2>2. pFetch[r] = Null
    <3>1. Depth \in DOMAIN calls /\ calls[Depth] = Here /\ Here.at = "aborting"
      BY <1>91, <2>1 DEF Returning
    <3> QED
      BY <3>1 DEF EndInv, Ending
  <2>3. ASSUME NEW q \in Requests, pFetch[q] # Null
        PROVE  Unended(q)'
    BY <1>11, <1>92, <2>2, <2>3 DEF AbortEnds, Unlock, Unended, TypeOK, tasks
  <2> QED
    BY <2>1, <2>3, FetchesReturned
<1>12. ASSUME NEW f \in Fetches, Answer(f)
       PROVE  FetchInv'
  <2>1. /\ state[f] = "pending" /\ state' = [state EXCEPT ![f] = "answered"]
        /\ UNCHANGED <<life, todo, pFetch, userData, holder, listed, inFlight, locked,
                       working, ended>>
    BY <1>12 DEF Answer, flags, tasks
  <2>2. /\ DOMAIN calls = {} /\ DOMAIN calls' = {1}
        /\ calls'[1] = Call("answering", Null, f)
    BY <1>12, AnswerFacts DEF Starting
  <2>3. ASSUME NEW q \in Requests, pFetch'[q] # Null
        PROVE  Fetching(q)'
    BY <2>1, <2>3 DEF FetchInv, Fetching, Unended, TypeOK
  <2>4. ASSUME NEW g \in Fetches
        PROVE  Held(g)'
    BY <2>1, <2>2 DEF FetchInv, Held, BeingClosed, TypeOK
  <2>5. life # "gone"
    BY <2>1 DEF FetchInv
  <2> QED
    BY <2>1, <2>2, <2>3, <2>4, <2>5 DEF FetchInv, HasFetch, Call
<1>13. ASSUME EmscriptenFetchClose
       PROVE  FetchInv'
  <2>1. PICK r \in Requests, f \in Fetches : r = Here.request /\ f = Here.fetch
    BY <1>13, ClosingFacts
  <2>2. /\ Depth \in Nat \ {0} /\ calls[Depth] = Here /\ Here.at = "closing"
        /\ DOMAIN calls' = 1..Depth' /\ Kept(Depth - 1)
        /\ calls'[Depth] = Call("deleting", r, f)
        /\ \/ /\ state' = [state EXCEPT ![f] = "closed"] /\ Depth' = Depth + 1
              /\ calls'[Depth + 1] = Call("answering", Null, f)
           \/ state' = state /\ Depth' = Depth
    BY <1>13, <2>1, ClosingFacts
  <2>3. UNCHANGED <<life, todo, pFetch, userData, holder, listed, inFlight, locked,
                    working, ended>>
    BY <1>13 DEF EmscriptenFetchClose, flags, tasks
  <2>4. holder[f] = r /\ userData[f] = Null
    <3>1. Depth \in DOMAIN calls
      BY <1>91, <2>2
    <3>2. HasFetch(Here)
      BY <2>2, <3>1 DEF FetchInv
    <3> QED
      BY <2>1, <2>2, <3>2 DEF HasFetch
  <2>5. \A g \in Fetches : state'[g] = state[g] \/ (g = f /\ state'[g] = "closed")
    BY <2>2 DEF TypeOK
  <2>6. life # "gone"
    BY <1>91, <2>2 DEF FetchInv
  <2>7. StillClosed
    <3> SUFFICES ASSUME NEW g \in Fetches, BeingClosed(g)
                 PROVE  BeingClosed(g)'
      BY DEF StillClosed
    <3>1. PICK i \in DOMAIN calls :
             calls[i].at \in {"closing", "deleting"} /\ calls[i].fetch = g
      BY DEF BeingClosed
    <3>2. i \in DOMAIN calls'
      BY <1>91, <2>2
    <3>3. CASE i = Depth
      BY <2>1, <2>2, <3>1, <3>2, <3>3 DEF BeingClosed, Call
    <3>4. CASE i # Depth
      <4>1. calls'[i] = calls[i]
        BY <1>91, <2>2, <3>4 DEF Kept
      <4> QED
        BY <3>1, <3>2, <4>1 DEF BeingClosed
    <3> QED
      BY <3>3, <3>4
  <2>8. ASSUME NEW q \in Requests, pFetch'[q] # Null
        PROVE  Fetching(q)'
    <3>1. Fetching(q) /\ pFetch[q] # f
      BY <2>3, <2>4, <2>8, FetchPointersAssumption DEF FetchInv, Fetching
    <3> QED
      BY <2>3, <2>5, <3>1 DEF Fetching, Unended
  <2>9. ASSUME NEW g \in Fetches
        PROVE  Held(g)'
    <3>1. CASE g = f
      <4>1. BeingClosed(f)'
        <5>1. Depth \in DOMAIN calls'
          BY <2>2
        <5> QED
          BY <2>2, <5>1 DEF BeingClosed, Call
      <4>2. state'[f] = "free" => state[f] = "free"
        BY <2>5
      <4>3. Held(f)
        BY DEF FetchInv
      <4>4. Held(f)'
        BY <2>3, <2>4, <4>1, <4>2, <4>3 DEF Held
      <4> QED
        BY <3>1, <4>4 DEF Held, BeingClosed
    <3>2. CASE g # f
      BY <2>3, <2>5, <2>7, <3>2 DEF FetchInv, Held, StillClosed
    <3> QED
      BY <3>1, <3>2
  <2>10. ASSUME NEW i \in DOMAIN calls'
         PROVE  HasFetch(calls[i])'
    <3>1. CASE i = Depth
      BY <2>2, <2>3, <2>4, <3>1 DEF HasFetch, Call
    <3>2. CASE i = Depth + 1 /\ Depth' = Depth + 1
      <4>1. calls'[i] = Call("answering", Null, f)
        BY <2>2, <3>2
      <4> QED
        BY <4>1 DEF HasFetch, Call
    <3>3. CASE i \in 1..(Depth - 1)
      <4>1. i \in DOMAIN calls /\ calls'[i] = calls[i]
        BY <1>91, <2>2, <3>3 DEF Kept
      <4> QED
        BY <2>3, <4>1 DEF FetchInv, HasFetch
    <3> QED
      BY <2>2, <3>1, <3>2, <3>3
  <2> QED
    BY <2>3, <2>6, <2>8, <2>9, <2>10 DEF FetchInv
<1>14. ASSUME DeleteHolder
       PROVE  FetchInv'
  <2>1. Returning("deleting") /\ Here.fetch \in Fetches
    <3>1. In("deleting") /\ calls' = Return
      BY <1>14 DEF DeleteHolder
    <3> QED
      BY <3>1, ReturningFacts, HereType DEF In, Here
  <2>2. PICK f \in Fetches : f = Here.fetch
    BY <2>1
  <2>3. /\ Depth \in Nat \ {0} /\ calls[Depth] = Here /\ Here.at = "deleting"
        /\ DOMAIN calls' = 1..(Depth - 1) /\ Kept(Depth - 1)
    BY <2>1 DEF Returning
  <2>4. /\ state' = [state EXCEPT ![f] = "free"]
        /\ holder' = [holder EXCEPT ![f] = Null]
        /\ UNCHANGED <<life, todo, pFetch, userData, listed, inFlight, locked,
                       working, ended>>
    BY <1>14, <2>2 DEF DeleteHolder, flags, tasks
  <2>5. userData[f] = Null
    <3>1. Depth \in DOMAIN calls
      BY <1>91, <2>3
    <3>2. HasFetch(Here)
      BY <2>3, <3>1 DEF FetchInv
    <3> QED
      BY <2>2, <2>3, <3>2 DEF HasFetch
  <2>6. life # "gone"
    BY <1>91, <2>3 DEF FetchInv
  <2>7. ASSUME NEW i \in DOMAIN calls'
        PROVE  /\ i \in DOMAIN calls /\ calls'[i] = calls[i]
               /\ calls[i].at \notin {"finishing", "closing", "deleting"}
    <3>1. i \in 1..(Depth - 1) /\ i \in DOMAIN calls
      BY <1>91, <2>3
    <3> QED
      BY <2>3, <3>1, BeneathFacts DEF Within, Kept
  <2>8. ASSUME NEW g \in Fetches, g # f, BeingClosed(g)
        PROVE  BeingClosed(g)'
    <3>1. PICK i \in DOMAIN calls :
             calls[i].at \in {"closing", "deleting"} /\ calls[i].fetch = g
      BY <2>8 DEF BeingClosed
    <3>2. i # Depth
      BY <2>2, <2>3, <2>8, <3>1
    <3>3. i \in DOMAIN calls'
      BY <1>91, <2>3, <3>1, <3>2
    <3> QED
      BY <2>7, <3>1, <3>3 DEF BeingClosed
  <2>9. ASSUME NEW q \in Requests, pFetch'[q] # Null
        PROVE  Fetching(q)'
    <3>1. Fetching(q) /\ pFetch[q] # f
      BY <2>4, <2>5, <2>9, FetchPointersAssumption DEF FetchInv, Fetching
    <3> QED
      BY <2>4, <3>1 DEF Fetching, Unended, TypeOK
  <2>10. ASSUME NEW g \in Fetches
         PROVE  Held(g)'
    BY <2>4, <2>5, <2>8 DEF FetchInv, Held, TypeOK
  <2>11. \A i \in DOMAIN calls' : HasFetch(calls[i])'
    BY <2>7 DEF HasFetch
  <2> QED
    BY <2>4, <2>6, <2>9, <2>10, <2>11 DEF FetchInv
<1>15. ASSUME BeginDestroy \/ EndDestroy
       PROVE  FetchInv'
  <2>1. /\ calls = <<>> /\ calls' = <<>>
        /\ UNCHANGED <<fetchVars, inFlight, locked, working, ended>>
    BY <1>15 DEF BeginDestroy, EndDestroy, InLoop, flags, tasks
  <2>2. ASSUME NEW f \in Fetches
        PROVE  Held(f)'
    BY <2>1 DEF FetchInv, Held, BeingClosed, fetchVars
  <2>3. CASE BeginDestroy
    BY <2>1, <2>2, <2>3 DEF BeginDestroy, FetchInv, Fetching, Unended, fetchVars
  <2>4. CASE EndDestroy
    <3>1. todo = {} /\ life = "abandoning"
      BY <2>4 DEF EndDestroy
    <3>2. \A r \in Requests : pFetch[r] = Null
      BY <3>1 DEF FetchInv, Fetching
    <3>3. ASSUME NEW f \in Fetches
          PROVE  state[f] = "free"
      <4>1. Held(f) /\ userData[f] \in Requests \cup {Null} /\ f # Null
        BY FetchPointersAssumption DEF FetchInv, TypeOK
      <4>2. ~BeingClosed(f)
        BY <2>1 DEF BeingClosed
      <4> QED
        BY <3>2, <4>1, <4>2 DEF Held
    <3> QED
      BY <2>1, <2>2, <3>2, <3>3 DEF FetchInv, fetchVars
  <2> QED
    BY <1>15, <2>3, <2>4
<1>16. CASE UNCHANGED vars
  <2>1. UNCHANGED <<life, todo, calls, fetchVars, listed, inFlight, locked, working,
                    ended>>
    BY <1>16 DEF vars, flags, tasks
  <2> QED
    BY <1>2, <1>92, <2>1 DEF Unended
<1> QED
  BY <1>1, <1>3, <1>4, <1>5, <1>6, <1>7, <1>8, <1>9, <1>10, <1>11, <1>12, <1>13,
     <1>14, <1>15, <1>16 DEF Next, Returns

-----------------------------------------------------------------------------
(* A submission ends once.                                                 *)

(* Steps that end nothing, and begin nothing that will.                    *)
LEMMA EndKept ==
  ASSUME TypeOK, EndInv, NEW k \in Nat, k <= Depth, Kept(k),
         DOMAIN calls = 1..Depth, DOMAIN calls' = 1..Depth',
         Depth \in Nat, Depth' \in Nat,
         UNCHANGED <<listed, inFlight, locked, working, ended>>,
         \A r \in Requests : pFetch[r] = Null => pFetch'[r] = Null,
         \A i \in 1..k : calls[i].at \in {"aborting", "finished"} =>
            calls[i].request \in Requests,
         \A i \in (k + 1)..Depth' : calls'[i].at \notin {"aborting", "finished"}
  PROVE  EndInv'
<1>1. ASSUME NEW i \in DOMAIN calls'
      PROVE  Ending(calls[i])'
  <2>1. CASE i \in 1..k
    <3>1. i \in DOMAIN calls /\ calls'[i] = calls[i]
      BY <2>1 DEF Kept
    <3> QED
      BY <2>1, <3>1 DEF EndInv, Ending, Unended
  <2>2. CASE i \in (k + 1)..Depth'
    BY <2>2 DEF Ending
  <2> QED
    BY <2>1, <2>2
<1>2. \A r \in Requests : Ended(r)'
  BY DEF EndInv, Ended
<1> QED
  BY <1>1, <1>2 DEF EndInv

LEMMA EndStep ==
  ASSUME IInv, [Next]_vars
  PROVE  EndInv'
<1>0. TypeOK /\ CallsInv /\ FetchInv /\ EndInv
  BY DEF IInv
<1> USE <1>0
<1>91. /\ Depth \in Nat /\ DOMAIN calls = 1..Depth
       /\ \A i \in 1..Depth : calls[i] \in Calls
       /\ \A i \in 1..Depth : calls[i].at # "answering" => calls[i].request \in Requests
  <2>1. Depth \in Nat /\ DOMAIN calls = 1..Depth /\ \A i \in 1..Depth : calls[i] \in Calls
    BY ElementOfSeq DEF TypeOK, Depth
  <2> QED
    BY <2>1 DEF CallsInv, Sound, Calls
<1>92. ASSUME NEW r \in Requests, pFetch[r] # Null
       PROVE  Unended(r)
  BY <1>92 DEF FetchInv, Fetching
<1>93. ASSUME InProgram, calls' = calls
       PROVE  \A i \in DOMAIN calls' : Ending(calls[i])'
  BY <1>93, ProgramCalls DEF Ending
<1>1. ASSUME NEW r \in Requests, NEW f \in Fetches, TrySubmit(r, f)
      PROVE  EndInv'
  <2>1. \A q \in Requests : Ended(q)'
    BY <1>1 DEF TrySubmit, EndInv, Ended, TypeOK, tasks
  <2> QED
    BY <1>1, <1>93, <2>1 DEF TrySubmit, EndInv
<1>2. ASSUME NEW r \in Requests, SubmitRefused(r)
      PROVE  EndInv'
  <2>1. \A q \in Requests : Ended(q)'
    BY <1>2 DEF SubmitRefused, EndInv, Ended, TypeOK, tasks
  <2> QED
    BY <1>2, <1>93, <2>1 DEF SubmitRefused, EndInv
<1>3. ASSUME NEW r \in Requests, TaskEnds(r)
      PROVE  EndInv'
  <2>1. \A q \in Requests : Ended(q)'
    BY <1>3 DEF TaskEnds, Unlock, EndInv, Ended, TypeOK
  <2>2. ASSUME NEW i \in DOMAIN calls'
        PROVE  Ending(calls[i])'
    <3>1. Ending(calls[i]) /\ calls' = calls
      BY <1>3 DEF TaskEnds, EndInv
    <3>2. calls[i].at # "answering" => calls[i].request \in Requests
      BY <1>91, <3>1
    <3> QED
      BY <1>3, <3>1, <3>2 DEF TaskEnds, Unlock, Ending, Unended, TypeOK, fetchVars
  <2> QED
    BY <2>1, <2>2 DEF EndInv
(* Main stays where it is.                                                 *)
<1>4. ASSUME UNCHANGED <<calls, pFetch, listed, inFlight, locked, working, ended>>
      PROVE  EndInv'
  BY <1>4 DEF EndInv, Ended, Ending, Unended
<1>5. ASSUME NEW r \in Requests, Cancel(r) \/ DropName(r) \/ Release(r) \/ Destroy(r)
      PROVE  EndInv'
  BY <1>4, <1>5 DEF Cancel, DropName, Release, Destroy, flags, tasks, fetchVars
<1>6. ASSUME NEW r \in Requests, Abort(r)
      PROVE  EndInv'
  <2>1. UNCHANGED <<listed, inFlight, locked, working, ended>> /\ Unended(r)
    BY <1>6, <1>92 DEF Abort, flags, tasks
  <2>2. /\ Depth' = Depth + 2 /\ DOMAIN calls' = 1..(Depth + 2) /\ Kept(Depth)
        /\ \A i \in 1..Depth : calls[i].at = "handling"
        /\ calls'[Depth + 1] = Call("aborting", r, Null)
        /\ calls'[Depth + 2] = Call("closing", r, pFetch[r])
        /\ pFetch' = [pFetch EXCEPT ![r] = Null]
    BY <1>6, AbortFacts
  <2>3. ASSUME NEW i \in DOMAIN calls'
        PROVE  Ending(calls[i])'
    <3>1. CASE i \in 1..Depth
      BY <2>2, <3>1 DEF Kept, Ending
    <3>2. CASE i = Depth + 1
      <4>1. calls'[i] = Call("aborting", r, Null) /\ pFetch'[r] = Null /\ Unended(r)'
        BY <2>1, <2>2, <3>2 DEF TypeOK, Unended
      <4> QED
        BY <4>1 DEF Ending, Call, Unended
    <3>3. CASE i = Depth + 2
      <4>1. calls'[i].at = "closing"
        BY <2>2, <3>3 DEF Call
      <4> QED
        BY <4>1 DEF Ending
    <3> QED
      BY <1>91, <2>2, <3>1, <3>2, <3>3
  <2>4. \A q \in Requests : Ended(q)'
    BY <2>1 DEF EndInv, Ended
  <2> QED
    BY <2>3, <2>4 DEF EndInv
<1>7. ASSUME NEW r \in Requests, Claim(r)
      PROVE  EndInv'
  <2>1. \A q \in Requests : Ended(q)'
    BY <1>7 DEF Claim, EndInv, Ended, TypeOK, tasks
  <2>2. ASSUME NEW i \in DOMAIN calls'
        PROVE  Ending(calls[i])'
    <3>1. /\ DOMAIN calls' = 1..(Depth + 1) /\ Kept(Depth)
          /\ \A j \in 1..Depth : calls[j].at = "handling"
          /\ calls'[Depth + 1] = Call("handling", r, Null)
      BY <1>7, ClaimFacts
    <3>2. calls'[i].at = "handling"
      BY <1>91, <3>1 DEF Kept, Call
    <3> QED
      BY <3>2 DEF Ending
  <2> QED
    BY <2>1, <2>2 DEF EndInv
<1>8. ASSUME NEW r \in Requests, Abandon(r)
      PROVE  EndInv'
  <2>1. UNCHANGED <<listed, inFlight, locked, working, ended>> /\ InLoop
    BY <1>8 DEF Abandon, tasks
  <2>2. \A q \in Requests : Ended(q)'
    BY <2>1 DEF EndInv, Ended
  <2>3. ASSUME NEW i \in DOMAIN calls'
        PROVE  Ending(calls[i])'
    <3>1. DOMAIN calls = {}
      BY <2>1 DEF InLoop
    <3>2. calls'[i] = Call("closing", r, pFetch[r])
      BY <1>8, <3>1, AbandonFacts DEF Starting
    <3> QED
      BY <3>2 DEF Ending, Call
  <2> QED
    BY <2>2, <2>3 DEF EndInv
<1>9. ASSUME NEW f \in Fetches, Answer(f)
      PROVE  EndInv'
  <2>1. UNCHANGED <<listed, inFlight, locked, working, ended>>
    BY <1>9 DEF Answer, flags, tasks
  <2>2. \A q \in Requests : Ended(q)'
    BY <2>1 DEF EndInv, Ended
  <2>3. ASSUME NEW i \in DOMAIN calls'
        PROVE  Ending(calls[i])'
    <3>1. calls'[i] = Call("answering", Null, f)
      BY <1>9, AnswerFacts DEF Starting
    <3> QED
      BY <3>1 DEF Ending, Call
  <2> QED
    BY <2>2, <2>3 DEF EndInv
<1>10. ASSUME NEW k \in Nat, k <= Depth, Kept(k),
              DOMAIN calls' = 1..Depth', Depth' \in Nat,
              UNCHANGED <<listed, inFlight, locked, working, ended, pFetch>>,
              \A i \in (k + 1)..Depth' : calls'[i].at \notin {"aborting", "finished"}
       PROVE  EndInv'
  <2>1. \A i \in 1..k : calls[i].at \in {"aborting", "finished"} =>
           calls[i].request \in Requests
    <3>1. \A i \in 1..k : i \in 1..Depth
      BY <1>10, <1>91
    <3> QED
      BY <1>91, <3>1
  <2> QED
    BY <1>10, <1>91, <2>1, EndKept
<1>11. ASSUME OnAnswer
       PROVE  EndInv'
  <2>1. UNCHANGED <<listed, inFlight, locked, working, ended, pFetch>>
    BY <1>11 DEF OnAnswer, flags, tasks, fetchVars
  <2>2. \/ Returning("answering")
        \/ Moving("answering", Call("finishing", userData[Here.fetch], Here.fetch))
    BY <1>11, OnAnswerFacts
  <2>3. /\ Depth \in Nat \ {0} /\ Kept(Depth - 1) /\ DOMAIN calls' = 1..Depth'
        /\ Depth' = Depth - 1 \/ (Depth' = Depth /\ calls'[Depth].at = "finishing")
    BY <2>2 DEF Returning, Moving, Call
  <2>4. /\ Depth - 1 \in Nat /\ Depth - 1 <= Depth /\ Depth' \in Nat
        /\ \A i \in ((Depth - 1) + 1)..Depth' : i = Depth /\ Depth' = Depth
    BY <2>3
  <2> QED
    BY <1>10, <2>1, <2>3, <2>4
<1>12. ASSUME EmscriptenFetchClose
       PROVE  EndInv'
  <2>1. UNCHANGED <<listed, inFlight, locked, working, ended, pFetch>>
    BY <1>12 DEF EmscriptenFetchClose, flags, tasks
  <2>2. /\ Depth \in Nat \ {0} /\ Kept(Depth - 1) /\ DOMAIN calls' = 1..Depth'
        /\ calls'[Depth].at = "deleting"
        /\ Depth' = Depth \/ (Depth' = Depth + 1 /\ calls'[Depth + 1].at = "answering")
    BY <1>12, ClosingFacts DEF Call
  <2>3. /\ Depth - 1 \in Nat /\ Depth - 1 <= Depth /\ Depth' \in Nat
        /\ \A i \in ((Depth - 1) + 1)..Depth' :
              i = Depth \/ (i = Depth + 1 /\ Depth' = Depth + 1 /\ Depth' # Depth)
    BY <2>2
  <2>4. \A i \in ((Depth - 1) + 1)..Depth' :
           calls'[i].at \notin {"aborting", "finished"}
    BY <2>2, <2>3
  <2> QED
    BY <1>10, <2>1, <2>2, <2>3, <2>4
<1>13. ASSUME DeleteHolder \/ SubmitterReturns \/ HandlerReturns
       PROVE  EndInv'
  <2>1. UNCHANGED <<listed, inFlight, locked, working, ended, pFetch>>
    BY <1>13 DEF DeleteHolder, SubmitterReturns, HandlerReturns, flags, tasks,
       fetchVars
  <2>2. \E place : Returning(place)
    BY <1>13, EndingFacts
  <2>3. /\ Depth \in Nat \ {0} /\ Kept(Depth - 1) /\ DOMAIN calls' = 1..Depth'
        /\ Depth' = Depth - 1
    BY <2>2 DEF Returning
  <2>4. /\ Depth - 1 \in Nat /\ Depth - 1 <= Depth /\ Depth' \in Nat
        /\ ((Depth - 1) + 1)..Depth' = {}
    BY <2>3
  <2> QED
    BY <1>10, <2>1, <2>3, <2>4
<1>14. ASSUME MainFinish
       PROVE  EndInv'
  <2>1. calls # <<>> /\ Here.at = "finishing"
    BY <1>14 DEF MainFinish, In, Here
  <2>2. PICK r \in Requests : r = Here.request
    BY <1>14, MainFinishFacts
  <2>3. /\ pFetch[r] # Null /\ DOMAIN calls' = 1..2
        /\ calls'[1] = Call("finished", r, Null) /\ calls'[2].at = "closing"
        /\ pFetch' = [pFetch EXCEPT ![r] = Null]
    BY <1>14, <2>1, <2>2, MainFinishFacts, AnswerIsFirst, FetchPointersAssumption
    DEF Call
  <2>4. UNCHANGED <<listed, inFlight, locked, working, ended>>
    BY <1>14 DEF MainFinish, flags, tasks
  <2>5. \A q \in Requests : Ended(q)'
    BY <2>4 DEF EndInv, Ended
  <2>6. ASSUME NEW i \in DOMAIN calls'
        PROVE  Ending(calls[i])'
    <3>1. CASE i = 1
      <4>1. Unended(r)' /\ pFetch'[r] = Null
        BY <1>92, <2>3, <2>4 DEF Unended, TypeOK
      <4> QED
        BY <2>3, <3>1, <4>1 DEF Ending, Call, Unended
    <3>2. CASE i = 2
      BY <2>3, <3>2 DEF Ending
    <3> QED
      BY <2>3, <3>1, <3>2
  <2> QED
    BY <2>5, <2>6 DEF EndInv
<1>15. ASSUME RunWorkerHalf
       PROVE  EndInv'
  <2>1. calls # <<>> /\ Here.at = "finished"
    BY <1>15 DEF RunWorkerHalf, In, Here
  <2>2. PICK r \in Requests : r = Here.request
    BY <1>15, RunWorkerHalfFacts
  <2>3. /\ Depth = 1 /\ DOMAIN calls' = 1..1 /\ calls[1] = Here
        /\ calls'[1].at = "submitting" /\ working' = [working EXCEPT ![r] = TRUE]
    BY <1>15, <2>1, <2>2, RunWorkerHalfFacts, AnswerIsFirst DEF Moving, Call
  <2>4. UNCHANGED <<listed, inFlight, locked, ended>>
    BY <1>15 DEF RunWorkerHalf, flags
  <2>5. Unended(r)
    BY <1>91, <2>1, <2>2, <2>3 DEF EndInv, Ending
  <2>6. \A q \in Requests : Ended(q)'
    BY <2>3, <2>4, <2>5 DEF EndInv, Ended, Unended, TypeOK
  <2>7. \A i \in DOMAIN calls' : Ending(calls[i])'
    BY <2>3 DEF Ending
  <2> QED
    BY <2>6, <2>7 DEF EndInv
<1>16. ASSUME AbortEnds
       PROVE  EndInv'
  <2>1. In("aborting") /\ calls' = Return /\ calls # <<>> /\ Here.at = "aborting"
    BY <1>16 DEF AbortEnds, In, Here
  <2>2. Returning("aborting")
    BY <2>1, ReturningFacts
  <2>3. PICK r \in Requests : r = Here.request
    BY <2>1, HereType
  <2>4. Unended(r)
    <3>1. Depth \in DOMAIN calls /\ calls[Depth] = Here
      BY <2>2 DEF Returning
    <3> QED
      BY <2>1, <2>3, <3>1 DEF EndInv, Ending
  <2>5. \A q \in Requests : Ended(q)'
    BY <1>16, <2>3, <2>4 DEF AbortEnds, Unlock, EndInv, Ended, Unended, TypeOK, tasks
  <2>6. ASSUME NEW i \in DOMAIN calls'
        PROVE  Ending(calls[i])'
    <3>1. i \in 1..(Depth - 1) /\ calls'[i] = calls[i]
      BY <2>2 DEF Returning, Kept
    <3>2. i # Depth - 2 \/ calls[i].at = "handling"
      BY <2>1, <3>1, BeneathFacts DEF Within
    <3> QED
      BY <2>1, <3>1, <3>2, BeneathFacts DEF Ending, Within
  <2> QED
    BY <2>5, <2>6 DEF EndInv
<1>17. ASSUME BeginDestroy \/ EndDestroy
       PROVE  EndInv'
  <2>1. /\ calls' = <<>> /\ UNCHANGED <<inFlight, locked, working, ended>>
    BY <1>17 DEF BeginDestroy, EndDestroy, InLoop, flags, tasks
  <2> QED
    BY <2>1 DEF EndInv, Ended
<1>18. CASE UNCHANGED vars
  BY <1>4, <1>18 DEF vars, flags, tasks, fetchVars
<1> QED
  BY <1>1, <1>2, <1>3, <1>5, <1>6, <1>7, <1>8, <1>9, <1>11, <1>12, <1>13, <1>14,
     <1>15, <1>16, <1>17, <1>18 DEF Next, Returns

-----------------------------------------------------------------------------
(* What refers to a request had, before the step, something else that did. *)

PinsKept == \A q \in Requests : Pinned(q)' => Referenced(q)

LEMMA PinsFacts ==
  ASSUME DOMAIN calls = 1..Depth, DOMAIN calls' = 1..Depth',
         Depth \in Nat, Depth' \in Nat, NEW k \in Nat, k <= Depth, Kept(k),
         \A i \in (k + 1)..Depth' : calls'[i].at \in Pinning =>
            calls'[i].request \in Requests /\ Referenced(calls'[i].request)
  PROVE  PinsKept
<1> SUFFICES ASSUME NEW q \in Requests, Pinned(q)'
             PROVE  Referenced(q)
  BY DEF PinsKept
<1>1. PICK i \in DOMAIN calls' : calls'[i].at \in Pinning /\ calls'[i].request = q
  BY DEF Pinned, Pinning
<1>2. CASE i \in 1..k
  <2>1. i \in DOMAIN calls /\ calls'[i] = calls[i]
    BY <1>2 DEF Kept
  <2> QED
    BY <1>1, <2>1 DEF Referenced, Pinned
<1>3. CASE i \in (k + 1)..Depth'
  BY <1>1, <1>3
<1> QED
  BY <1>2, <1>3

(* Steps at which nothing else becomes a reference.                        *)
LEMMA OnlyPins ==
  ASSUME ReferenceInv, PinsKept, UNCHANGED <<alive, named, listed, tasks, holder>>
  PROVE  ReferenceInv'
<1> SUFFICES ASSUME NEW q \in Requests, Referenced(q)'
             PROVE  Referenced(q)
  BY DEF ReferenceInv
<1> QED
  BY DEF Referenced, PinsKept, tasks

LEMMA ReferenceStep ==
  ASSUME IInv, [Next]_vars
  PROVE  ReferenceInv'
<1>0. TypeOK /\ CallsInv /\ FetchInv /\ ReferenceInv
  BY DEF IInv
<1> USE <1>0
<1>91. Depth \in Nat /\ DOMAIN calls = 1..Depth
  BY DEF TypeOK, Depth
<1>92. ASSUME calls' = calls
       PROVE  PinsKept
  BY <1>92 DEF PinsKept, Pinned, Referenced
<1>93. ASSUME NEW place, Returning(place)
       PROVE  PinsKept
  <2>1. /\ Depth \in Nat \ {0} /\ Kept(Depth - 1) /\ DOMAIN calls' = 1..Depth'
        /\ Depth' = Depth - 1
    BY <1>93 DEF Returning
  <2>2. /\ Depth - 1 \in Nat /\ Depth - 1 <= Depth /\ Depth' \in Nat
        /\ ((Depth - 1) + 1)..Depth' = {}
    BY <2>1
  <2> QED
    BY <1>91, <2>1, <2>2, PinsFacts
<1>1. ASSUME NEW r \in Requests, NEW f \in Fetches, TrySubmit(r, f)
      PROVE  ReferenceInv'
  <2>1. /\ named[r] /\ PinsKept /\ UNCHANGED <<alive, named, tasks>>
        /\ \A q \in Requests : q # r => listed'[q] = listed[q]
        /\ \A g \in Fetches : holder'[g] = holder[g] \/ holder'[g] = r
    BY <1>1, <1>92 DEF TrySubmit, TypeOK
  <2>2. ASSUME NEW q \in Requests, Referenced(q)'
        PROVE  Referenced(q)
    BY <2>1, <2>2 DEF Referenced, PinsKept, tasks
  <2> QED
    BY <2>1, <2>2 DEF ReferenceInv
<1>2. ASSUME UNCHANGED <<alive, named, listed, tasks, holder, calls>>
      PROVE  ReferenceInv'
  BY <1>2, <1>92, OnlyPins
<1>3. ASSUME NEW r \in Requests, SubmitRefused(r) \/ Cancel(r)
      PROVE  ReferenceInv'
  BY <1>2, <1>3 DEF SubmitRefused, Cancel, fetchVars
<1>4. ASSUME NEW r \in Requests, DropName(r)
      PROVE  ReferenceInv'
  <2>1. /\ PinsKept /\ UNCHANGED <<alive, listed, tasks, fetchVars>>
        /\ \A q \in Requests : named'[q] => named[q]
    BY <1>4, <1>92 DEF DropName, TypeOK
  <2>2. ASSUME NEW q \in Requests, Referenced(q)'
        PROVE  Referenced(q)
    BY <2>1, <2>2 DEF Referenced, PinsKept, tasks, fetchVars
  <2> QED
    BY <2>1, <2>2 DEF ReferenceInv
<1>5. ASSUME NEW r \in Requests, TaskEnds(r) \/ Release(r)
      PROVE  ReferenceInv'
  <2>1. PinsKept /\ UNCHANGED <<alive, named, listed, fetchVars>>
    BY <1>5, <1>92 DEF TaskEnds, Release
  <2>2. ASSUME NEW q \in Requests, working'[q] \/ spent'[q] > 0
        PROVE  working[q] \/ spent[q] > 0
    BY <1>5, <2>2 DEF TaskEnds, Release, TypeOK
  <2>3. ASSUME NEW q \in Requests, Referenced(q)'
        PROVE  Referenced(q)
    BY <2>1, <2>2, <2>3 DEF Referenced, PinsKept, fetchVars
  <2> QED
    BY <2>1, <2>3 DEF ReferenceInv
<1>6. ASSUME NEW r \in Requests, Destroy(r)
      PROVE  ReferenceInv'
  <2>1. /\ ~Referenced(r) /\ alive' = [alive EXCEPT ![r] = FALSE] /\ PinsKept
        /\ UNCHANGED <<named, listed, tasks, fetchVars>>
    BY <1>6, <1>92 DEF Destroy
  <2>2. ASSUME NEW q \in Requests, Referenced(q)'
        PROVE  Referenced(q)
    BY <2>1, <2>2 DEF Referenced, PinsKept, tasks, fetchVars
  <2> QED
    BY <2>1, <2>2 DEF ReferenceInv, TypeOK
<1>7. ASSUME NEW r \in Requests, Abort(r)
      PROVE  ReferenceInv'
  <2>1. /\ Depth' = Depth + 2 /\ DOMAIN calls' = 1..Depth' /\ Kept(Depth)
        /\ calls'[Depth + 1] = Call("aborting", r, Null)
        /\ calls'[Depth + 2] = Call("closing", r, pFetch[r])
    BY <1>7, AbortFacts
  <2>2. \A i \in (Depth + 1)..Depth' : i = Depth + 1 \/ i = Depth + 2
    BY <1>91, <2>1
  <2>3. \A i \in (Depth + 1)..Depth' : calls'[i].at \notin Pinning
    BY <2>1, <2>2 DEF Call, Pinning
  <2>4. PinsKept
    BY <1>91, <2>1, <2>3, PinsFacts
  <2> QED
    BY <1>7, <2>4, OnlyPins DEF Abort
<1>8. ASSUME NEW r \in Requests, Claim(r)
      PROVE  ReferenceInv'
  <2>1. /\ Depth' = Depth + 1 /\ DOMAIN calls' = 1..Depth' /\ Kept(Depth)
        /\ calls'[Depth + 1] = Call("handling", r, Null)
    BY <1>8, ClaimFacts
  <2>2. /\ listed[r] /\ UNCHANGED <<alive, named, tasks, holder>>
        /\ \A q \in Requests : listed'[q] => listed[q]
    BY <1>8 DEF Claim, TypeOK
  <2>3. Referenced(r)
    BY <2>2 DEF Referenced
  <2>4. \A i \in (Depth + 1)..Depth' : i = Depth + 1
    BY <1>91, <2>1
  <2>5. \A i \in (Depth + 1)..Depth' : calls'[i].request = r
    BY <2>1, <2>4 DEF Call
  <2>6. PinsKept
    BY <1>91, <2>1, <2>3, <2>5, PinsFacts
  <2>7. ASSUME NEW q \in Requests, Referenced(q)'
        PROVE  Referenced(q)
    BY <2>2, <2>6, <2>7 DEF Referenced, PinsKept, tasks
  <2> QED
    BY <2>2, <2>7 DEF ReferenceInv
<1>9. ASSUME NEW r \in Requests, Abandon(r)
      PROVE  ReferenceInv'
  <2>1. CASE UNCHANGED calls
    BY <1>9, <2>1, <1>92, OnlyPins DEF Abandon
  <2>2. CASE Starting(Call("closing", r, pFetch[r]))
    <3>1. PinsKept
      BY <2>2 DEF Starting, PinsKept, Pinned, Pinning, Call
    <3> QED
      BY <1>9, <3>1, OnlyPins DEF Abandon
  <2> QED
    BY <1>9, <2>1, <2>2, AbandonFacts
<1>10. ASSUME NEW f \in Fetches, Answer(f)
       PROVE  ReferenceInv'
  <2>1. PinsKept
    <3>1. DOMAIN calls' = {1} /\ calls'[1] = Call("answering", Null, f)
      BY <1>10, AnswerFacts DEF Starting
    <3> QED
      BY <3>1 DEF PinsKept, Pinned, Pinning, Call
  <2> QED
    BY <1>10, <2>1, OnlyPins DEF Answer
<1>11. ASSUME OnAnswer
       PROVE  ReferenceInv'
  <2> DEFINE r == userData[Here.fetch]
             f == Here.fetch
  <2>1. CASE Returning("answering")
    BY <1>11, <1>93, <2>1, OnlyPins DEF OnAnswer, fetchVars
  <2>2. CASE f \in Fetches /\ r \in Requests
             /\ Moving("answering", Call("finishing", r, f))
    <3>1. /\ Depth \in Nat \ {0} /\ Depth' = Depth /\ DOMAIN calls' = 1..Depth
          /\ Kept(Depth - 1) /\ calls'[Depth].request = r
      BY <2>2 DEF Moving, Call
    <3>2. Referenced(r)
      <4>1. pFetch[r] = f
        BY <2>2, FetchPointersAssumption DEF FetchInv, Held
      <4>2. holder[f] = r
        BY <2>2, <4>1, FetchPointersAssumption DEF FetchInv, Fetching
      <4> QED
        BY <2>2, <4>2 DEF Referenced
    <3>3. /\ Depth - 1 \in Nat /\ Depth - 1 <= Depth /\ Depth' \in Nat
          /\ \A i \in ((Depth - 1) + 1)..Depth' : i = Depth
      BY <3>1
    <3>4. \A i \in ((Depth - 1) + 1)..Depth' : calls'[i].request = r
      BY <3>1, <3>3
    <3>5. PinsKept
      BY <1>91, <2>2, <3>1, <3>2, <3>3, <3>4, PinsFacts
    <3> QED
      BY <1>11, <3>5, OnlyPins DEF OnAnswer, fetchVars
  <2> QED
    BY <1>11, <2>1, <2>2, OnAnswerFacts
<1>12. ASSUME EmscriptenFetchClose
       PROVE  ReferenceInv'
  <2>1. /\ Depth \in Nat \ {0} /\ Kept(Depth - 1) /\ DOMAIN calls' = 1..Depth'
        /\ calls'[Depth].at = "deleting"
        /\ Depth' = Depth \/ (Depth' = Depth + 1 /\ calls'[Depth + 1].at = "answering")
    BY <1>12, ClosingFacts DEF Call
  <2>2. /\ Depth - 1 \in Nat /\ Depth - 1 <= Depth /\ Depth' \in Nat
        /\ \A i \in ((Depth - 1) + 1)..Depth' :
              i = Depth \/ (i = Depth + 1 /\ Depth' = Depth + 1 /\ Depth' # Depth)
    BY <2>1
  <2>3. \A i \in ((Depth - 1) + 1)..Depth' : calls'[i].at \notin Pinning
    BY <2>1, <2>2 DEF Pinning
  <2>4. PinsKept
    BY <1>91, <2>1, <2>2, <2>3, PinsFacts
  <2> QED
    BY <1>12, <2>4, OnlyPins DEF EmscriptenFetchClose
<1>13. ASSUME DeleteHolder
       PROVE  ReferenceInv'
  <2>1. PinsKept /\ Here.fetch \in Fetches
    <3>1. In("deleting") /\ calls' = Return
      BY <1>13 DEF DeleteHolder
    <3> QED
      BY <3>1, <1>93, ReturningFacts, HereType DEF In, Here
  <2>2. /\ UNCHANGED <<alive, named, listed, tasks>>
        /\ \A f \in Fetches : holder'[f] = holder[f] \/ holder'[f] = Null
    BY <1>13, <2>1 DEF DeleteHolder, TypeOK
  <2>3. ASSUME NEW q \in Requests, Referenced(q)'
        PROVE  Referenced(q)
    BY <2>1, <2>2, <2>3, FetchPointersAssumption DEF Referenced, PinsKept, tasks
  <2> QED
    BY <2>2, <2>3 DEF ReferenceInv
<1>14. ASSUME SubmitterReturns \/ HandlerReturns \/ AbortEnds
       PROVE  ReferenceInv'
  <2>1. PinsKept
    BY <1>14, <1>93, ReturningFacts DEF SubmitterReturns, HandlerReturns, AbortEnds
  <2> QED
    BY <1>14, <2>1, OnlyPins DEF SubmitterReturns, HandlerReturns, AbortEnds,
       fetchVars
<1>15. ASSUME MainFinish
       PROVE  ReferenceInv'
  <2>1. calls # <<>> /\ Here.at = "finishing"
    BY <1>15 DEF MainFinish, In, Here
  <2>2. PICK r \in Requests : r = Here.request
    BY <1>15, MainFinishFacts
  <2>3. /\ DOMAIN calls = 1..1 /\ calls[1] = Here /\ DOMAIN calls' = 1..2
        /\ calls'[1].request = r /\ calls'[2].at = "closing"
    BY <1>15, <2>1, <2>2, MainFinishFacts, AnswerIsFirst DEF Call
  <2>4. Referenced(r)
    BY <2>1, <2>2, <2>3 DEF Referenced, Pinned, Pinning
  <2>5. PinsKept
    <3>1. \A i \in DOMAIN calls' : calls'[i].at \in Pinning => calls'[i].request = r
      <4>1. \A i \in DOMAIN calls' : i = 1 \/ i = 2
        BY <2>3
      <4> QED
        BY <2>3, <4>1 DEF Pinning
    <3> QED
      BY <2>4, <3>1 DEF PinsKept, Pinned, Pinning
  <2> QED
    BY <1>15, <2>5, OnlyPins DEF MainFinish
<1>16. ASSUME RunWorkerHalf
       PROVE  ReferenceInv'
  <2>1. calls # <<>> /\ Here.at = "finished"
    BY <1>16 DEF RunWorkerHalf, In, Here
  <2>2. PICK r \in Requests : r = Here.request
    BY <1>16, RunWorkerHalfFacts
  <2>3. /\ DOMAIN calls = 1..1 /\ calls[1] = Here /\ DOMAIN calls' = 1..1
        /\ calls'[1].request = r /\ working' = [working EXCEPT ![r] = TRUE]
    BY <1>16, <2>1, <2>2, RunWorkerHalfFacts, AnswerIsFirst DEF Moving, Call
  <2>4. Referenced(r)
    BY <2>1, <2>2, <2>3 DEF Referenced, Pinned, Pinning
  <2>5. PinsKept
    BY <2>3, <2>4 DEF PinsKept, Pinned, Pinning
  <2>6. UNCHANGED <<alive, named, listed, fetchVars, spent>>
    BY <1>16 DEF RunWorkerHalf
  <2>7. ASSUME NEW q \in Requests, Referenced(q)'
        PROVE  Referenced(q)
    <3>1. working'[q] => working[q] \/ q = r
      BY <2>3 DEF TypeOK
    <3> QED
      BY <2>4, <2>5, <2>6, <2>7, <3>1 DEF Referenced, PinsKept, fetchVars
  <2> QED
    BY <2>6, <2>7 DEF ReferenceInv
<1>17. ASSUME BeginDestroy \/ EndDestroy
       PROVE  ReferenceInv'
  <2>1. /\ PinsKept /\ UNCHANGED <<alive, named, tasks, fetchVars>>
        /\ \A q \in Requests : listed'[q] => listed[q]
    BY <1>17, <1>92 DEF BeginDestroy, EndDestroy
  <2>2. ASSUME NEW q \in Requests, Referenced(q)'
        PROVE  Referenced(q)
    BY <2>1, <2>2 DEF Referenced, PinsKept, tasks, fetchVars
  <2> QED
    BY <2>1, <2>2 DEF ReferenceInv
<1>18. CASE UNCHANGED vars
  BY <1>2, <1>18 DEF vars, fetchVars
<1> QED
  BY <1>1, <1>3, <1>4, <1>5, <1>6, <1>7, <1>8, <1>9, <1>10, <1>11, <1>12, <1>13,
     <1>14, <1>15, <1>16, <1>17, <1>18 DEF Next, Returns

-----------------------------------------------------------------------------
(* The theorems.                                                           *)

(* The types, what may stand on main's stack, whose fetch is whose, who is *)
(* to end a submission and who keeps a request alive: the invariant that   *)
(* close_fetch, the callbacks, a poll and the destructor all keep.         *)
THEOREM FetchLifetimeInvariant == Spec => []IInv
<1>1. Init => IInv
  <2> SUFFICES ASSUME Init
               PROVE  IInv
    OBVIOUS
  <2>1. /\ calls = <<>> /\ DOMAIN calls = {} /\ calls \in Seq(Calls)
        /\ life = "open" /\ alive = [r \in Requests |-> TRUE]
    BY DEF Init
  <2>2. TypeOK
    BY <2>1 DEF Init, TypeOK
  <2>3. CallsInv
    BY <2>1 DEF CallsInv
  <2>4. FetchInv
    BY <2>1 DEF Init, FetchInv, Fetching, Held
  <2>5. EndInv
    BY <2>1 DEF Init, EndInv, Ended
  <2>6. ReferenceInv
    BY <2>1 DEF ReferenceInv
  <2> QED
    BY <2>2, <2>3, <2>4, <2>5, <2>6 DEF IInv
<1>2. IInv /\ [Next]_vars => IInv'
  BY TypeStep, CallsStep, FetchStep, EndStep, ReferenceStep DEF IInv
<1> QED
  BY <1>1, <1>2, PTL DEF Spec

(* A submission is unlocked for main once, by its task_state or by an      *)
(* abort, whatever a closing calls back: fetch_request::close_fetch.       *)
THEOREM SubmissionEndsOnce == Spec => []EndedOnce
<1>1. IInv => EndedOnce
  BY DEF IInv, EndInv, Ended, EndedOnce
<1> QED
  BY <1>1, FetchLifetimeInvariant, PTL

(* No call of main's has a request that is destroyed or a fetch that is    *)
(* freed, and every fetch is freed: the holders and m_pFetch.              *)
THEOREM NothingEverDangles == Spec => []NothingDangles
<1>1. IInv => NothingDangles
  <2> SUFFICES ASSUME IInv
               PROVE  NothingDangles
    OBVIOUS
  <2>0. TypeOK /\ CallsInv /\ FetchInv /\ EndInv /\ ReferenceInv
    BY DEF IInv
  <2> USE <2>0
  <2>1. ASSUME NEW r \in Requests, pFetch[r] # Null
        PROVE  /\ alive[r] /\ state[pFetch[r]] # "free" /\ pFetch[r] \in Fetches
    <3>1. Fetching(r)
      BY <2>1 DEF FetchInv
    <3> QED
      BY <3>1 DEF Fetching, Unended, ReferenceInv, Referenced
  <2>2. ASSUME NEW i \in DOMAIN calls
        PROVE  /\ calls[i].request # Null => alive[calls[i].request]
               /\ calls[i].fetch # Null => state[calls[i].fetch] # "free"
    <3> DEFINE c == calls[i]
    <3>1. c \in Calls
      BY <2>2, ElementOfSeq DEF TypeOK
    <3>2. Sound(c) /\ HasFetch(c) /\ Ending(c)
      BY <2>2 DEF CallsInv, FetchInv, EndInv
    <3>3. CASE c.at \in Pinning
      <4>1. c.request \in Requests /\ alive[c.request]
        BY <2>2, <3>1, <3>2, <3>3
        DEF Calls, Sound, Pinning, Pinned, Referenced, ReferenceInv
      <4>2. c.fetch # Null => pFetch[c.request] = c.fetch
        BY <3>2, <3>3 DEF Sound, HasFetch, Pinning
      <4> QED
        BY <2>1, <4>1, <4>2
    <3>4. CASE c.at = "aborting"
      BY <3>1, <3>2, <3>4
      DEF Calls, Sound, Ending, Unended, Referenced, ReferenceInv
    <3>5. CASE c.at \in {"closing", "deleting"}
      <4>1. c.request \in Requests /\ c.fetch \in Fetches /\ holder[c.fetch] = c.request
        BY <3>1, <3>2, <3>5 DEF Calls, Sound, HasFetch
      <4>2. alive[c.request]
        BY <4>1 DEF Referenced, ReferenceInv
      <4>3. state[c.fetch] # "free"
        BY <4>1, FetchPointersAssumption DEF FetchInv, Held
      <4> QED
        BY <4>2, <4>3
    <3>6. CASE c.at = "answering"
      <4>1. c.request = Null /\ c.fetch \in Fetches
        BY <3>1, <3>2, <3>6 DEF Calls, Sound
      <4>2. CASE i = 1
        BY <2>2, <3>6, <4>1, <4>2 DEF CallsInv
      <4>3. CASE i # 1
        <5>1. i - 1 \in DOMAIN calls
          BY <2>2, <4>3 DEF TypeOK
        <5>2. Within(calls[i - 1], c) /\ HasFetch(calls[i - 1]) /\ Sound(calls[i - 1])
          BY <2>2, <4>3, <5>1 DEF CallsInv, FetchInv
        <5>3. /\ calls[i - 1].at = "deleting" /\ calls[i - 1].fetch = c.fetch
              /\ holder[c.fetch] # Null
          BY <3>6, <5>2 DEF Within, HasFetch, Sound
        <5> QED
          BY <4>1, <5>3 DEF FetchInv, Held
      <4> QED
        BY <4>2, <4>3
    <3> QED
      BY <3>1, <3>3, <3>4, <3>5, <3>6 DEF Calls, Places, Pinning
  <2>3. ASSUME NEW f \in Fetches, state[f] # "free"
        PROVE  BeingClosed(f) \/ \E r \in Requests : pFetch[r] = f
    BY <2>3 DEF FetchInv, Held, TypeOK
  <2>4. ASSUME NEW r \in Requests, working[r]
        PROVE  alive[r]
    BY <2>4 DEF Referenced, ReferenceInv
  <2> QED
    BY <2>1, <2>2, <2>3, <2>4 DEF NothingDangles, FetchInv
<1> QED
  BY <1>1, FetchLifetimeInvariant, PTL

(* An on_error that emscripten_fetch_close calls back returns at once: to  *)
(* the rest of the program a close is one step, as FetchContext has it     *)
(* (close_fetch clears userData before it closes).                         *)
ClosingFinishesNothing == [][OnAnswer /\ Len(calls) # 1 => calls' = Return]_vars

THEOREM ClosingIsOneStep == Spec => ClosingFinishesNothing
<1>1. IInv /\ OnAnswer /\ Len(calls) # 1 => calls' = Return
  <2> SUFFICES ASSUME IInv, OnAnswer, Depth # 1
               PROVE  userData[Here.fetch] = Null
    BY DEF OnAnswer, Depth
  <2>1. TypeOK /\ CallsInv /\ FetchInv /\ calls # <<>> /\ Here.at = "answering"
    BY DEF IInv, OnAnswer, In, Here
  <2>2. /\ Depth \in Nat \ {0} /\ DOMAIN calls = 1..Depth /\ Here = calls[Depth]
    BY <2>1, HereFacts
  <2>3. Depth \in DOMAIN calls /\ Depth - 1 \in DOMAIN calls
    BY <2>2
  <2>4. Within(calls[Depth - 1], Here) /\ HasFetch(calls[Depth - 1])
    BY <2>1, <2>2, <2>3 DEF CallsInv, FetchInv
  <2> QED
    BY <2>1, <2>4 DEF Within, HasFetch
<1>2. IInv /\ [Next]_vars => [OnAnswer /\ Len(calls) # 1 => calls' = Return]_vars
  BY <1>1
<1> QED
  BY <1>2, FetchLifetimeInvariant, PTL DEF Spec, ClosingFinishesNothing

=============================================================================
