------------------------- MODULE CurlTransferProofs -------------------------
EXTENDS CurlTransfer, TLAPS

-----------------------------------------------------------------------------
(* What the longer steps do, field by field.                               *)

(* A throw, made with sink s: the first is kept, the transfer aborted.     *)
Thrown(s) ==
    /\ config.own_handler = TRUE
    /\ thrown' = thrown + 1
    /\ sink'.status = s.status /\ sink'.reported = s.reported
    /\ sink'.aborted = TRUE
    /\ sink'.exception = IF s.exception = 0 THEN thrown + 1 ELSE s.exception
    /\ thrown + 1 \in Throw => sink' \in Sinks

LEMMA ThrowFacts ==
  ASSUME TypeOK, NEW s \in Sinks, Throws(s)
  PROVE  Thrown(s)
<1>1. config.own_handler \in BOOLEAN
  BY ConfigsAssumption DEF TypeOK, Config
<1> QED
  BY <1>1 DEF Throws, Thrown, Capture, Sinks, TypeOK

LEMMA CodeFacts == TypeOK => wire.code \in Statuses \cup {0}
BY DEF TypeOK, Wires

(* A status line, or the code of one, is read into the sink.               *)
LEMMA ReadFacts ==
  ASSUME TypeOK, NEW c \in Statuses \cup {0}
  PROVE  /\ Read(c) \in Sinks
         /\ Read(c).status = c /\ Read(c).reported = TRUE
         /\ Read(c).aborted = sink.aborted
         /\ Read(c).exception = sink.exception
BY DEF TypeOK, Sinks, Read

LEMMA AnsweredFacts ==
  ASSUME TypeOK, NEW c \in Statuses
  PROVE  /\ Answered(c) \in Wires
         /\ Answered(c).part = "headers" /\ Answered(c).code = c
         /\ Answered(c).content = 0
         /\ Answered(c).hops = wire.hops /\ Answered(c).result = wire.result
<1> DEFINE w == wire
           v == Answered(c)
<1>0. w \in Wires
  BY DEF TypeOK
<1> HIDE DEF w
<1> DEFINE v1 == [w EXCEPT !.part = "headers"]
           v2 == [v1 EXCEPT !.code = c]
           v3 == [v2 EXCEPT !.content = 0]
<1>1. v1 \in Wires
  BY <1>0 DEF Wires
<1>2. v2 \in Wires
  <2> HIDE DEF v1
  <2> QED
    BY <1>1 DEF Wires
<1>3. v3 \in Wires
  <2> HIDE DEF v2
  <2> QED
    BY <1>2, BoundsAssumption DEF Wires
<1>4. v = v3
  BY <1>0 DEF Wires, Answered, w
<1>5. /\ v.part = "headers" /\ v.code = c /\ v.content = 0
      /\ v.hops = w.hops /\ v.result = w.result
  BY <1>0 DEF Wires, Answered, w
<1> QED
  BY <1>3, <1>4, <1>5 DEF w

LEMMA StopFacts ==
  ASSUME NEW w \in Wires, NEW result \in CurlCodes, Stop(w, result)
  PROVE  /\ stage' = "closing"
         /\ wire' \in Wires
         /\ wire'.part = w.part /\ wire'.code = w.code
         /\ wire'.content = w.content /\ wire'.hops = w.hops
         /\ wire'.result = result
BY DEF Stop, Wires

ReadOrThrown(c) ==
    /\ sink'.status = c /\ sink'.reported = TRUE
    /\ handler' \in Handlers
    /\ handler'.status = c /\ handler'.held = handler.held
    /\ handler'.exceeded = handler.exceeded
    /\ \/ /\ thrown' = thrown
          /\ sink'.aborted = sink.aborted /\ sink'.exception = sink.exception
          /\ sink' \in Sinks
       \/ Thrown(Read(c)) /\ thrown' # thrown

LEMMA ReadOrThrownFacts ==
  ASSUME TypeOK, NEW c \in Statuses \cup {0},
         handler' = [handler EXCEPT !.status = c],
         (sink' = Read(c) /\ UNCHANGED thrown) \/ Throws(Read(c))
  PROVE  ReadOrThrown(c)
<1>1. /\ handler' \in Handlers
      /\ handler'.status = c /\ handler'.held = handler.held
      /\ handler'.exceeded = handler.exceeded
  BY DEF TypeOK, Handlers
<1>2. CASE sink' = Read(c) /\ UNCHANGED thrown
  BY <1>1, <1>2, ReadFacts DEF ReadOrThrown
<1>3. CASE Throws(Read(c))
  <2>1. Thrown(Read(c))
    BY <1>3, ReadFacts, ThrowFacts
  <2>2. sink'.status = c /\ sink'.reported = TRUE
    BY <2>1, ReadFacts DEF Thrown
  <2>3. thrown' # thrown
    <3>1. thrown \in 0..3 /\ thrown' = thrown + 1
      BY <2>1 DEF Thrown, TypeOK, Throw
    <3> QED
      BY <3>1
  <2> QED
    BY <1>1, <2>1, <2>2, <2>3 DEF ReadOrThrown
<1> QED
  BY <1>2, <1>3

LEMMA SinkFacts ==
  ASSUME TypeOK, Throws(sink)
  PROVE  Thrown(sink)
BY ThrowFacts DEF TypeOK

LEMMA StatusLineFacts ==
  ASSUME TypeOK, NEW code \in Statuses, StatusLine(code)
  PROVE  /\ stage = "performing" /\ wire.part = "status"
         /\ wire' \in Wires
         /\ wire'.part = "headers" /\ wire'.code = code /\ wire'.content = 0
         /\ \/ /\ cancelled /\ stage' = "closing"
               /\ wire'.result = "WRITE_ERROR"
               /\ UNCHANGED <<sink, handler, thrown>>
            \/ /\ ~cancelled
               /\ ReadOrThrown(code)
               /\ \/ /\ stage' = stage /\ wire'.result = wire.result
                     /\ thrown' = thrown
                  \/ /\ stage' = "closing" /\ wire'.result = "WRITE_ERROR"
                     /\ thrown' # thrown
         /\ UNCHANGED <<config, cancelled, error, exception, refused, timely, told>>
<1> DEFINE read == Read(code)
           answered == Answered(code)
<1>1. /\ answered \in Wires
      /\ answered.part = "headers" /\ answered.code = code
      /\ answered.content = 0 /\ answered.result = wire.result
  BY AnsweredFacts
<1>2. Stop(answered, "WRITE_ERROR") =>
         /\ stage' = "closing" /\ wire' \in Wires
         /\ wire'.part = "headers" /\ wire'.code = code /\ wire'.content = 0
         /\ wire'.result = "WRITE_ERROR"
  <2> HIDE DEF answered
  <2> QED
    BY <1>1, StopFacts DEF CurlCodes
<1>3. /\ stage = "performing" /\ wire.part = "status"
      /\ \/ /\ cancelled
            /\ Stop(answered, "WRITE_ERROR")
            /\ UNCHANGED <<sink, handler, thrown>>
         \/ /\ ~cancelled
            /\ handler' = [handler EXCEPT !.status = code]
            /\ \/ /\ sink' = read
                  /\ wire' = answered
                  /\ UNCHANGED <<stage, thrown>>
               \/ Throws(read) /\ Stop(answered, "WRITE_ERROR")
      /\ UNCHANGED <<config, cancelled, error, exception, refused, timely, told>>
  BY DEF StatusLine, requestVars, Awaiting
<1>4. ~cancelled => ReadOrThrown(code)
  BY <1>3, ReadOrThrownFacts
<1>5. Throws(read) => thrown' # thrown
  BY DEF Throws, TypeOK, Throw
<1> HIDE DEF read, answered
<1> QED
  BY <1>1, <1>2, <1>3, <1>4, <1>5

LEMMA ReportFacts ==
  ASSUME TypeOK, Report
  PROVE  /\ stage = "returned" /\ stage' = "deciding"
         /\ \/ sink.reported /\ UNCHANGED <<sink, handler, thrown>>
            \/ wire.code = 0 /\ UNCHANGED <<sink, handler, thrown>>
            \/ ~sink.reported /\ wire.code # 0 /\ ReadOrThrown(wire.code)
         /\ UNCHANGED <<config, cancelled, error, exception, wire, refused,
                        timely, told>>
BY CodeFacts, ReadOrThrownFacts DEF Report, requestVars

LEMMA ChunkFacts ==
  ASSUME TypeOK, ContentInv, NEW n \in 1..ContentBytes, Chunk(n)
  PROVE  /\ stage = "performing" /\ wire.part = "body"
         /\ handler.held = wire.content
         /\ wire' \in Wires /\ handler' \in Handlers
         /\ wire'.part = "body" /\ wire'.code = wire.code
         /\ wire'.content = wire.content + n
         /\ handler'.status = handler.status
         /\ \/ /\ sink.exception # 0 \/ cancelled
               /\ stage' = "closing" /\ wire'.result = "WRITE_ERROR"
               /\ UNCHANGED <<sink, handler, thrown, refused>>
            \/ /\ sink.exception = 0 /\ ~cancelled
               /\ config.own_handler \/ handler.held + n <= MaximumBytes
               /\ handler'.held = handler.held + n
               /\ handler'.exceeded = handler.exceeded
               /\ wire'.result = wire.result
               /\ UNCHANGED <<stage, sink, thrown, refused>>
            \/ /\ sink.exception = 0 /\ ~cancelled
               /\ config.own_handler \/ handler.held + n > MaximumBytes
               /\ handler'.held = handler.held
               /\ handler'.exceeded = ~config.own_handler
               /\ sink' \in Sinks
               /\ sink'.status = sink.status /\ sink'.reported = sink.reported
               /\ sink'.aborted = TRUE /\ sink'.exception = sink.exception
               /\ refused' = TRUE
               /\ stage' = "closing" /\ wire'.result = "WRITE_ERROR"
               /\ UNCHANGED thrown
            \/ /\ sink.exception = 0 /\ ~cancelled
               /\ Thrown(sink)
               /\ stage' = "closing" /\ wire'.result = "WRITE_ERROR"
               /\ UNCHANGED <<handler, refused>>
         /\ UNCHANGED <<config, cancelled, error, exception, timely, told>>
<1> DEFINE sent == [wire EXCEPT !.content = @ + n]
<1>1. /\ wire \in Wires /\ handler \in Handlers /\ sink \in Sinks
      /\ config \in Configs
  BY DEF TypeOK
<1>2. /\ stage = "performing" /\ wire.part = "body"
      /\ wire.content + n <= ContentBytes
      /\ handler.held = wire.content
  BY DEF Chunk, Awaiting, ContentInv
<1>3. /\ wire.content \in Nat /\ handler.held \in Nat /\ n \in Nat
      /\ ContentBytes \in Nat /\ MaximumBytes \in Nat
      /\ config.own_handler \in BOOLEAN
  BY <1>1, BoundsAssumption, ConfigsAssumption DEF Wires, Handlers, Config
<1>4. wire.content + n \in 0..ContentBytes /\ handler.held + n \in 0..ContentBytes
  BY <1>2, <1>3
<1>5. /\ sent \in Wires /\ sent.part = wire.part /\ sent.code = wire.code
      /\ sent.content = wire.content + n /\ sent.result = wire.result
  BY <1>1, <1>4 DEF Wires
<1>6. /\ wire' = sent \/ Stop(sent, "WRITE_ERROR")
      /\ \/ /\ sink.exception # 0 \/ cancelled
            /\ Stop(sent, "WRITE_ERROR")
            /\ UNCHANGED <<sink, handler, thrown, refused>>
         \/ /\ sink.exception = 0 /\ ~cancelled
            /\ \/ /\ config.own_handler \/ Fits(n)
                  /\ handler' = [handler EXCEPT !.held = @ + n]
                  /\ wire' = sent
                  /\ UNCHANGED <<stage, sink, thrown, refused>>
               \/ /\ config.own_handler \/ ~Fits(n)
                  /\ handler' = [handler EXCEPT !.exceeded = ~config.own_handler]
                  /\ sink' = [sink EXCEPT !.aborted = TRUE]
                  /\ refused' = TRUE
                  /\ Stop(sent, "WRITE_ERROR")
                  /\ UNCHANGED thrown
               \/ /\ Throws(sink)
                  /\ Stop(sent, "WRITE_ERROR")
                  /\ UNCHANGED <<handler, refused>>
      /\ UNCHANGED <<config, cancelled, error, exception, timely, told>>
  BY DEF Chunk, requestVars
<1> HIDE DEF sent
<1>7. Stop(sent, "WRITE_ERROR") =>
         /\ stage' = "closing" /\ wire' \in Wires
         /\ wire'.part = wire.part /\ wire'.code = wire.code
         /\ wire'.content = wire.content + n /\ wire'.result = "WRITE_ERROR"
  BY <1>5, StopFacts DEF CurlCodes
<1>8. /\ wire' \in Wires /\ wire'.part = "body" /\ wire'.code = wire.code
      /\ wire'.content = wire.content + n
  BY <1>2, <1>5, <1>6, <1>7
<1>9. /\ [handler EXCEPT !.held = @ + n] \in Handlers
      /\ [handler EXCEPT !.held = @ + n].held = handler.held + n
      /\ [handler EXCEPT !.held = @ + n].status = handler.status
      /\ [handler EXCEPT !.held = @ + n].exceeded = handler.exceeded
  BY <1>1, <1>4 DEF Handlers
<1>10. /\ [handler EXCEPT !.exceeded = ~config.own_handler] \in Handlers
       /\ [handler EXCEPT !.exceeded = ~config.own_handler].held = handler.held
       /\ [handler EXCEPT !.exceeded = ~config.own_handler].status = handler.status
       /\ [handler EXCEPT !.exceeded = ~config.own_handler].exceeded
             = ~config.own_handler
  BY <1>1, <1>3 DEF Handlers
<1>17. /\ [sink EXCEPT !.aborted = TRUE] \in Sinks
       /\ [sink EXCEPT !.aborted = TRUE].status = sink.status
       /\ [sink EXCEPT !.aborted = TRUE].reported = sink.reported
       /\ [sink EXCEPT !.aborted = TRUE].aborted = TRUE
       /\ [sink EXCEPT !.aborted = TRUE].exception = sink.exception
  BY <1>1 DEF Sinks
<1>11. Fits(n) <=> handler.held + n <= MaximumBytes
  BY DEF Fits
<1>12. ~Fits(n) => handler.held + n > MaximumBytes
  BY <1>3, <1>11
<1>13. CASE (sink.exception # 0 \/ cancelled) /\ Stop(sent, "WRITE_ERROR")
            /\ UNCHANGED <<sink, handler, thrown, refused>>
  BY <1>1, <1>2, <1>6, <1>7, <1>8, <1>13
<1>14. CASE /\ sink.exception = 0 /\ ~cancelled
            /\ config.own_handler \/ Fits(n)
            /\ handler' = [handler EXCEPT !.held = @ + n]
            /\ wire' = sent
            /\ UNCHANGED <<stage, sink, thrown, refused>>
  BY <1>2, <1>5, <1>6, <1>8, <1>9, <1>11, <1>14
<1>15. CASE /\ sink.exception = 0 /\ ~cancelled
            /\ config.own_handler \/ ~Fits(n)
            /\ handler' = [handler EXCEPT !.exceeded = ~config.own_handler]
            /\ sink' = [sink EXCEPT !.aborted = TRUE]
            /\ refused' = TRUE
            /\ Stop(sent, "WRITE_ERROR")
            /\ UNCHANGED thrown
  BY <1>2, <1>6, <1>7, <1>8, <1>10, <1>12, <1>15, <1>17
<1>16. CASE /\ sink.exception = 0 /\ ~cancelled
            /\ Throws(sink)
            /\ Stop(sent, "WRITE_ERROR")
            /\ UNCHANGED <<handler, refused>>
  BY <1>1, <1>2, <1>6, <1>7, <1>8, <1>16, SinkFacts
<1> QED
  BY <1>6, <1>13, <1>14, <1>15, <1>16

Decides == Informational \/ Redirect \/ HttpError \/ RangeIgnored
              \/ BodyBegins \/ BodyEnds \/ TransportFailure

LEMMA RedirectFacts ==
  ASSUME TypeOK, Redirect
  PROVE  /\ stage = "performing" /\ wire.part = "headers"
         /\ wire' \in Wires
         /\ wire'.code = wire.code /\ wire'.content = wire.content
         /\ \/ stage' = stage /\ wire'.result = wire.result /\ wire'.part = "status"
            \/ /\ stage' = "closing" /\ wire'.part = wire.part
               /\ wire'.result = "TOO_MANY_REDIRECTS"
<1> DEFINE w == wire
           w1 == [w EXCEPT !.part = "status"]
           w2 == [w1 EXCEPT !.hops = @ + 1]
<1>1. w \in Wires
  BY DEF TypeOK
<1>2. CASE wire.hops = MaximumHops
  <2>1. Stop(wire, "TOO_MANY_REDIRECTS")
    BY <1>2 DEF Redirect
  <2> QED
    BY <1>1, <2>1, StopFacts DEF Redirect, Awaiting, CurlCodes
<1>3. CASE wire.hops # MaximumHops
  <2> HIDE DEF w
  <2>1. w.hops \in 0..MaximumHops /\ w.hops # MaximumHops
    BY <1>1, <1>3 DEF Wires, w
  <2>2. w.hops + 1 \in 0..MaximumHops
    BY <2>1, BoundsAssumption
  <2>3. w1 \in Wires /\ w1.hops = w.hops
    BY <1>1 DEF Wires
  <2>4. w2 \in Wires
    <3> HIDE DEF w1
    <3> QED
      BY <2>2, <2>3 DEF Wires
  <2>5. /\ wire' = [w EXCEPT !.part = "status", !.hops = @ + 1]
        /\ stage' = stage /\ stage = "performing" /\ wire.part = "headers"
    BY <1>3 DEF Redirect, Awaiting, w
  <2>6. /\ wire'.part = "status" /\ wire'.code = w.code
        /\ wire'.content = w.content /\ wire'.result = w.result
    BY <1>1, <2>5 DEF Wires
  <2>7. wire' = w2
    BY <1>1, <2>5 DEF Wires
  <2> QED
    BY <2>4, <2>5, <2>6, <2>7 DEF w
<1> QED
  BY <1>2, <1>3

LEMMA DecidesFacts ==
  ASSUME TypeOK, Decides
  PROVE  /\ stage = "performing"
         /\ wire' \in Wires
         /\ wire'.code = wire.code /\ wire'.content = wire.content
         /\ \/ /\ stage' = stage /\ wire'.result = wire.result
               /\ wire.part = "headers" /\ wire'.part \in {"status", "body"}
            \/ /\ stage' = "closing" /\ wire'.part = wire.part
               /\ wire'.result \notin {"WRITE_ERROR", "ABORTED_BY_CALLBACK"}
         /\ UNCHANGED <<config, cancelled, error, exception, sink, handler,
                        thrown, refused, timely, told>>
<1>1. wire \in Wires
  BY DEF TypeOK
<1>2. UNCHANGED <<config, cancelled, error, exception, sink, handler,
                  thrown, refused, timely, told>>
  BY DEF Decides, Informational, Redirect, HttpError, RangeIgnored, BodyBegins,
     BodyEnds, TransportFailure, libcurlVars, requestVars, historyVars
<1>3. CASE Redirect
  BY <1>2, <1>3, RedirectFacts
<1>4. CASE Informational \/ BodyBegins
  <2>1. /\ stage = "performing" /\ wire.part = "headers" /\ stage' = stage
        /\ \/ wire' = [wire EXCEPT !.part = "status"]
           \/ wire' = [wire EXCEPT !.part = "body"]
    BY <1>4 DEF Informational, BodyBegins, Awaiting
  <2> QED
    BY <1>1, <1>2, <2>1 DEF Wires
<1>5. CASE HttpError \/ RangeIgnored \/ BodyEnds \/ TransportFailure
  <2>1. /\ stage = "performing"
        /\ \E e \in CurlCodes \ {"WRITE_ERROR", "ABORTED_BY_CALLBACK"} : Stop(wire, e)
    BY <1>5 DEF HttpError, RangeIgnored, BodyEnds, TransportFailure, Awaiting,
       CurlCodes, TransportErrors
  <2> QED
    BY <1>1, <1>2, <2>1, StopFacts
<1> QED
  BY <1>3, <1>4, <1>5 DEF Decides

(* HeaderLine, and a progress report, when they do anything.               *)
LEMMA RefusesFacts ==
  ASSUME TypeOK, HeaderLine \/ Progress
  PROVE  /\ stage = "performing" /\ stage' = "closing"
         /\ wire' \in Wires
         /\ wire'.part = wire.part /\ wire'.code = wire.code
         /\ wire'.content = wire.content
         /\ wire'.result \in {"WRITE_ERROR", "ABORTED_BY_CALLBACK"}
         /\ \/ cancelled /\ UNCHANGED <<sink, thrown>>
            \/ ~cancelled /\ Thrown(sink)
         /\ UNCHANGED <<config, cancelled, error, exception, handler, refused,
                        timely, told>>
<1>1. wire \in Wires
  BY DEF TypeOK
<1>2. /\ stage = "performing"
      /\ \E e \in {"WRITE_ERROR", "ABORTED_BY_CALLBACK"} : Stop(wire, e)
      /\ \/ cancelled /\ UNCHANGED <<sink, thrown>>
         \/ ~cancelled /\ Throws(sink)
      /\ UNCHANGED <<config, cancelled, error, exception, handler, refused,
                     timely, told>>
  BY DEF HeaderLine, Progress, Awaiting, requestVars
<1> QED
  BY <1>1, <1>2, StopFacts, SinkFacts DEF CurlCodes

LEMMA ClosingFacts ==
  ASSUME TypeOK, ClosingProgress
  PROVE  /\ stage = "closing" /\ stage' = "returned"
         /\ wire' \in Wires
         /\ wire'.part = wire.part /\ wire'.code = wire.code
         /\ wire'.content = wire.content
         /\ \/ UNCHANGED <<wire, sink, thrown>>
            \/ /\ wire'.result = IF wire.result = "OK" THEN "ABORTED_BY_CALLBACK"
                                 ELSE wire.result
               /\ \/ cancelled /\ UNCHANGED <<sink, thrown>>
                  \/ ~cancelled /\ Thrown(sink)
         /\ UNCHANGED <<config, cancelled, error, exception, handler, refused,
                        timely, told>>
<1>1. wire \in Wires
  BY DEF TypeOK
<1> DEFINE w == [wire EXCEPT !.result =
                    IF @ = "OK" THEN "ABORTED_BY_CALLBACK" ELSE @]
<1>2. /\ w \in Wires /\ w.part = wire.part /\ w.code = wire.code
      /\ w.content = wire.content
      /\ w.result = IF wire.result = "OK" THEN "ABORTED_BY_CALLBACK"
                    ELSE wire.result
  BY <1>1 DEF Wires, CurlCodes
<1>3. /\ stage = "closing" /\ stage' = "returned"
      /\ \/ UNCHANGED <<wire, sink, thrown>>
         \/ cancelled /\ wire' = w /\ UNCHANGED <<sink, thrown>>
         \/ ~cancelled /\ wire' = w /\ Throws(sink)
      /\ UNCHANGED <<config, cancelled, error, exception, handler, refused,
                     timely, told>>
  BY DEF ClosingProgress, requestVars
<1> HIDE DEF w
<1> QED
  BY <1>1, <1>2, <1>3, SinkFacts

LEMMA StartFacts ==
  ASSUME TypeOK, Start
  PROVE  /\ stage = "queued"
         /\ exception' = 0
         /\ sink' \in Sinks
         /\ sink'.status = 0 /\ sink'.reported = FALSE /\ sink'.aborted = FALSE
         /\ sink'.exception = 0
         /\ wire' \in Wires
         /\ wire'.code = wire.code /\ wire'.content = wire.content
         /\ wire'.result = wire.result
         /\ \/ cancelled /\ error' = "cancelled" /\ stage' = "finishing" /\ wire' = wire
            \/ /\ ~cancelled /\ error' = error /\ stage' = "performing"
               /\ wire'.part = "status"
         /\ UNCHANGED <<config, cancelled, handler, thrown, refused, timely, told>>
<1>1. wire \in Wires
  BY DEF TypeOK
<1>2. /\ [wire EXCEPT !.part = "status"] \in Wires
      /\ [wire EXCEPT !.part = "status"].part = "status"
      /\ [wire EXCEPT !.part = "status"].code = wire.code
      /\ [wire EXCEPT !.part = "status"].content = wire.content
      /\ [wire EXCEPT !.part = "status"].result = wire.result
  BY <1>1 DEF Wires
<1>3. NewSink \in Sinks
  BY DEF NewSink, Sinks, Throw
<1> QED
  BY <1>1, <1>2, <1>3 DEF Start, NewSink, historyVars

-----------------------------------------------------------------------------
(* The parts of the invariant.                                             *)

(* The steps in which a handler may throw, and how far they take the       *)
(* transfer.                                                               *)
Callback == \/ HeaderLine \/ Progress \/ ClosingProgress \/ Report
            \/ \E code \in Statuses : StatusLine(code)
            \/ \E n \in 1..ContentBytes : Chunk(n)

MayThrow ==
    \/ thrown' = thrown /\ sink'.exception = sink.exception
    \/ /\ thrown' = thrown + 1
       /\ sink'.exception = IF sink.exception = 0 THEN thrown + 1
                            ELSE sink.exception

LEMMA CallbackFacts ==
  ASSUME TypeOK, ContentInv, Callback
  PROVE  /\ MayThrow
         /\ \/ stage = "performing" /\ stage' = "performing" /\ thrown' = thrown
            \/ stage = "performing" /\ stage' = "closing"
            \/ stage = "closing" /\ stage' = "returned"
            \/ stage = "returned" /\ stage' = "deciding"
         /\ UNCHANGED <<config, cancelled, error, exception, timely, told>>
<1>1. ASSUME HeaderLine \/ Progress
      PROVE  /\ MayThrow
             /\ stage = "performing" /\ stage' = "closing"
             /\ UNCHANGED <<config, cancelled, error, exception, timely, told>>
  BY <1>1, RefusesFacts DEF Thrown, MayThrow
<1>2. ASSUME ClosingProgress
      PROVE  /\ MayThrow
             /\ stage = "closing" /\ stage' = "returned"
             /\ UNCHANGED <<config, cancelled, error, exception, timely, told>>
  BY <1>2, ClosingFacts DEF Thrown, MayThrow
<1>3. ASSUME NEW c \in Statuses \cup {0}, ReadOrThrown(c)
      PROVE  MayThrow
  BY <1>3, ReadFacts DEF ReadOrThrown, Thrown, MayThrow
<1>4. ASSUME Report
      PROVE  /\ MayThrow
             /\ stage = "returned" /\ stage' = "deciding"
             /\ UNCHANGED <<config, cancelled, error, exception, timely, told>>
  <2>1. MayThrow
    BY <1>3, <1>4, ReportFacts, CodeFacts DEF MayThrow
  <2> QED
    BY <1>4, <2>1, ReportFacts
<1>5. ASSUME NEW code \in Statuses, StatusLine(code)
      PROVE  /\ MayThrow
             /\ stage = "performing"
             /\ stage' = "closing" \/ (stage' = "performing" /\ thrown' = thrown)
             /\ UNCHANGED <<config, cancelled, error, exception, timely, told>>
  <2>1. MayThrow
    BY <1>3, <1>5, StatusLineFacts DEF MayThrow
  <2> QED
    BY <1>5, <2>1, StatusLineFacts
<1>6. ASSUME NEW n \in 1..ContentBytes, Chunk(n)
      PROVE  /\ MayThrow
             /\ stage = "performing"
             /\ stage' = "closing" \/ (stage' = "performing" /\ thrown' = thrown)
             /\ UNCHANGED <<config, cancelled, error, exception, timely, told>>
  BY <1>6, ChunkFacts DEF Thrown, MayThrow
<1> QED
  BY <1>1, <1>2, <1>4, <1>5, <1>6 DEF Callback

LEMMA ThrowStep ==
  ASSUME TypeOK, ContentInv, ThrowInv, [Next]_vars
  PROVE  ThrowInv'
<1>1. ASSUME Callback
      PROVE  ThrowInv'
  <2>1. thrown \in Nat
    BY DEF TypeOK, Throw
  <2>2. /\ stage \in {"performing", "closing", "returned"}
        /\ stage' \in {"performing", "closing", "returned", "deciding"}
        /\ exception' = 0
        /\ sink.exception = IF thrown = 0 THEN 0 ELSE 1
    BY <1>1, CallbackFacts DEF ThrowInv, Over, Performed
  <2>3. sink'.exception = IF thrown' = 0 THEN 0 ELSE 1
    BY <1>1, <2>1, <2>2, CallbackFacts DEF MayThrow
  <2>4. /\ stage' = "performing" => thrown' = 0
        /\ stage' = "closing" => thrown' <= 1
        /\ stage' = "returned" => thrown' <= 2
    BY <1>1, <2>1, CallbackFacts DEF MayThrow, ThrowInv
  <2> QED
    BY <2>2, <2>3, <2>4 DEF ThrowInv, Over, Performed
<1>2. ASSUME Submit
      PROVE  ThrowInv'
  BY <1>2 DEF Submit, ThrowInv, Over, Performed
<1>3. ASSUME Cancel
      PROVE  ThrowInv'
  BY <1>3 DEF Cancel, ThrowInv
<1>4. ASSUME Handle
      PROVE  ThrowInv'
  BY <1>4 DEF Handle, ThrowInv, Over, Performed
<1>5. ASSUME Abandon \/ Start
      PROVE  ThrowInv'
  BY <1>5 DEF Abandon, Start, NewSink, ThrowInv, Over, Performed, historyVars, TypeOK,
     Throw
<1>6. ASSUME Decides
      PROVE  ThrowInv'
  BY <1>6, DecidesFacts DEF ThrowInv, Over, Performed
<1>7. ASSUME Decide
      PROVE  ThrowInv'
  BY <1>7 DEF Decide, Decision, ThrowInv, Over, Performed, historyVars, TypeOK, Throw
<1>8. ASSUME Complete \/ Finish
      PROVE  ThrowInv'
  BY <1>8 DEF Complete, Finish, requestVars, historyVars, ThrowInv, Over, Performed,
     TypeOK, Throw
<1>9. CASE UNCHANGED vars
  BY <1>9 DEF vars, historyVars, ThrowInv, Over, Performed
<1> QED
  BY <1>1, <1>2, <1>3, <1>4, <1>5, <1>6, <1>7, <1>8, <1>9
  DEF Next, LibcurlNext, WorkerNext, Callback, Decides

LEMMA CancelStep ==
  ASSUME TypeOK, ContentInv, ThrowInv, CancelInv, [Next]_vars
  PROVE  CancelInv'
<1>1. ASSUME Callback
      PROVE  CancelInv'
  <2>1. /\ stage \in Undecided
        /\ stage' \in Undecided \ {"completing", "finishing", "finished"}
        /\ UNCHANGED <<cancelled, timely>>
    BY <1>1, CallbackFacts DEF Undecided
  <2> QED
    BY <2>1 DEF CancelInv, Undecided, Over
<1>2. ASSUME Submit
      PROVE  CancelInv'
  BY <1>2 DEF Submit, CancelInv, Undecided, Over
<1>3. ASSUME Cancel
      PROVE  CancelInv'
  BY <1>3 DEF Cancel, CancelInv, Undecided, Over
<1>4. ASSUME Handle
      PROVE  CancelInv'
  BY <1>4 DEF Handle, CancelInv, Undecided, Over
<1>5. ASSUME Abandon
      PROVE  CancelInv'
  BY <1>5 DEF Abandon, CancelInv, Undecided, historyVars
<1>6. ASSUME Start
      PROVE  CancelInv'
  BY <1>6, StartFacts DEF CancelInv, Undecided, Over
<1>7. ASSUME Decides
      PROVE  CancelInv'
  BY <1>7, DecidesFacts DEF CancelInv, Undecided, Over
<1>8. ASSUME Decide
      PROVE  CancelInv'
  <2>1. /\ stage = "deciding" /\ error' = Decision /\ exception' = sink.exception
        /\ stage' = IF Decision = "none" THEN "completing" ELSE "finishing"
        /\ timely' = timely
    BY <1>8 DEF Decide, historyVars
  <2>2. timely <=> cancelled
    BY <2>1 DEF CancelInv, Undecided, Over
  <2>3. timely => sink.exception # 0 \/ Decision = "cancelled"
    BY <2>2 DEF Decision
  <2>4. timely => Decision # "none"
    BY <2>2 DEF Decision
  <2> QED
    BY <2>1, <2>3, <2>4 DEF CancelInv, Undecided, Over
<1>9. ASSUME Complete \/ Finish
      PROVE  CancelInv'
  BY <1>9 DEF Complete, Finish, requestVars, historyVars, CancelInv, Undecided, Over
<1>10. CASE UNCHANGED vars
  BY <1>10 DEF vars, historyVars, CancelInv, Undecided, Over
<1> QED
  BY <1>1, <1>2, <1>3, <1>4, <1>5, <1>6, <1>7, <1>8, <1>9, <1>10
  DEF Next, LibcurlNext, WorkerNext, Callback, Decides

LEMMA AbortFacts ==
  ASSUME TypeOK, ContentInv, ThrowInv, Callback
  PROVE  /\ \/ /\ sink'.aborted = sink.aborted
               /\ UNCHANGED <<thrown, refused>>
            \/ /\ sink'.aborted = TRUE
               /\ thrown' = thrown + 1 /\ refused' = refused
            \/ /\ sink'.aborted = TRUE
               /\ thrown' = thrown /\ refused' = TRUE
         /\ wire'.result \in {"WRITE_ERROR", "ABORTED_BY_CALLBACK"} =>
               wire.result = wire'.result \/ cancelled \/ sink'.aborted = TRUE
         /\ stage' = "performing" =>
               sink'.aborted = sink.aborted /\ refused' = refused
<1>1. ASSUME HeaderLine \/ Progress
      PROVE  /\ stage' = "closing"
             /\ \/ cancelled /\ UNCHANGED <<sink, thrown>>
                \/ sink'.aborted = TRUE /\ thrown' = thrown + 1
             /\ refused' = refused
  BY <1>1, RefusesFacts DEF Thrown
<1>2. ASSUME ClosingProgress
      PROVE  /\ stage' = "returned"
             /\ \/ UNCHANGED <<sink, thrown>> /\ wire' = wire
                \/ cancelled /\ UNCHANGED <<sink, thrown>>
                \/ sink'.aborted = TRUE /\ thrown' = thrown + 1
             /\ refused' = refused
  BY <1>2, ClosingFacts DEF Thrown
<1>3. ASSUME NEW c \in Statuses \cup {0}, ReadOrThrown(c)
      PROVE  \/ sink'.aborted = sink.aborted /\ thrown' = thrown
             \/ sink'.aborted = TRUE /\ thrown' = thrown + 1 /\ thrown' # thrown
  BY <1>3, ReadFacts DEF ReadOrThrown, Thrown
<1>4. ASSUME Report
      PROVE  /\ stage' = "deciding" /\ wire' = wire
             /\ \/ sink'.aborted = sink.aborted /\ thrown' = thrown
                \/ sink'.aborted = TRUE /\ thrown' = thrown + 1
             /\ refused' = refused
  BY <1>3, <1>4, ReportFacts, CodeFacts
<1>5. ASSUME NEW code \in Statuses, StatusLine(code)
      PROVE  /\ refused' = refused
             /\ \/ stage' = "closing" /\ cancelled /\ UNCHANGED <<sink, thrown>>
                \/ /\ sink'.aborted = sink.aborted /\ thrown' = thrown
                   /\ wire'.result = wire.result
                \/ /\ stage' = "closing"
                   /\ sink'.aborted = TRUE /\ thrown' = thrown + 1
  <2>1. \/ cancelled /\ stage' = "closing" /\ UNCHANGED <<sink, thrown>>
        \/ /\ ReadOrThrown(code)
           /\ \/ wire'.result = wire.result /\ thrown' = thrown
              \/ stage' = "closing" /\ thrown' # thrown
    BY <1>5, StatusLineFacts
  <2>2. refused' = refused
    BY <1>5, StatusLineFacts
  <2> QED
    BY <1>3, <2>1, <2>2
<1>6. ASSUME NEW n \in 1..ContentBytes, Chunk(n)
      PROVE  \/ stage' = "closing" /\ cancelled /\ UNCHANGED <<sink, thrown, refused>>
             \/ wire'.result = wire.result /\ UNCHANGED <<stage, sink, thrown, refused>>
             \/ /\ stage' = "closing" /\ sink'.aborted = TRUE
                /\ thrown' = thrown /\ refused' = TRUE
             \/ /\ stage' = "closing" /\ sink'.aborted = TRUE
                /\ thrown' = thrown + 1 /\ refused' = refused
  <2>1. sink.exception = 0
    BY <1>6, ChunkFacts DEF ThrowInv
  <2> QED
    BY <1>6, <2>1, ChunkFacts DEF Thrown
<1> QED
  BY <1>1, <1>2, <1>4, <1>5, <1>6 DEF Callback

LEMMA ExceededFacts ==
  ASSUME TypeOK, ContentInv, ThrowInv, RefusalInv, Callback
  PROVE  /\ handler'.exceeded =>
               /\ refused' /\ wire'.content > MaximumBytes
               /\ ~config'.own_handler
         /\ refused' /\ ~config'.own_handler => handler'.exceeded
<1>1. ASSUME handler'.exceeded = handler.exceeded, refused' = refused,
             config' = config, wire'.content = wire.content \/ ~handler.exceeded
      PROVE  /\ handler'.exceeded =>
                   /\ refused' /\ wire'.content > MaximumBytes
                   /\ ~config'.own_handler
             /\ refused' /\ ~config'.own_handler => handler'.exceeded
  BY <1>1 DEF RefusalInv
<1>2. ASSUME HeaderLine \/ Progress
      PROVE  /\ handler'.exceeded = handler.exceeded /\ refused' = refused
             /\ config' = config /\ wire'.content = wire.content
  BY <1>2, RefusesFacts
<1>3. ASSUME ClosingProgress
      PROVE  /\ handler'.exceeded = handler.exceeded /\ refused' = refused
             /\ config' = config /\ wire'.content = wire.content
  BY <1>3, ClosingFacts
<1>4. ASSUME Report
      PROVE  /\ handler'.exceeded = handler.exceeded /\ refused' = refused
             /\ config' = config /\ wire'.content = wire.content
  BY <1>4, ReportFacts DEF ReadOrThrown
<1>5. ASSUME NEW code \in Statuses, StatusLine(code)
      PROVE  /\ handler'.exceeded = handler.exceeded /\ refused' = refused
             /\ config' = config /\ ~handler.exceeded
  <2>1. stage = "performing" /\ refused' = refused /\ config' = config
    BY <1>5, StatusLineFacts
  <2>2. handler'.exceeded = handler.exceeded
    BY <1>5, StatusLineFacts DEF ReadOrThrown
  <2> QED
    BY <2>1, <2>2 DEF RefusalInv
<1>6. ASSUME NEW n \in 1..ContentBytes, Chunk(n)
      PROVE  /\ handler'.exceeded =>
                   /\ refused' /\ wire'.content > MaximumBytes
                   /\ ~config'.own_handler
             /\ refused' /\ ~config'.own_handler => handler'.exceeded
  <2>1. stage = "performing" /\ config' = config
    BY <1>6, ChunkFacts
  <2>2. ~refused /\ ~handler.exceeded
    BY <2>1 DEF RefusalInv
  <2>3. \/ handler'.exceeded = handler.exceeded /\ refused' = refused
        \/ /\ handler'.exceeded = ~config.own_handler /\ refused' = TRUE
           /\ config.own_handler \/ wire'.content > MaximumBytes
    <3>1. /\ handler.held = wire.content /\ wire'.content = wire.content + n
      BY <1>6, ChunkFacts
    <3> QED
      BY <1>6, <3>1, ChunkFacts
  <2>4. CASE handler'.exceeded = handler.exceeded /\ refused' = refused
    BY <2>2, <2>4
  <2>5. CASE /\ handler'.exceeded = ~config.own_handler /\ refused' = TRUE
             /\ config.own_handler \/ wire'.content > MaximumBytes
    BY <2>1, <2>5
  <2> QED
    BY <2>3, <2>4, <2>5
<1> QED
  BY <1>1, <1>2, <1>3, <1>4, <1>5, <1>6 DEF Callback

LEMMA DecisionFacts ==
  ASSUME TypeOK, ThrowInv, CancelInv, RefusalInv, Decide
  PROVE  /\ stage = "deciding"
         /\ \/ /\ thrown > 0 /\ sink.exception = 1
               /\ stage' = "finishing" /\ error' = "handler_threw"
            \/ /\ thrown = 0 /\ sink.exception = 0 /\ timely
               /\ stage' = "finishing" /\ error' = "cancelled"
            \/ /\ thrown = 0 /\ sink.exception = 0 /\ ~timely /\ refused
               /\ stage' = "finishing" /\ error' = "aborted_by_handler"
            \/ /\ thrown = 0 /\ sink.exception = 0 /\ ~timely /\ ~refused
               /\ stage' = "finishing"
               /\ error' \notin {"none", "aborted_by_handler", "cancelled",
                                 "handler_threw"}
            \/ /\ thrown = 0 /\ sink.exception = 0 /\ ~timely /\ ~refused
               /\ stage' = "completing" /\ error' = "none"
               /\ wire.result = "OK"
               /\ config.resume => sink.status = 206
         /\ error' \in Errors
         /\ exception' = sink.exception
         /\ UNCHANGED <<config, cancelled, sink, handler, wire, thrown, refused,
                        timely, told>>
<1>1. /\ stage = "deciding" /\ error' = Decision /\ exception' = sink.exception
      /\ stage' = IF Decision = "none" THEN "completing" ELSE "finishing"
      /\ UNCHANGED <<config, cancelled, sink, handler, wire, thrown, refused,
                     timely, told>>
  BY DEF Decide, historyVars
<1>2. /\ thrown \in Nat /\ (timely <=> cancelled)
      /\ sink.exception = IF thrown = 0 THEN 0 ELSE 1
      /\ sink.aborted <=> refused \/ thrown > 0
      /\ wire.result \in {"WRITE_ERROR", "ABORTED_BY_CALLBACK"} =>
            cancelled \/ sink.aborted
  BY <1>1 DEF TypeOK, Throw, CancelInv, Undecided, ThrowInv, RefusalInv, Over,
     Performed
<1>3. wire.result \in CurlCodes
  BY DEF TypeOK, Wires
<1>4. /\ ErrorOf["OK"] = "none"
      /\ \A c \in CurlCodes \ {"OK"} : ErrorOf[c] # "none"
      /\ \A c \in CurlCodes : ErrorOf[c] \notin {"cancelled", "handler_threw"}
      /\ \A c \in CurlCodes : /\ ErrorOf[c] \in Errors
                              /\ ErrorOf[c] = "aborted_by_handler" =>
                                    c \in {"WRITE_ERROR", "ABORTED_BY_CALLBACK"}
  BY DEF ErrorOf, CurlCodes, TransportErrors, Errors
<1>5. CASE thrown > 0
  BY <1>1, <1>2, <1>5 DEF Decision, Errors
<1>6. CASE thrown = 0 /\ cancelled
  BY <1>1, <1>2, <1>6 DEF Decision, Errors
<1>7. CASE thrown = 0 /\ ~cancelled
  <2>1. Decision = TransferError /\ sink.exception = 0
    BY <1>2, <1>7 DEF Decision
  <2>2. CASE refused
    <3>1. Decision = "aborted_by_handler"
      BY <1>2, <2>1, <2>2 DEF TransferError
    <3> QED
      BY <1>1, <1>2, <1>7, <2>1, <2>2, <3>1 DEF Errors
  <2>3. CASE ~refused
    <3>1. ~sink.aborted /\ wire.result \notin {"WRITE_ERROR", "ABORTED_BY_CALLBACK"}
      BY <1>2, <1>7, <2>3
    <3>2. /\ ErrorOf[wire.result] # "aborted_by_handler"
          /\ ErrorOf[wire.result] \notin {"cancelled", "handler_threw"}
          /\ ErrorOf[wire.result] \in Errors
          /\ ErrorOf[wire.result] = "none" => wire.result = "OK"
      BY <1>3, <1>4, <3>1
    <3>3. Decision = IF /\ ErrorOf[wire.result] = "none"
                        /\ config.resume /\ sink.status # 206
                     THEN "range_not_satisfied" ELSE ErrorOf[wire.result]
      BY <2>1, <3>1 DEF TransferError
    <3> QED
      BY <1>1, <1>2, <1>7, <2>1, <2>3, <3>2, <3>3 DEF Errors
  <2> QED
    BY <2>2, <2>3
<1> QED
  BY <1>2, <1>5, <1>6, <1>7

LEMMA RefusalStep ==
  ASSUME TypeOK, ContentInv, ThrowInv, CancelInv, RefusalInv, SuccessInv,
         [Next]_vars
  PROVE  RefusalInv'
<1>0. thrown \in Nat
  BY DEF TypeOK, Throw
<1>1. ASSUME Callback
      PROVE  RefusalInv'
  <2>1. /\ stage \in {"performing", "closing", "returned"}
        /\ stage' \in {"performing"} \cup Performed
        /\ stage' = "performing" => stage = "performing"
        /\ cancelled' = cancelled
    BY <1>1, CallbackFacts DEF Performed
  <2>2. sink.aborted <=> refused \/ thrown > 0
    <3>1. CASE stage = "performing"
      <4>1. ~sink.aborted /\ ~refused /\ thrown = 0
        BY <3>1 DEF RefusalInv, ThrowInv
      <4> QED
        BY <4>1
    <3>2. CASE stage \in Performed
      BY <3>2 DEF RefusalInv
    <3> QED
      BY <2>1, <3>1, <3>2 DEF Performed
  <2>3. sink'.aborted <=> refused' \/ thrown' > 0
    <3>1. CASE sink'.aborted = sink.aborted /\ UNCHANGED <<thrown, refused>>
      BY <2>2, <3>1
    <3>2. CASE sink'.aborted = TRUE /\ (thrown' = thrown + 1 \/ refused' = TRUE)
      <4>1. thrown' = thrown + 1 => thrown' > 0
        BY <1>0
      <4> QED
        BY <3>2, <4>1
    <3> QED
      BY <1>1, <3>1, <3>2, AbortFacts
  <2>4. wire'.result \in {"WRITE_ERROR", "ABORTED_BY_CALLBACK"} =>
           cancelled \/ sink'.aborted
    <3>1. stage = "performing" => wire.result = "OK"
      BY DEF ContentInv
    <3>2. wire.result \in {"WRITE_ERROR", "ABORTED_BY_CALLBACK"} =>
             cancelled \/ sink.aborted
      BY <2>1, <3>1 DEF RefusalInv, Over, Performed
    <3>3. sink.aborted => sink'.aborted
      BY <1>1, AbortFacts
    <3> QED
      BY <1>1, <3>2, <3>3, AbortFacts
  <2>5. stage' = "performing" => ~refused' /\ ~sink'.aborted
    BY <1>1, <2>1, AbortFacts DEF RefusalInv
  <2> QED
    BY <1>1, <2>1, <2>3, <2>4, <2>5, ExceededFacts DEF RefusalInv, Over, Performed
<1>2. ASSUME Submit
      PROVE  RefusalInv'
  BY <1>2 DEF Submit, MainOnSubmit, NewHandler, RefusalInv, Over, Performed
<1>3. ASSUME Cancel
      PROVE  RefusalInv'
  BY <1>3 DEF Cancel, RefusalInv, Over, Performed
<1>4. ASSUME Handle
      PROVE  RefusalInv'
  BY <1>4 DEF Handle, RefusalInv, Over, Performed
<1>5. ASSUME Abandon
      PROVE  RefusalInv'
  BY <1>5 DEF Abandon, RefusalInv, Over, Performed, historyVars
<1>6. ASSUME Start
      PROVE  RefusalInv'
  <2>1. /\ stage = "queued" /\ stage' \in {"performing", "finishing"}
        /\ sink'.aborted = FALSE /\ wire'.content = wire.content
        /\ stage' = "finishing" => error' = "cancelled"
        /\ UNCHANGED <<config, handler, refused>>
    BY <1>6, StartFacts
  <2>2. ~refused
    BY <2>1 DEF RefusalInv
  <2> QED
    BY <2>1, <2>2 DEF RefusalInv, Over, Performed
<1>7. ASSUME Decides
      PROVE  RefusalInv'
  <2>1. /\ stage = "performing" /\ stage' \in {"performing", "closing"}
        /\ wire'.content = wire.content
        /\ stage' = "closing" =>
              wire'.result \notin {"WRITE_ERROR", "ABORTED_BY_CALLBACK"}
        /\ UNCHANGED <<config, cancelled, error, sink, handler, thrown,
                       refused, timely>>
    BY <1>7, DecidesFacts
  <2>2. thrown = 0 /\ ~sink.aborted /\ ~refused
    BY <2>1 DEF ThrowInv, RefusalInv
  <2> QED
    BY <2>1, <2>2 DEF RefusalInv, Over, Performed
<1>8. ASSUME Decide
      PROVE  RefusalInv'
  <2>1. /\ stage = "deciding" /\ stage' \in {"completing", "finishing"}
        /\ stage' = "completing" => ~refused
        /\ error' = "aborted_by_handler" => refused
        /\ refused /\ ~timely /\ thrown = 0 =>
              stage' = "finishing" /\ error' = "aborted_by_handler"
        /\ UNCHANGED <<config, handler, wire, refused, timely, thrown>>
    BY <1>0, <1>8, DecisionFacts
  <2> QED
    BY <2>1 DEF RefusalInv, Over, Performed
<1>9. ASSUME Complete
      PROVE  RefusalInv'
  <2>1. /\ stage = "completing" /\ stage' = "finishing"
        /\ error' = error \/ error' = "handler_threw"
        /\ UNCHANGED <<config, handler, wire, refused, timely>>
    BY <1>9 DEF Complete
  <2>2. ~refused
    BY <2>1 DEF RefusalInv
  <2>3. error' # "aborted_by_handler"
    BY <2>1 DEF SuccessInv, Over
  <2> QED
    BY <2>1, <2>2, <2>3 DEF RefusalInv, Over, Performed
<1>10. ASSUME Finish
      PROVE  RefusalInv'
  BY <1>10 DEF Finish, requestVars, historyVars, RefusalInv, Over, Performed
<1>11. CASE UNCHANGED vars
  BY <1>11 DEF vars, historyVars, RefusalInv, Over, Performed
<1> QED
  BY <1>1, <1>2, <1>3, <1>4, <1>5, <1>6, <1>7, <1>8, <1>9, <1>10, <1>11
  DEF Next, LibcurlNext, WorkerNext, Callback, Decides

LEMMA ContentStep ==
  ASSUME TypeOK, ContentInv, [Next]_vars
  PROVE  ContentInv'
<1>1. ASSUME Submit
      PROVE  ContentInv'
  BY <1>1, BoundsAssumption DEF Submit, MainOnSubmit, NewHandler, NoWire,
     requestVars, historyVars, TypeOK, ContentInv, Performed, Wires, Handlers
<1>2. ASSUME Cancel
      PROVE  ContentInv'
  BY <1>2 DEF Cancel, requestVars, historyVars, TypeOK, ContentInv, Performed, Wires,
     Handlers
<1>3. ASSUME Handle
      PROVE  ContentInv'
  BY <1>3 DEF Handle, requestVars, historyVars, TypeOK, ContentInv, Performed, Wires,
     Handlers
<1>4. ASSUME Abandon
      PROVE  ContentInv'
  BY <1>4 DEF Abandon, requestVars, historyVars, TypeOK, ContentInv, Performed, Wires,
     Handlers
<1>5. ASSUME Start
      PROVE  ContentInv'
  BY <1>5, StartFacts DEF ContentInv, Performed
<1>6. ASSUME HeaderLine \/ Progress
      PROVE  ContentInv'
  BY <1>6, RefusesFacts DEF Thrown, TypeOK, ContentInv, Performed, Wires, Handlers
<1>7. ASSUME NEW code \in Statuses, StatusLine(code)
      PROVE  ContentInv'
  BY <1>7, StatusLineFacts, ReadFacts DEF ReadOrThrown, Thrown, TypeOK,
     ContentInv, Performed, Wires, Handlers
<1>8. ASSUME NEW n \in 1..ContentBytes, Chunk(n)
      PROVE  ContentInv'
  <2>1. handler \in Handlers /\ ContentBytes \in Nat /\ MaximumBytes \in Nat
    BY BoundsAssumption DEF TypeOK
  <2>2. handler.held \in Nat /\ n \in Nat
    BY <2>1 DEF Handlers
  <2> DEFINE h == handler.held
             g == handler'.held
             c == wire.content
  <2>3. /\ stage = "performing" /\ wire'.part = "body" /\ h = c
        /\ wire'.content = c + n
        /\ \/ g = h /\ stage' = "closing" /\ wire'.result # "OK"
           \/ /\ g = h + n /\ stage' \in {"performing", "closing"}
              /\ stage' = "performing" => wire'.result = wire.result
              /\ config.own_handler \/ h + n <= MaximumBytes
        /\ config' = config
    BY <1>8, ChunkFacts
  <2>4. wire.result = "OK" /\ (~config.own_handler => h <= MaximumBytes)
    BY <2>3 DEF ContentInv, Performed
  <2> HIDE DEF h, g, c
  <2>5. /\ g <= c + n
        /\ g = c + n \/ (stage' = "closing" /\ wire'.result # "OK")
        /\ ~config.own_handler => g <= MaximumBytes
    BY <2>1, <2>2, <2>3, <2>4 DEF h
  <2> QED
    BY <2>3, <2>4, <2>5 DEF ContentInv, Performed, g, c
<1>9. ASSUME Decides
      PROVE  ContentInv'
  BY <1>9, DecidesFacts DEF TypeOK, ContentInv, Performed, Wires, Handlers
<1>10. ASSUME ClosingProgress
      PROVE  ContentInv'
  BY <1>10, ClosingFacts DEF Thrown, TypeOK, ContentInv, Performed, Wires, Handlers
<1>11. ASSUME Report
      PROVE  ContentInv'
  BY <1>11, ReportFacts, ReadFacts, CodeFacts DEF ReadOrThrown, Thrown,
     TypeOK, ContentInv, Performed, Wires, Handlers
<1>12. ASSUME Decide
      PROVE  ContentInv'
  BY <1>12 DEF Decide, Decision, requestVars, historyVars, TypeOK,
     ContentInv, Performed, Wires, Handlers
<1>13. ASSUME Complete \/ Finish
      PROVE  ContentInv'
  BY <1>13 DEF Complete, Finish, requestVars, historyVars, TypeOK, ContentInv,
     Performed, Wires,
     Handlers
<1>14. CASE UNCHANGED vars
  BY <1>14 DEF vars, historyVars, TypeOK, ContentInv, Performed, Wires, Handlers
<1> QED
  BY <1>1, <1>2, <1>3, <1>4, <1>5, <1>6, <1>7, <1>8, <1>9, <1>10, <1>11,
     <1>12, <1>13, <1>14 DEF Next, LibcurlNext, WorkerNext, Decides

LEMMA StatusStep ==
  ASSUME TypeOK, StatusInv, CancelInv, ContentInv, [Next]_vars
  PROVE  StatusInv'
<1>1. ASSUME Submit
      PROVE  StatusInv'
  BY <1>1 DEF Submit, MainOnSubmit, NewHandler, NoWire, requestVars,
     historyVars, TypeOK, StatusInv, CancelInv, Undecided, Over, Performed
<1>2. ASSUME Cancel
      PROVE  StatusInv'
  BY <1>2 DEF Cancel, requestVars, historyVars, TypeOK, StatusInv, CancelInv,
     Undecided, Over, Performed
<1>3. ASSUME Handle
      PROVE  StatusInv'
  BY <1>3 DEF Handle, requestVars, historyVars, TypeOK, StatusInv, CancelInv,
     Undecided, Over, Performed
<1>4. ASSUME Abandon
      PROVE  StatusInv'
  BY <1>4 DEF Abandon, requestVars, historyVars, TypeOK, StatusInv,
     CancelInv, Undecided, Over, Performed
<1>5. ASSUME Start
      PROVE  StatusInv'
  BY <1>5, StartFacts DEF TypeOK, StatusInv, CancelInv, Undecided, Over, Performed
<1>6. ASSUME HeaderLine \/ Progress
      PROVE  StatusInv'
  BY <1>6, RefusesFacts DEF Thrown, TypeOK, StatusInv, CancelInv, Undecided,
     Over, Performed
<1>7. ASSUME NEW code \in Statuses, StatusLine(code)
      PROVE  StatusInv'
  <2>1. code # 0
    BY StatusesAssumption
  <2>2. ReadOrThrown(code) =>
           /\ sink'.status = code /\ sink'.reported = TRUE
           /\ handler'.status = code
    BY DEF ReadOrThrown
  <2> QED
    BY <1>7, <2>1, <2>2, StatusLineFacts DEF StatusInv, CancelInv, Undecided,
       Over, Performed
<1>8. ASSUME NEW n \in 1..ContentBytes, Chunk(n)
      PROVE  StatusInv'
  BY <1>8, ChunkFacts DEF Thrown, TypeOK, StatusInv, CancelInv, Undecided,
     Over, Performed
<1>9. ASSUME Decides
      PROVE  StatusInv'
  BY <1>9, DecidesFacts DEF TypeOK, StatusInv, CancelInv, Undecided, Over, Performed
<1>10. ASSUME ClosingProgress
      PROVE  StatusInv'
  BY <1>10, ClosingFacts DEF Thrown, TypeOK, StatusInv, CancelInv, Undecided,
     Over, Performed
<1>11. ASSUME Report
      PROVE  StatusInv'
  <2>1. ReadOrThrown(wire.code) =>
           /\ sink'.status = wire.code /\ sink'.reported = TRUE
           /\ handler'.status = wire.code
    BY DEF ReadOrThrown
  <2> QED
    BY <1>11, <2>1, ReportFacts DEF StatusInv, CancelInv, Undecided, Over, Performed
<1>12. ASSUME Decide
      PROVE  StatusInv'
  BY <1>12 DEF Decide, Decision, requestVars, historyVars, TypeOK, StatusInv,
     CancelInv, Undecided, Over, Performed
<1>13. ASSUME Complete \/ Finish
      PROVE  StatusInv'
  BY <1>13 DEF Complete, Finish, requestVars, historyVars, TypeOK, StatusInv,
     CancelInv, Undecided, Over, Performed
<1>14. CASE UNCHANGED vars
  BY <1>14 DEF vars, historyVars, TypeOK, StatusInv, CancelInv, Undecided,
     Over, Performed
<1> QED
  BY <1>1, <1>2, <1>3, <1>4, <1>5, <1>6, <1>7, <1>8, <1>9, <1>10, <1>11,
     <1>12, <1>13, <1>14 DEF Next, LibcurlNext, WorkerNext, Decides

LEMMA SuccessStep ==
  ASSUME TypeOK, ContentInv, ThrowInv, CancelInv, StatusInv, RefusalInv,
         SuccessInv, [Next]_vars
  PROVE  SuccessInv'
<1>1. ASSUME Callback
      PROVE  SuccessInv'
  <2>1. stage' \notin {"completing", "finishing", "finished"}
    BY <1>1, CallbackFacts
  <2> QED
    BY <2>1 DEF SuccessInv, Over
<1>2. ASSUME Submit
      PROVE  SuccessInv'
  BY <1>2 DEF Submit, SuccessInv, Over
<1>3. ASSUME Cancel
      PROVE  SuccessInv'
  BY <1>3 DEF Cancel, SuccessInv, Undecided, Over
<1>4. ASSUME Handle
      PROVE  SuccessInv'
  BY <1>4 DEF Handle, SuccessInv, Over
<1>5. ASSUME Abandon
      PROVE  SuccessInv'
  BY <1>5 DEF Abandon, SuccessInv, Over
<1>6. ASSUME Start
      PROVE  SuccessInv'
  BY <1>6, StartFacts DEF SuccessInv, Over
<1>7. ASSUME Decides
      PROVE  SuccessInv'
  BY <1>7, DecidesFacts DEF SuccessInv, Over
<1>8. ASSUME Decide
      PROVE  SuccessInv'
  <2>1. /\ \/ stage' = "finishing" /\ error' # "none"
           \/ /\ stage' = "completing" /\ error' = "none"
              /\ wire.result = "OK" /\ ~timely
              /\ config.resume => sink.status = 206
        /\ stage = "deciding"
        /\ UNCHANGED <<config, wire, timely>>
    BY <1>8, DecisionFacts
  <2>2. ~timely => sink.status = wire.code
    BY <2>1 DEF StatusInv, CancelInv, Undecided, Over, Performed
  <2> QED
    BY <2>1, <2>2 DEF SuccessInv, Over
<1>9. ASSUME Complete \/ Finish
      PROVE  SuccessInv'
  BY <1>9 DEF Complete, Finish, requestVars, historyVars, SuccessInv, Over
<1>10. CASE UNCHANGED vars
  BY <1>10 DEF vars, historyVars, SuccessInv, Over
<1> QED
  BY <1>1, <1>2, <1>3, <1>4, <1>5, <1>6, <1>7, <1>8, <1>9, <1>10
  DEF Next, LibcurlNext, WorkerNext, Callback, Decides

-----------------------------------------------------------------------------
(* Types, and what main tells.                                             *)

LEMMA CallbackTypes ==
  ASSUME TypeOK, ContentInv, ThrowInv, Callback
  PROVE  /\ sink' \in Sinks /\ handler' \in Handlers /\ wire' \in Wires
         /\ thrown' \in Throw /\ refused' \in BOOLEAN
<1>1. /\ sink \in Sinks /\ handler \in Handlers /\ wire \in Wires
      /\ thrown \in Throw /\ refused \in BOOLEAN
  BY DEF TypeOK
<1>2. /\ stage \in {"performing", "closing", "returned"}
      /\ thrown' = thrown \/ thrown' = thrown + 1
  BY CallbackFacts DEF MayThrow
<1>3. thrown + 1 \in Throw
  BY <1>1, <1>2 DEF ThrowInv, Throw
<1>4. thrown' \in Throw
  BY <1>1, <1>2, <1>3
<1>5. ASSUME NEW s, Thrown(s)
      PROVE  sink' \in Sinks
  BY <1>3, <1>5 DEF Thrown
<1>6. CASE HeaderLine \/ Progress
  BY <1>1, <1>4, <1>5, <1>6, RefusesFacts
<1>7. CASE ClosingProgress
  BY <1>1, <1>4, <1>5, <1>7, ClosingFacts
<1>8. ASSUME NEW c \in Statuses \cup {0}, ReadOrThrown(c)
      PROVE  sink' \in Sinks /\ handler' \in Handlers
  BY <1>5, <1>8 DEF ReadOrThrown
<1>9. CASE Report
  BY <1>1, <1>4, <1>8, <1>9, ReportFacts, CodeFacts
<1>10. ASSUME NEW code \in Statuses, StatusLine(code)
       PROVE  sink' \in Sinks /\ handler' \in Handlers /\ wire' \in Wires
              /\ refused' \in BOOLEAN
  <2>1. \/ UNCHANGED <<sink, handler>>
        \/ ReadOrThrown(code)
    BY <1>10, StatusLineFacts
  <2>2. wire' \in Wires /\ refused' = refused
    BY <1>10, StatusLineFacts
  <2> QED
    BY <1>1, <1>8, <2>1, <2>2
<1>11. ASSUME NEW n \in 1..ContentBytes, Chunk(n)
       PROVE  sink' \in Sinks /\ handler' \in Handlers /\ wire' \in Wires
              /\ refused' \in BOOLEAN
  <2>1. \/ sink' = sink
        \/ sink' \in Sinks
        \/ Thrown(sink)
    BY <1>11, ChunkFacts
  <2>2. wire' \in Wires /\ handler' \in Handlers
    BY <1>11, ChunkFacts
  <2>3. refused' = refused \/ refused' = TRUE
    BY <1>11, ChunkFacts
  <2> QED
    BY <1>1, <1>5, <2>1, <2>2, <2>3
<1> QED
  BY <1>4, <1>6, <1>7, <1>9, <1>10, <1>11 DEF Callback

AnswerOf(h, e, x) ==
    LET sort == IF x # 0 THEN "rethrown"
                ELSE IF e = "none" THEN "success" ELSE "failure"
    IN [handler |-> sort,
        error |-> IF sort = "failure" /\ h.exceeded
                  THEN "response_too_large" ELSE e,
        status |-> h.status, held |-> h.held, exception |-> x]

LEMMA AnswerOfFacts ==
  ASSUME NEW h \in Handlers, NEW e \in Errors, NEW x \in Throw
  PROVE  /\ AnswerOf(h, e, x) \in Answers
         /\ AnswerOf(h, e, x).handler =
               IF x # 0 THEN "rethrown"
               ELSE IF e = "none" THEN "success" ELSE "failure"
         /\ AnswerOf(h, e, x).error =
               IF AnswerOf(h, e, x).handler = "failure" /\ h.exceeded
               THEN "response_too_large" ELSE e
         /\ AnswerOf(h, e, x).status = h.status
         /\ AnswerOf(h, e, x).held = h.held
         /\ AnswerOf(h, e, x).exception = x
<1> DEFINE sort == IF x # 0 THEN "rethrown"
                   ELSE IF e = "none" THEN "success" ELSE "failure"
           why == IF sort = "failure" /\ h.exceeded
                  THEN "response_too_large" ELSE e
<1>1. h.status \in Statuses \cup {0} /\ h.held \in 0..ContentBytes
  BY DEF Handlers
<1>2. /\ AnswerOf(h, e, x) = [handler |-> sort, error |-> why, status |-> h.status,
                              held |-> h.held, exception |-> x]
      /\ sort \in {"success", "failure", "rethrown"}
      /\ why \in Errors \cup {"response_too_large"}
  BY <1>1 DEF AnswerOf
<1>3. /\ AnswerOf(h, e, x).handler = sort /\ AnswerOf(h, e, x).error = why
      /\ AnswerOf(h, e, x).status = h.status /\ AnswerOf(h, e, x).held = h.held
      /\ AnswerOf(h, e, x).exception = x
  <2> HIDE DEF sort, why
  <2> QED
    BY <1>2
<1>4. AnswerOf(h, e, x) \in Answers
  <2> HIDE DEF sort, why
  <2> QED
    BY <1>1, <1>2 DEF Answers
<1> QED
  BY <1>3, <1>4

LEMMA AnswerFacts ==
  ASSUME TypeOK
  PROVE  /\ Answer \in Answers
         /\ Answer.handler = IF exception # 0 THEN "rethrown"
                             ELSE IF error = "none" THEN "success" ELSE "failure"
         /\ Answer.error = IF Answer.handler = "failure" /\ handler.exceeded
                           THEN "response_too_large" ELSE error
         /\ Answer.status = handler.status /\ Answer.held = handler.held
         /\ Answer.exception = exception
<1>1. Answer = AnswerOf(handler, error, exception)
  BY DEF Answer, AnswerOf
<1>2. handler \in Handlers /\ error \in Errors /\ exception \in Throw
  BY DEF TypeOK
<1> QED
  BY <1>1, <1>2, AnswerOfFacts

LEMMA TypeStep ==
  ASSUME TypeOK, ContentInv, ThrowInv, CancelInv, RefusalInv, [Next]_vars
  PROVE  TypeOK'
<1>1. ASSUME Callback
      PROVE  TypeOK'
  <2>1. /\ stage' \in Stages
        /\ UNCHANGED <<config, cancelled, error, exception, timely, told>>
    BY <1>1, CallbackFacts DEF Stages
  <2> QED
    BY <1>1, <2>1, CallbackTypes DEF TypeOK
<1>2. ASSUME Submit
      PROVE  TypeOK'
  <2>1. NewHandler \in Handlers /\ NoWire \in Wires
    BY BoundsAssumption DEF NewHandler, Handlers, NoWire, Wires, CurlCodes
  <2>2. /\ handler' \in Handlers /\ wire' \in Wires /\ told' = NotTold
        /\ stage' \in Stages /\ cancelled' = FALSE /\ thrown' = 0
        /\ refused' = FALSE /\ timely' = FALSE
        /\ UNCHANGED <<config, sink, error, exception>>
    BY <1>2, <2>1 DEF Submit, MainOnSubmit, Stages
  <2>3. 0 \in Throw
    BY DEF Throw
  <2> QED
    BY <2>2, <2>3 DEF TypeOK
<1>3. ASSUME Cancel
      PROVE  TypeOK'
  BY <1>3 DEF Cancel, TypeOK
<1>4. ASSUME Handle
      PROVE  TypeOK'
  BY <1>4, AnswerFacts DEF Handle, TypeOK, Stages, Throw
<1>5. ASSUME Abandon
      PROVE  TypeOK'
  BY <1>5 DEF Abandon, historyVars, TypeOK, Stages, Throw, Errors
<1>6. ASSUME Start
      PROVE  TypeOK'
  <2>1. /\ stage' \in Stages /\ sink' \in Sinks /\ wire' \in Wires
        /\ error' = error \/ error' = "cancelled"
        /\ exception' = 0
        /\ UNCHANGED <<config, cancelled, handler, thrown, refused, timely, told>>
    BY <1>6, StartFacts DEF Stages
  <2>2. 0 \in Throw /\ "cancelled" \in Errors
    BY DEF Throw, Errors
  <2> QED
    BY <2>1, <2>2 DEF TypeOK
<1>7. ASSUME Decides
      PROVE  TypeOK'
  BY <1>7, DecidesFacts DEF TypeOK, Stages
<1>8. ASSUME Decide
      PROVE  TypeOK'
  <2>1. /\ stage' \in Stages /\ error' \in Errors
        /\ exception' = sink.exception
        /\ UNCHANGED <<config, cancelled, sink, handler, wire, thrown, refused,
                       timely, told>>
    BY <1>8, DecisionFacts DEF Stages
  <2>2. sink.exception \in Throw
    BY DEF TypeOK, Sinks
  <2> QED
    BY <2>1, <2>2 DEF TypeOK
<1>9. ASSUME Complete
      PROVE  TypeOK'
  <2>1. thrown = 0
    BY <1>9 DEF Complete, ThrowInv
  <2> QED
    BY <1>9, <2>1 DEF Complete, TypeOK, Stages, Throw, Errors
<1>10. ASSUME Finish
      PROVE  TypeOK'
  BY <1>10 DEF Finish, requestVars, historyVars, TypeOK, Stages
<1>11. CASE UNCHANGED vars
  BY <1>11 DEF vars, historyVars, TypeOK
<1> QED
  BY <1>1, <1>2, <1>3, <1>4, <1>5, <1>6, <1>7, <1>8, <1>9, <1>10, <1>11
  DEF Next, LibcurlNext, WorkerNext, Callback, Decides

(* Only Handle and Cancel leave the request idle, and Cancel changes       *)
(* nothing of what was told.                                               *)
LEMMA ToldStep ==
  ASSUME TypeOK, ContentInv, ThrowInv, CancelInv, RefusalInv, ToldInv, [Next]_vars
  PROVE  /\ ToldInv'
         /\ \/ Handle
            \/ ~Told'
            \/ UNCHANGED <<config, stage, handler, wire, thrown, refused, timely,
                           told>>
<1>1. CASE Callback
  <2>1. stage # "idle" /\ told' = told
    BY <1>1, CallbackFacts
  <2> QED
    BY <2>1 DEF ToldInv, Told
<1>2. CASE Submit
  BY <1>2 DEF Submit, ToldInv, Told
<1>3. CASE Cancel
  <2>1. /\ timely' = (timely \/ stage \in Undecided)
        /\ UNCHANGED <<config, stage, handler, wire, thrown, refused, told>>
    BY <1>3 DEF Cancel
  <2>2. CASE stage = "idle"
    <3>1. timely' = timely
      BY <2>1, <2>2 DEF Undecided, TypeOK
    <3> QED
      BY <2>1, <2>2, <3>1 DEF ToldInv, Told
  <2>3. CASE stage # "idle"
    BY <2>1, <2>3 DEF ToldInv, Told
  <2> QED
    BY <2>2, <2>3
<1>4. CASE Handle
  BY <1>4 DEF Handle, ToldInv, Told
<1>5. CASE Abandon \/ Start \/ Decide \/ Complete \/ Finish
  BY <1>5 DEF Abandon, Start, Decide, Complete, Finish, ToldInv, Told,
     historyVars, requestVars
<1>6. CASE Decides
  <2>1. stage # "idle" /\ told' = told
    BY <1>6, DecidesFacts
  <2> QED
    BY <2>1 DEF ToldInv, Told
<1>7. CASE UNCHANGED vars
  BY <1>7 DEF vars, historyVars, ToldInv, Told
<1> QED
  BY <1>1, <1>2, <1>3, <1>4, <1>5, <1>6, <1>7
  DEF Next, LibcurlNext, WorkerNext, Callback, Decides

(* What the parts of the invariant say of a finished submission is what    *)
(* the program is told.                                                    *)
LEMMA HandleTells ==
  ASSUME TypeOK, ThrowInv, CancelInv, ContentInv, StatusInv, RefusalInv,
         SuccessInv, Handle
  PROVE  /\ FirstExceptionIsTold' /\ SuccessIsWhole' /\ TimelyCancelIsTold'
         /\ RefusalIsTold' /\ StatusIsTheServers'
<1>1. /\ stage = "finished"
      /\ told'.handler = IF exception # 0 THEN "rethrown"
                         ELSE IF error = "none" THEN "success" ELSE "failure"
      /\ told'.error = IF told'.handler = "failure" /\ handler.exceeded
                       THEN "response_too_large" ELSE error
      /\ told'.status = handler.status /\ told'.held = handler.held
      /\ told'.exception = exception
      /\ UNCHANGED <<config, handler, wire, thrown, refused, timely>>
  BY AnswerFacts DEF Handle
<1>2. /\ thrown \in Nat /\ exception = IF thrown = 0 THEN 0 ELSE 1
      /\ thrown > 0 => error = "handler_threw"
      /\ error # "response_too_large"
  <2>1. exception = IF thrown = 0 THEN 0 ELSE 1
    BY <1>1 DEF ThrowInv, Over
  <2>2. thrown > 0 => error = "handler_threw"
    BY <1>1 DEF ThrowInv, Over
  <2>3. thrown \in Nat /\ error # "response_too_large"
    BY DEF TypeOK, Throw, Errors
  <2> QED
    BY <2>1, <2>2, <2>3
<1>3. FirstExceptionIsTold'
  <2>1. told'.handler = "rethrown" <=> exception # 0
    BY <1>1
  <2> QED
    BY <1>1, <1>2, <2>1 DEF FirstExceptionIsTold
<1>4. SuccessIsWhole'
  <2>1. ASSUME told'.handler = "success"
        PROVE  error = "none" /\ exception = 0
    BY <1>1, <2>1
  <2> QED
    BY <1>1, <2>1 DEF SuccessIsWhole, SuccessInv, ContentInv, StatusInv, Over
<1>5. TimelyCancelIsTold'
  <2>1. timely => exception # 0 \/ error = "cancelled"
    BY <1>1 DEF CancelInv, Over
  <2> QED
    BY <1>1, <2>1 DEF TimelyCancelIsTold
<1>6. RefusalIsTold'
  <2>1. /\ handler.exceeded =>
              refused /\ wire.content > MaximumBytes /\ ~config.own_handler
        /\ refused /\ ~config.own_handler => handler.exceeded
        /\ error = "aborted_by_handler" => refused
        /\ refused /\ ~timely /\ thrown = 0 => error = "aborted_by_handler"
    BY <1>1 DEF RefusalInv, Over
  <2>2. ASSUME error = "aborted_by_handler"
        PROVE  told'.handler = "failure"
    BY <1>1, <1>2, <2>2
  <2>3. config.own_handler \in BOOLEAN
    BY ConfigsAssumption DEF TypeOK, Config
  <2> QED
    BY <1>1, <1>2, <2>1, <2>2, <2>3 DEF RefusalIsTold
<1>7. StatusIsTheServers'
  BY <1>1 DEF StatusIsTheServers, StatusInv, Over
<1> QED
  BY <1>3, <1>4, <1>5, <1>6, <1>7

-----------------------------------------------------------------------------
(* The invariant.                                                          *)

LEMMA InvInit == Init => IInv
<1> SUFFICES ASSUME Init
             PROVE  IInv
  OBVIOUS
<1>1. /\ NewSink \in Sinks /\ NewHandler \in Handlers /\ NoWire \in Wires
  BY BoundsAssumption
  DEF NewSink, Sinks, Throw, NewHandler, Handlers, NoWire, Wires, CurlCodes
<1>2. TypeOK
  <2>1. /\ config \in Configs /\ stage \in Stages /\ cancelled = FALSE
        /\ sink \in Sinks /\ error \in Errors /\ exception = 0
        /\ handler \in Handlers /\ wire \in Wires /\ thrown = 0
        /\ refused = FALSE /\ timely = FALSE /\ told = NotTold
    BY <1>1 DEF Init, Stages, Errors
  <2>2. 0 \in Throw
    BY DEF Throw
  <2> QED
    BY <2>1, <2>2 DEF TypeOK
<1>3. ~Told /\ stage = "idle"
  BY DEF Init, Told
<1>4. ThrowInv /\ CancelInv
  BY DEF Init, ThrowInv, CancelInv, Undecided, Over, Performed
<1>5. ContentInv
  BY <1>3, BoundsAssumption DEF Init, ContentInv, Performed, NewHandler, NoWire
<1>6. StatusInv /\ RefusalInv /\ SuccessInv
  BY DEF Init, StatusInv, RefusalInv, SuccessInv, NewHandler, NoWire, Over, Performed
<1> QED
  BY <1>2, <1>3, <1>4, <1>5, <1>6
  DEF IInv, ToldInv, FirstExceptionIsTold, SuccessIsWhole, TimelyCancelIsTold,
      RefusalIsTold, StatusIsTheServers

LEMMA InvStep == IInv /\ [Next]_vars => IInv'
<1> SUFFICES ASSUME IInv, [Next]_vars
             PROVE  IInv'
  OBVIOUS
<1>1. /\ TypeOK /\ ThrowInv /\ CancelInv /\ ContentInv /\ StatusInv
      /\ RefusalInv /\ SuccessInv /\ ToldInv
  BY DEF IInv
<1>2. /\ TypeOK' /\ ThrowInv' /\ CancelInv' /\ ContentInv' /\ StatusInv'
      /\ RefusalInv' /\ SuccessInv'
  BY <1>1, TypeStep, ThrowStep, CancelStep, ContentStep, StatusStep, RefusalStep,
     SuccessStep
<1>3. ToldInv'
  BY <1>1, ToldStep
<1>4. /\ FirstExceptionIsTold' /\ SuccessIsWhole' /\ TimelyCancelIsTold'
      /\ RefusalIsTold' /\ StatusIsTheServers'
  <2>1. CASE Handle
    BY <1>1, <2>1, HandleTells
  <2>2. CASE ~Told'
    BY <2>2 DEF FirstExceptionIsTold, SuccessIsWhole, TimelyCancelIsTold,
       RefusalIsTold, StatusIsTheServers
  <2>3. CASE UNCHANGED <<config, stage, handler, wire, thrown, refused, timely,
                         told>>
    BY <2>3 DEF IInv, FirstExceptionIsTold, SuccessIsWhole, TimelyCancelIsTold,
       RefusalIsTold, StatusIsTheServers, Told
  <2> QED
    BY <1>1, <2>1, <2>2, <2>3, ToldStep
<1> QED
  BY <1>2, <1>3, <1>4 DEF IInv

(* All of it is an invariant, whatever the server answers, however long    *)
(* and through however many redirects, and whatever the handler does.      *)
THEOREM TransferInvariant == Spec => []IInv
<1>1. IInv /\ UNCHANGED vars => IInv'
  BY InvStep
<1> QED
  BY InvInit, InvStep, PTL DEF Spec

(* The request's fields, the handler's and libcurl's keep their types; a   *)
(* submission's handler throws at most three times.                        *)
THEOREM TypesAreKept == Spec => []TypeOK
BY TransferInvariant, PTL DEF IInv

(* The exception main rethrows is the first the handler threw in this      *)
(* submission (capture_handler_exception, worker_fetch_task's catch).      *)
THEOREM FirstExceptionIsRethrown == Spec => []FirstExceptionIsTold
BY TransferInvariant, PTL DEF IInv

(* A success is one whole response: every byte, its own status, the range  *)
(* asked for (perform_transfer, buffering_response_handler).               *)
THEOREM SuccessIsAWholeResponse == Spec => []SuccessIsWhole
BY TransferInvariant, PTL DEF IInv

(* A cancellation that can be seen when the outcome is decided is told as  *)
(* one, unless the handler threw or the buffering handler's limit explains *)
(* it (perform_transfer).                                                  *)
THEOREM TimelyCancelIsAlwaysTold == Spec => []TimelyCancelIsTold
BY TransferInvariant, PTL DEF IInv

(* The handler's refusal is told when it refused and only then, and the    *)
(* limit is blamed only for a body that is over it.                        *)
THEOREM RefusalIsAlwaysTold == Spec => []RefusalIsTold
BY TransferInvariant, PTL DEF IInv

(* The status told is the server's last (report_response_status).          *)
THEOREM StatusToldIsTheServers == Spec => []StatusIsTheServers
BY TransferInvariant, PTL DEF IInv

-----------------------------------------------------------------------------
(* The exchange implements the contract.                                   *)

(* What a step is to main: nothing, a submission, an answer produced or an *)
(* answer told.                                                            *)
Undisturbed == UNCHANGED <<stage, told, handler, error, exception>>

LEMMA StepFacts ==
  ASSUME IInv, [Next]_vars
  PROVE  \/ Undisturbed
         \/ stage = "idle" /\ stage' = "queued" /\ told' = NotTold
         \/ stage \notin {"idle", "finished"} /\ stage' # "idle" /\ told' = told
         \/ stage = "finished" /\ stage' = "idle" /\ told' = Answer
<1>1. TypeOK /\ ContentInv /\ ThrowInv /\ CancelInv /\ RefusalInv
  BY DEF IInv
<1>2. CASE Callback
  BY <1>1, <1>2, CallbackFacts
<1>3. CASE Submit \/ Handle \/ Cancel \/ Abandon \/ Complete \/ Finish
  BY <1>3 DEF Submit, Handle, Cancel, Abandon, Complete, Finish, historyVars,
     requestVars, Undisturbed
<1>4. CASE Start
  BY <1>1, <1>4, StartFacts
<1>5. CASE Decides
  BY <1>1, <1>5, DecidesFacts
<1>6. CASE Decide
  BY <1>1, <1>6, DecisionFacts
<1>7. CASE UNCHANGED vars
  BY <1>7 DEF vars, historyVars, Undisturbed
<1> QED
  BY <1>2, <1>3, <1>4, <1>5, <1>6, <1>7
  DEF Next, LibcurlNext, WorkerNext, Callback, Decides

LEMMA ContractStep ==
  ASSUME IInv, IInv', [Next]_vars
  PROVE  [Contract!Next]_(Contract!vars)
<1> DEFINE S == [r \in {"it"} |-> IF stage = "idle" THEN "idle"
                                  ELSE IF stage = "finished" THEN "settled"
                                  ELSE "submitted"]
           V == [r \in {"it"} |-> IF stage = "finished" THEN Answer ELSE NotTold]
           T == [r \in {"it"} |-> told]
<1>1. Answer' \in Answers
  <2>1. Answer' = AnswerOf(handler', error', exception')
    BY DEF Answer, AnswerOf
  <2>2. handler' \in Handlers /\ error' \in Errors /\ exception' \in Throw
    BY DEF IInv, TypeOK
  <2> QED
    BY <2>1, <2>2, AnswerOfFacts
<1>2. CASE Undisturbed
  <2>1. Answer' = Answer
    BY <1>2 DEF Undisturbed, Answer
  <2>2. S' = S /\ V' = V /\ T' = T
    BY <1>2, <2>1 DEF Undisturbed
  <2> QED
    BY <2>2 DEF Contract!vars
<1>3. CASE stage = "idle" /\ stage' = "queued" /\ told' = NotTold
  <2>1. S["it"] = "idle" /\ S' = [S EXCEPT !["it"] = "submitted"]
    BY <1>3
  <2>2. V' = V /\ T' = [T EXCEPT !["it"] = NotTold]
    BY <1>3
  <2>3. Contract!Submit("it")
    BY <2>1, <2>2 DEF Contract!Submit
  <2> QED
    BY <2>3 DEF Contract!Next
<1>4. CASE /\ stage \notin {"idle", "finished"} /\ stage' \notin {"idle", "finished"}
           /\ told' = told
  <2>1. S' = S /\ V' = V /\ T' = T
    BY <1>4
  <2> QED
    BY <2>1 DEF Contract!vars
<1>5. CASE stage \notin {"idle", "finished"} /\ stage' = "finished" /\ told' = told
  <2>1. S["it"] = "submitted" /\ S' = [S EXCEPT !["it"] = "settled"]
    BY <1>5
  <2>2. V' = [V EXCEPT !["it"] = Answer'] /\ T' = T
    BY <1>5
  <2>3. Contract!Settle("it")
    BY <1>1, <2>1, <2>2 DEF Contract!Settle
  <2> QED
    BY <2>3 DEF Contract!Next
<1>6. CASE stage = "finished" /\ stage' = "idle" /\ told' = Answer
  <2>1. S["it"] = "settled" /\ S' = [S EXCEPT !["it"] = "idle"]
    BY <1>6
  <2>2. V["it"] = Answer /\ V' = [V EXCEPT !["it"] = NotTold]
    BY <1>6
  <2>3. T' = [T EXCEPT !["it"] = V["it"]]
    BY <1>6, <2>2
  <2>4. Contract!Handle("it")
    BY <2>1, <2>2, <2>3 DEF Contract!Handle
  <2> QED
    BY <2>4 DEF Contract!Next
<1> QED
  BY <1>2, <1>3, <1>4, <1>5, <1>6, StepFacts

(* To main one exchange is a one-request HttpContext: one answer for each  *)
(* submission, fixed once produced, told once.                             *)
THEOREM TransferKeepsContract == Spec => ImplementsContract
<1>1. Init => Contract!Init
  BY DEF Init, Contract!Init
<1>2. IInv /\ IInv' /\ [Next]_vars => [Contract!Next]_(Contract!vars)
  BY ContractStep
<1> QED
  BY <1>1, <1>2, TransferInvariant, PTL DEF Spec, ImplementsContract, Contract!Spec

-----------------------------------------------------------------------------
(* The exchange is what CurlContext's task may do.                         *)

(* What of a request the rest of CurlContext can see of a step of its      *)
(* exchange.                                                               *)
LEMMA SameTask ==
  ASSUME UNCHANGED <<cancelled, error, exception, timely>>,
         PhaseOf[stage'] = PhaseOf[stage],
         stage # "idle", stage' # "idle",
         stage' = "finished" <=> stage = "finished",
         stage' \in Over <=> stage \in Over,
         Unperformed' = Unperformed
  PROVE  UNCHANGED Task!vars
<1>1. Outcome' = Outcome
  BY DEF Outcome
<1> QED
  BY <1>1 DEF Task!vars, Task!requestVars, Task!historyVars, Task!mainVars,
     Task!taskVars, Of

LEMMA OfFacts ==
  ASSUME NEW x, NEW y
  PROVE  /\ Of(x)["it"] = x
         /\ [Of(x) EXCEPT !["it"] = y] = Of(y)
         /\ [[t \in {"task"} |-> x] EXCEPT !["task"] = y] = [t \in {"task"} |-> y]
BY DEF Of

LEMMA MappedFacts ==
  /\ PhaseOf["queued"] = "queued" /\ PhaseOf["performing"] = "transferring"
  /\ PhaseOf["deciding"] = "transferring"
  /\ PhaseOf["completing"] = "completing" /\ PhaseOf["finishing"] = "finishing"
  /\ PhaseOf["finished"] = "ran"
  /\ ClassOf["none"] = "none" /\ ClassOf["cancelled"] = "cancelled"
  /\ ClassOf["handler_threw"] = "handler_threw"
  /\ \A e \in Errors \ {"none", "cancelled", "handler_threw"} :
        ClassOf[e] = "failed"
BY DEF PhaseOf, ClassOf, Stages, Performed, Errors

LEMMA TaskStepFacts ==
  ASSUME IInv, IInv', [Next]_vars, stage # "idle", stage' # "idle"
  PROVE  TaskStep \/ UNCHANGED Task!vars
<1>1. /\ TypeOK /\ ThrowInv /\ CancelInv /\ ContentInv /\ RefusalInv
      /\ StatusInv /\ SuccessInv /\ ContentInv'
  BY DEF IInv
<1>2. CASE Callback \/ Decides
  <2>1. /\ stage \in {"performing"} \cup Performed
        /\ stage' \in {"performing"} \cup Performed
        /\ UNCHANGED <<cancelled, error, exception, timely>>
    BY <1>1, <1>2, CallbackFacts, DecidesFacts DEF Performed
  <2>2. PhaseOf[stage'] = PhaseOf[stage]
    BY <2>1 DEF PhaseOf, Performed, Stages
  <2>3. ~Unperformed /\ ~Unperformed'
    BY <1>1, <2>1 DEF ContentInv, Unperformed
  <2>4. /\ stage' = "finished" <=> stage = "finished"
        /\ stage' \in Over <=> stage \in Over
        /\ Unperformed' = Unperformed
    BY <2>1, <2>3 DEF Over, Performed, Unperformed
  <2>5. UNCHANGED Task!vars
    BY <2>1, <2>2, <2>4, SameTask
  <2> QED
    BY <2>5
<1>3. CASE Cancel
  <2>1. stage = "queued" <=> PhaseOf[stage] \in Task!Unstarted
    BY <1>1 DEF TypeOK, Stages, PhaseOf, Performed, Task!Unstarted
  <2>2. (timely /\ Unperformed)' =
           ((timely /\ Unperformed) \/ stage = "queued")
    BY <1>1, <1>3 DEF Cancel, ContentInv, Unperformed, Undecided, TypeOK, Stages,
       Performed, SuccessInv
  <2>3. Outcome' = Outcome
    BY <1>3 DEF Cancel, Outcome, Unperformed
  <2>4. Task!Doom({"it"})
    BY <2>1, <2>2 DEF Task!Doom, Of
  <2>5. Task!Cancel("it")
    BY <1>3, <2>3, <2>4, OfFacts DEF Cancel, Task!Cancel, Task!mainVars,
       Task!taskVars, Of
  <2> QED
    BY <2>5 DEF TaskStep
<1>4. CASE Start
  <2>1. /\ stage = "queued" /\ exception' = 0 /\ Unperformed
        /\ (timely <=> cancelled)
        /\ \/ cancelled /\ error' = "cancelled" /\ stage' = "finishing" /\ Unperformed'
           \/ ~cancelled /\ error' = error /\ stage' = "performing" /\ ~Unperformed'
        /\ UNCHANGED <<cancelled, timely>>
    BY <1>1, <1>4, StartFacts DEF ContentInv, CancelInv, Undecided, Unperformed
  <2>2. (timely /\ Unperformed)' = (timely /\ Unperformed)
    BY <2>1
  <2>3. /\ Outcome = "pending"
        /\ Outcome' = IF cancelled THEN "never ran" ELSE "pending"
    BY <2>1 DEF Outcome, Over
  <2>4. (exception # 0)' = FALSE
    BY <2>1
  <2>5. (stage # "finished")' = TRUE
    BY <2>1
  <2>6. CASE cancelled
    <3>1. Task!StopAsked("it")
      BY <2>6 DEF Task!StopAsked, Of
    <3>2. /\ stage' = "finishing" /\ error' = "cancelled"
          /\ Outcome' = "never ran"
      BY <2>1, <2>3, <2>6
    <3>3. Task!TaskRun("task")
      BY <2>1, <2>2, <2>4, <2>5, <3>1, <3>2, MappedFacts
      DEF Task!TaskRun, Task!Move, Task!mainVars, Of
    <3> QED
      BY <3>3 DEF TaskStep
  <2>7. CASE ~cancelled
    <3>1. ~Task!StopAsked("it")
      BY <2>7 DEF Task!StopAsked, Of
    <3>2. Task!TaskRun("task")
      BY <2>1, <2>2, <2>3, <2>4, <2>5, <2>7, <3>1, OfFacts, MappedFacts
      DEF Task!TaskRun, Task!Move, Task!mainVars, Of
    <3> QED
      BY <3>2 DEF TaskStep
  <2> QED
    BY <2>6, <2>7
<1>5. CASE Decide
  <2>1. /\ stage = "deciding" /\ exception = 0 /\ ~Unperformed /\ ~Unperformed'
        /\ exception' = sink.exception
        /\ (timely <=> cancelled)
        /\ error' \in Errors
        /\ Outcome = "pending"
        /\ UNCHANGED <<cancelled, timely>>
    BY <1>1, <1>5, DecisionFacts
    DEF ThrowInv, CancelInv, ContentInv, Undecided, Performed, Unperformed,
        Outcome, Over
  <2>2. (timely /\ Unperformed)' = (timely /\ Unperformed)
    BY <2>1
  <2>3. CASE stage' = "finishing" /\ error' = "handler_threw" /\ sink.exception = 1
    <3>1. Outcome' = "threw"
      BY <2>3 DEF Outcome, Over
    <3>2. (exception # 0)' = TRUE
      BY <2>1, <2>3
    <3>3. Task!TransferThrew("task")
      BY <2>1, <2>2, <2>3, <3>1, <3>2, OfFacts, MappedFacts
      DEF Task!TransferThrew, Task!Move, Task!mainVars, Of
    <3> QED
      BY <3>3 DEF TaskStep
  <2>4. CASE /\ stage' = "finishing" /\ error' = "cancelled"
             /\ sink.exception = 0 /\ cancelled
    <3>1. Outcome' = "stopped"
      BY <2>1, <2>4 DEF Outcome, Over
    <3>2. Task!TransferStopped("task")
      BY <2>1, <2>2, <2>4, <3>1, OfFacts, MappedFacts
      DEF Task!TransferStopped, Task!StopAsked, Task!Move, Task!mainVars, Of
    <3> QED
      BY <3>2 DEF TaskStep
  <2>5. CASE /\ stage' = "finishing" /\ sink.exception = 0 /\ ~cancelled
             /\ error' \notin {"none", "cancelled", "handler_threw"}
    <3>1. Outcome' = "failed"
      BY <2>5 DEF Outcome, Over
    <3>2. Task!TransferEnded("task")
      BY <2>1, <2>2, <2>5, <3>1, OfFacts, MappedFacts
      DEF Task!TransferEnded, Task!StopAsked, Task!Move, Task!mainVars, Of
    <3> QED
      BY <3>2 DEF TaskStep
  <2>6. CASE /\ stage' = "completing" /\ error' = "none"
             /\ sink.exception = 0 /\ ~cancelled
    <3>1. Outcome' = "pending"
      BY <2>6 DEF Outcome, Over
    <3>2. Task!TransferEnded("task")
      BY <2>1, <2>2, <2>6, <3>1, OfFacts, MappedFacts
      DEF Task!TransferEnded, Task!StopAsked, Task!Move, Task!mainVars, Of
    <3> QED
      BY <3>2 DEF TaskStep
  <2> QED
    <3>1. \/ stage' = "finishing" /\ error' = "handler_threw" /\ sink.exception = 1
          \/ /\ stage' = "finishing" /\ error' = "cancelled"
             /\ sink.exception = 0 /\ timely
          \/ /\ stage' = "finishing" /\ sink.exception = 0 /\ ~timely
             /\ error' \notin {"none", "cancelled", "handler_threw"}
          \/ /\ stage' = "completing" /\ error' = "none"
             /\ sink.exception = 0 /\ ~timely
      BY <1>1, <1>5, DecisionFacts
    <3> QED
      BY <2>1, <2>3, <2>4, <2>5, <2>6, <3>1
<1>6. CASE Complete
  <2>1. /\ stage = "completing" /\ stage' = "finishing"
        /\ error = "none" /\ exception = 0 /\ thrown = 0
        /\ Outcome = "pending" /\ Unperformed' = Unperformed
        /\ UNCHANGED <<cancelled, timely>>
    BY <1>1, <1>6 DEF Complete, SuccessInv, ThrowInv, Outcome, Over, Unperformed
  <2>2. (timely /\ Unperformed)' = (timely /\ Unperformed)
    BY <2>1
  <2>3. CASE UNCHANGED <<error, exception, thrown>>
    <3>1. Outcome' = "completed"
      BY <2>1, <2>3 DEF Outcome, Over
    <3>2. Task!CompleteReturns("task")
      BY <2>1, <2>2, <2>3, <3>1, OfFacts, MappedFacts
      DEF Task!CompleteReturns, Task!Move, Task!mainVars, Task!requestVars, Of
    <3> QED
      BY <3>2 DEF TaskStep
  <2>4. CASE exception' = 1 /\ error' = "handler_threw"
    <3>1. Outcome' = "threw"
      BY <2>1, <2>4 DEF Outcome, Over
    <3>2. (exception # 0)' = TRUE
      BY <2>4
    <3>3. Task!CompleteThrows("task")
      BY <2>1, <2>2, <2>4, <3>1, <3>2, OfFacts, MappedFacts
      DEF Task!CompleteThrows, Task!Move, Task!mainVars, Of
    <3> QED
      BY <3>3 DEF TaskStep
  <2> QED
    BY <1>6, <2>1, <2>3, <2>4 DEF Complete
<1>7. CASE Finish
  <2>1. /\ stage = "finishing" /\ stage' = "finished"
        /\ Outcome' = Outcome /\ Unperformed' = Unperformed
        /\ UNCHANGED <<cancelled, error, exception, timely>>
    BY <1>7 DEF Finish, requestVars, historyVars, Outcome, Over, Unperformed
  <2>2. Task!TaskFinish("task")
    BY <2>1, OfFacts, MappedFacts
    DEF Task!TaskFinish, Task!Move, Task!mainVars, Task!historyVars, Of
  <2> QED
    BY <2>2 DEF TaskStep
<1>8. CASE Abandon
  <2>1. /\ stage = "queued" /\ stage' = "finished"
        /\ error' = "cancelled" /\ exception' = 0
        /\ Outcome' = "never ran"
    BY <1>1, <1>8 DEF Abandon, ContentInv, Outcome, Over, Unperformed
  <2>2. Task!Abandon("it")
    BY <2>1, OfFacts, MappedFacts DEF Task!Abandon, Of
  <2> QED
    BY <2>1, <2>2 DEF TaskStep
<1>9. CASE Submit \/ Handle
  BY <1>9 DEF Submit, Handle
<1>10. CASE UNCHANGED vars
  <2>1. UNCHANGED <<cancelled, error, exception, timely, stage, wire>>
    BY <1>10 DEF vars, historyVars
  <2>2. UNCHANGED Task!vars
    BY <2>1, SameTask DEF Unperformed
  <2> QED
    BY <2>2
<1> QED
  BY <1>2, <1>3, <1>4, <1>5, <1>6, <1>7, <1>8, <1>9, <1>10
  DEF Next, LibcurlNext, WorkerNext, Callback, Decides

(* From submission to handling, an exchange over any number of hops, bytes *)
(* and throws does what CurlContext's one-step transfer may do             *)
(* (worker_fetch_task, perform_transfer, worker_abandon).                  *)
THEOREM ExchangeStaysATask == Spec => ExchangeIsATask
<1>1. IInv /\ IInv' /\ [Next]_vars =>
        [stage # "idle" /\ stage' # "idle" => TaskStep \/ UNCHANGED Task!vars]_vars
  BY TaskStepFacts
<1> QED
  BY <1>1, TransferInvariant, PTL DEF Spec, ExchangeIsATask

=============================================================================
