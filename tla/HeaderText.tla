----------------------------- MODULE HeaderText -----------------------------
(***************************************************************************)
(* What the two backends make of the text of a response's headers.  The    *)
(* curl backend is handed a line at a time by libcurl, or by the fuzz      *)
(* target, whose loop this is; the fetch backend cuts up the one text the  *)
(* browser gives it.  Both run over the same text, side by side.           *)
(*                                                                         *)
(* A text is a sequence of tokens: a character each, but "HTTP/" and "20", *)
(* which stand for the characters they show.  A number too large for an    *)
(* int, or negative, is refused as one outside 100..999 is.                *)
(***************************************************************************)
EXTENDS Integers, FiniteSets, Sequences, SequencesExt

CONSTANT MaximumLength  \* bound: the tokens of a text

ASSUME MaximumLengthAssumption == MaximumLength \in Nat

Tokens == {"HTTP/", "\n", " ", ":", "a", "1", "20", "NUL"}
Blanks == {" ", "\n"}
DigitsOf == [t \in {"1", "20"} |-> IF t = "1" THEN [scale |-> 10, value |-> 1]
                                   ELSE [scale |-> 100, value |-> 20]]

VARIABLES
    content,    \* the text, fixed
    curl,       \* the fuzz target's loop: the position of remaining, and sink
    fetch       \* the fetch task's loop: the position of remaining
                \* and, of both, the headers the handler was given

vars == <<content, curl, fetch>>

Texts == BoundedSeq(Tokens, MaximumLength)

Headers == Seq(Tokens) \X Seq(Tokens)

(* Types, and that neither loop takes more off its text than is left of it *)
(* (remove_prefix past the end of a string_view is undefined).             *)
TypeOK ==
    /\ content \in Seq(Tokens) /\ Len(content) <= MaximumLength
    /\ curl \in [at : 1..(Len(content) + 1), headers : Seq(Headers),
                 status : Nat, reported : BOOLEAN]
    /\ fetch \in [at : 1..(Len(content) + 1), headers : Seq(Headers)]

Init ==
    /\ content \in Texts
    /\ curl = [at |-> 1, headers |-> <<>>, status |-> 0, reported |-> FALSE]
    /\ fetch = [at |-> 1, headers |-> <<>>]

-----------------------------------------------------------------------------

(* string_view::find: the first position of the token, 0 for npos.         *)
Find(token, s) == SelectInSeq(s, LAMBDA t : t = token)

From(s, i) == SubSeq(s, i, Len(s))

(* _trim, the same in both backends.                                       *)
Trim_SpacesOnly(s) ==
    LET Kept(t) == t # " "
    IN IF SelectInSeq(s, Kept) = 0 THEN <<>>
       ELSE SubSeq(s, SelectInSeq(s, Kept), SelectLastInSeq(s, Kept))
Trim(s) ==
    LET Kept(t) == t \notin Blanks
    IN IF SelectInSeq(s, Kept) = 0 THEN <<>>
       ELSE SubSeq(s, SelectInSeq(s, Kept), SelectLastInSeq(s, Kept))

(* std::from_chars: the number a field begins with.                        *)
Digits(field) ==
    LET end == SelectInSeq(field, LAMBDA t : t \notin DOMAIN DigitsOf)
    IN IF end = 0 THEN field ELSE SubSeq(field, 1, end - 1)
Number(digits) ==
    FoldLeft(LAMBDA n, t : n * DigitsOf[t].scale + DigitsOf[t].value, 0, digits)

(* _parse_status_code: the set of the code, empty for nullopt.             *)
Field(line) == Trim(From(line, Find(" ", line)))
StatusCode_AnyNumber(line) ==
    IF Find(" ", line) = 0 THEN {}
    ELSE {Number(digits) : digits \in {Digits(Field(line))} \ {<<>>}}
StatusCode(line) ==
    IF Find(" ", line) = 0 THEN {}
    ELSE {Number(digits) : digits \in {Digits(Field(line))} \ {<<>>}}
         \cap 100..999

(* The name and value of a line that has a separator.                      *)
NameAndValue_LastColon(line) ==
    LET at == SelectLastInSeq(line, LAMBDA t : t = ":")
    IN <<Trim(SubSeq(line, 1, at - 1)), Trim(From(line, at + 1))>>
NameAndValue(line) ==
    LET at == Find(":", line)
    IN <<Trim(SubSeq(line, 1, at - 1)), Trim(From(line, at + 1))>>

WithHeader(reader, line) ==
    IF Find(":", line) = 0 THEN reader
    ELSE [reader EXCEPT !.headers = Append(@, NameAndValue(line))]

(* receive_response_header, nothing cancelled and nothing thrown.          *)
ReceiveResponseHeader(sink, line) ==
    IF Head(line) # "HTTP/" THEN WithHeader(sink, line)
    ELSE IF StatusCode(line) = {} THEN sink
    ELSE [sink EXCEPT !.status = CHOOSE n \in StatusCode(line) : TRUE,
                      !.reported = TRUE]

(* What remove_prefix and substr take off: a line and its line break.      *)
Past(remaining, lineEnd) ==
    IF lineEnd = 0 THEN Len(remaining) ELSE lineEnd

(* LLVMFuzzerTestOneInput: a line keeps the line break that ends it.       *)
CurlLine ==
    LET remaining == From(content, curl.at)
        lineEnd == Find("\n", remaining)
        line == IF lineEnd = 0 THEN remaining ELSE SubSeq(remaining, 1, lineEnd)
    IN
    /\ remaining # <<>>
    /\ curl' = [ReceiveResponseHeader(curl, line) EXCEPT
                    !.at = @ + Past(remaining, lineEnd)]
    /\ UNCHANGED <<content, fetch>>

(* The worker half's loop over headers.c_str(): a line loses its break.    *)
FetchText ==
    IF Find("NUL", content) = 0 THEN content
    ELSE SubSeq(content, 1, Find("NUL", content) - 1)

FetchLine ==
    LET remaining == From(FetchText, fetch.at)
        lineEnd == Find("\n", remaining)
        line == IF lineEnd = 0 THEN remaining ELSE SubSeq(remaining, 1, lineEnd - 1)
    IN
    /\ remaining # <<>>
    /\ fetch' = [WithHeader(fetch, line) EXCEPT !.at = @ + Past(remaining, lineEnd)]
    /\ UNCHANGED <<content, curl>>

Next == CurlLine \/ FetchLine

Spec == Init /\ [][Next]_vars

-----------------------------------------------------------------------------

CurlDone == curl.at > Len(content)
FetchDone == fetch.at > Len(FetchText)

(* The fuzz target's __builtin_trap is never reached: a status reported to *)
(* a handler has three digits, whatever the status line says.              *)
TrapIsNeverReached == curl.reported => curl.status \in 100..999

(* The two backends give a handler the same headers for the same text,     *)
(* where it has no status line, which a browser leaves out, and no NUL,    *)
(* which ends the fetch backend's text.                                    *)
StatusLines == {i \in DOMAIN content : content[i] = "HTTP/" /\
                                       (i = 1 \/ content[i - 1] = "\n")}
BackendsAgree ==
    CurlDone /\ FetchDone /\ StatusLines = {} /\ Find("NUL", content) = 0
        => curl.headers = fetch.headers

(* A header is what stands before and after the first colon of its line,   *)
(* without the blanks around: by that definition, not by how _trim and     *)
(* substr find it.                                                         *)
Stands(part, whole) ==
    \E i, j \in 0..Len(whole) :
        /\ i + Len(part) + j = Len(whole)
        /\ SubSeq(whole, i + 1, i + Len(part)) = part
        /\ \A k \in DOMAIN whole :
              (k <= i \/ k > i + Len(part)) => whole[k] \in Blanks
        /\ part # <<>> => {Head(part), Last(part)} \cap Blanks = {}
LinesAre ==
    {l \in (1..Len(content)) \X (1..Len(content)) :
        /\ l[1] <= l[2] /\ (l[1] = 1 \/ content[l[1] - 1] = "\n")
        /\ l[2] = Len(content) \/ content[l[2]] = "\n"
        /\ \A k \in l[1]..(l[2] - 1) : content[k] # "\n"}
HeaderLines ==
    {l \in LinesAre : l[1] \notin StatusLines /\
                      \E k \in l[1]..l[2] : content[k] = ":"}
Place(l) == Cardinality({m \in HeaderLines : m[1] <= l[1]})
Colon(l) == CHOOSE k \in l[1]..l[2] : content[k] = ":" /\
                \A j \in l[1]..(k - 1) : content[j] # ":"
HeadersAreTheLines ==
    CurlDone =>
        /\ Len(curl.headers) = Cardinality(HeaderLines)
        /\ \A l \in HeaderLines :
              LET header == curl.headers[Place(l)]
              IN /\ Stands(header[1], SubSeq(content, l[1], Colon(l) - 1))
                 /\ Stands(header[2], SubSeq(content, Colon(l) + 1, l[2]))

=============================================================================
