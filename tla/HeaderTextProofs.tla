-------------------------- MODULE HeaderTextProofs --------------------------
(***************************************************************************)
(* What HeaderText checks of every text of up to a few tokens, proved of   *)
(* texts of any length.  Neither parser is followed by an induction over   *)
(* the text: both are loops, so that the invariant says what was told of   *)
(* the lines before the position the loop has reached.                     *)
(***************************************************************************)
EXTENDS HeaderText, SequenceTheorems, FiniteSetTheorems, WellFoundedInduction,
        TLAPS

-----------------------------------------------------------------------------
(* The smallest and the largest of a set of positions.                     *)

LEMMA MinFacts ==
  ASSUME NEW T \in SUBSET Nat, T # {}
  PROVE  Min(T) \in T /\ \A y \in T : Min(T) <= y
<1>1. PICK x \in T : \A y \in T : ~ (<<y, x>> \in OpToRel(<, Nat))
  BY NatLessThanWellFounded, WFMin
<1>2. \A y \in T : x <= y
  <2> SUFFICES ASSUME NEW y \in T PROVE x <= y
    OBVIOUS
  <2>1. x \in Nat /\ y \in Nat
    OBVIOUS
  <2>2. ~ (y < x)
    BY <1>1, <2>1 DEF OpToRel
  <2> QED
    BY <2>1, <2>2
<1> QED
  BY <1>2 DEF Min

LEMMA MaxFacts ==
  ASSUME NEW n \in Nat, NEW T \in SUBSET (1..n), T # {}
  PROVE  Max(T) \in T /\ \A y \in T : Max(T) >= y
<1> DEFINE U == {n - x : x \in T}
<1>0. \A x \in T : x \in 1..n /\ n - x \in Nat
  OBVIOUS
<1>1. U \in SUBSET Nat /\ U # {}
  BY <1>0
<1>2. Min(U) \in U /\ \A y \in U : Min(U) <= y
  BY <1>1, MinFacts
<1>3. PICK x \in T : Min(U) = n - x
  BY <1>2
<1>4. \A y \in T : x >= y
  <2> SUFFICES ASSUME NEW y \in T PROVE x >= y
    OBVIOUS
  <2>1. n - x <= n - y
    BY <1>2, <1>3
  <2> QED
    BY <1>0, <2>1
<1> QED
  BY <1>4 DEF Max

(* string_view::find.                                                      *)
LEMMA FindFacts ==
  ASSUME NEW S, NEW s \in Seq(S), NEW token
  PROVE  \/ /\ Find(token, s) = 0
            /\ \A k \in 1..Len(s) : s[k] # token
         \/ /\ Find(token, s) \in 1..Len(s)
            /\ s[Find(token, s)] = token
            /\ \A k \in 1..(Find(token, s) - 1) : s[k] # token
<1> DEFINE I == {i \in 1..Len(s) : s[i] = token}
<1>1. Find(token, s) = IF I # {} THEN Min(I) ELSE 0
  BY DEF Find, SelectInSeq
<1>2. CASE I = {}
  BY <1>1, <1>2
<1>3. CASE I # {}
  <2>0. I \in SUBSET (1..Len(s)) /\ I \in SUBSET Nat /\ Len(s) \in Nat
    OBVIOUS
  <2>1. Min(I) \in I /\ \A y \in I : Min(I) <= y
    BY <1>3, <2>0, MinFacts
  <2>2. Find(token, s) = Min(I)
    BY <1>1, <1>3
  <2>3. /\ Find(token, s) \in 1..Len(s)
        /\ s[Find(token, s)] = token
    BY <2>1, <2>2
  <2>4. ASSUME NEW k \in 1..(Find(token, s) - 1), s[k] = token
        PROVE  FALSE
    <3>1. k \in I
      BY <2>0, <2>3, <2>4
    <3> QED
      BY <2>0, <2>1, <2>2, <2>3, <3>1
  <2> QED
    BY <2>3, <2>4
<1> QED
  BY <1>2, <1>3

(* _trim: a text of blanks goes; of another, what is between the blanks    *)
(* around it stays.                                                        *)
LEMMA TrimFacts ==
  ASSUME NEW s \in Seq(Tokens)
  PROVE  \/ /\ \A k \in 1..Len(s) : s[k] \in Blanks
            /\ Trim(s) = <<>>
         \/ \E i, j \in 1..Len(s) :
               /\ i <= j /\ s[i] \notin Blanks /\ s[j] \notin Blanks
               /\ \A k \in 1..Len(s) : k < i \/ k > j => s[k] \in Blanks
               /\ Trim(s) = SubSeq(s, i, j)
<1> DEFINE I == {k \in 1..Len(s) : s[k] \notin Blanks}
           first == IF I # {} THEN Min(I) ELSE 0
           last == IF I # {} THEN Max(I) ELSE 0
<1>1. Trim(s) = IF first = 0 THEN <<>> ELSE SubSeq(s, first, last)
  BY DEF Trim, SelectInSeq, SelectLastInSeq
<1>2. CASE I = {}
  BY <1>1, <1>2
<1>3. CASE I # {}
  <2>0. I \in SUBSET (1..Len(s)) /\ I \in SUBSET Nat /\ Len(s) \in Nat
    OBVIOUS
  <2>1. Min(I) \in I /\ \A y \in I : Min(I) <= y
    BY <1>3, <2>0, MinFacts
  <2>2. Max(I) \in I /\ \A y \in I : Max(I) >= y
    BY <1>3, <2>0, MaxFacts
  <2>3. first = Min(I) /\ last = Max(I)
    BY <1>3
  <2> HIDE DEF first, last
  <2>4. first \in 1..Len(s) /\ last \in 1..Len(s)
    BY <2>1, <2>2, <2>3
  <2>5. first <= last /\ s[first] \notin Blanks /\ s[last] \notin Blanks
    BY <2>1, <2>2, <2>3
  <2>6. \A k \in 1..Len(s) : k < first \/ k > last => s[k] \in Blanks
    BY <2>0, <2>1, <2>2, <2>3, <2>4
  <2>7. Trim(s) = SubSeq(s, first, last)
    BY <1>1, <2>4
  <2> QED
    BY <2>4, <2>5, <2>6, <2>7
<1> QED
  BY <1>2, <1>3

LEMMA PartFacts ==
  ASSUME NEW S, NEW s \in Seq(S),
         NEW i \in 1..(Len(s) + 1), NEW j \in (i - 1)..Len(s)
  PROVE  /\ SubSeq(s, i, j) \in Seq(S)
         /\ Len(SubSeq(s, i, j)) = j - i + 1
         /\ \A k \in 1..(j - i + 1) : SubSeq(s, i, j)[k] = s[i + k - 1]
<1>1. \A k \in i..j : s[k] \in S
  BY ElementOfSeq
<1>2. i \in Int /\ j \in Int /\ Len(s) \in Nat
  OBVIOUS
<1>3. IF i <= j THEN TRUE ELSE j - i + 1 = 0
  BY <1>2
<1> QED
  BY <1>1, <1>2, <1>3, SubSeqProperties

LEMMA RestFacts ==
  ASSUME NEW S, NEW s \in Seq(S), NEW i \in 1..(Len(s) + 1)
  PROVE  /\ From(s, i) \in Seq(S)
         /\ Len(From(s, i)) = Len(s) - i + 1
         /\ \A k \in 1..(Len(s) - i + 1) : From(s, i)[k] = s[i + k - 1]
<1>1. Len(s) \in (i - 1)..Len(s)
  OBVIOUS
<1> QED
  BY <1>1, PartFacts DEF From

LEMMA PartOfPart ==
  ASSUME NEW S, NEW s \in Seq(S),
         NEW i \in 1..(Len(s) + 1), NEW j \in (i - 1)..Len(s),
         NEW a \in 1..(j - i + 2), NEW b \in (a - 1)..(j - i + 1)
  PROVE  SubSeq(SubSeq(s, i, j), a, b) = SubSeq(s, i + a - 1, i + b - 1)
<1> DEFINE whole == SubSeq(s, i, j)
           one == SubSeq(whole, a, b)
           other == SubSeq(s, i + a - 1, i + b - 1)
<1>0. Len(s) \in Nat
  OBVIOUS
<1>1. /\ whole \in Seq(S) /\ Len(whole) = j - i + 1
      /\ \A k \in 1..(j - i + 1) : whole[k] = s[i + k - 1]
  BY PartFacts
<1>2. /\ one \in Seq(S) /\ Len(one) = b - a + 1
      /\ \A k \in 1..(b - a + 1) : one[k] = whole[a + k - 1]
  <2>1. a \in 1..(Len(whole) + 1) /\ b \in (a - 1)..Len(whole)
    BY <1>0, <1>1
  <2> HIDE DEF whole
  <2> QED
    BY <1>1, <2>1, PartFacts
<1>3. /\ other \in Seq(S) /\ Len(other) = b - a + 1
      /\ \A k \in 1..(b - a + 1) : other[k] = s[(i + a - 1) + k - 1]
  <2> DEFINE from == i + a - 1
             to == i + b - 1
  <2>1. /\ from \in 1..(Len(s) + 1) /\ to \in (from - 1)..Len(s)
        /\ to - from + 1 = b - a + 1
    BY <1>0
  <2> HIDE DEF from, to
  <2>2. /\ SubSeq(s, from, to) \in Seq(S) /\ Len(SubSeq(s, from, to)) = to - from + 1
        /\ \A k \in 1..(to - from + 1) : SubSeq(s, from, to)[k] = s[from + k - 1]
    BY <2>1, PartFacts
  <2>3. /\ SubSeq(s, from, to) \in Seq(S) /\ Len(SubSeq(s, from, to)) = b - a + 1
        /\ \A k \in 1..(b - a + 1) : SubSeq(s, from, to)[k] = s[from + k - 1]
    BY <2>1, <2>2
  <2> QED
    BY <2>3 DEF from, to
<1>4. \A k \in 1..(b - a + 1) :
         /\ a + k - 1 \in 1..(j - i + 1)
         /\ i + (a + k - 1) - 1 = (i + a - 1) + k - 1
  BY <1>0
<1>5. \A k \in 1..(b - a + 1) : one[k] = other[k]
  BY <1>1, <1>2, <1>3, <1>4
<1> HIDE DEF one, other
<1>6. one = other
  BY <1>2, <1>3, <1>5, SeqEqual
<1> QED
  BY <1>6 DEF one, other, whole

(* _trim keeps what Stands asks for.                                       *)
LEMMA TrimStands ==
  ASSUME NEW s \in Seq(Tokens)
  PROVE  Trim(s) \in Seq(Tokens) /\ Stands(Trim(s), s)
<1>0. Len(s) \in Nat
  OBVIOUS
<1>1. CASE (\A k \in 1..Len(s) : s[k] \in Blanks) /\ Trim(s) = <<>>
  <2> DEFINE part == Trim(s)
  <2>1. SubSeq(s, Len(s) + 1, Len(s)) = <<>>
    BY <1>0, SubSeqEmpty
  <2>2. part \in Seq(Tokens) /\ Len(part) = 0 /\ part = <<>>
    BY <1>1, EmptySeq
  <2>3. /\ Len(s) \in 0..Len(s) /\ 0 \in 0..Len(s)
        /\ Len(s) + Len(part) + 0 = Len(s)
        /\ Len(s) + Len(part) = Len(s)
    BY <1>0, <2>2
  <2>4. \A k \in DOMAIN s : s[k] \in Blanks
    BY <1>1
  <2>5. /\ Len(s) + Len(part) + 0 = Len(s)
        /\ SubSeq(s, Len(s) + 1, Len(s) + Len(part)) = part
        /\ \A k \in DOMAIN s :
              (k <= Len(s) \/ k > Len(s) + Len(part)) => s[k] \in Blanks
        /\ part # <<>> => {Head(part), Last(part)} \cap Blanks = {}
    BY <2>1, <2>2, <2>3, <2>4
  <2> HIDE DEF part
  <2>6. Stands(part, s)
    BY <2>3, <2>5 DEF Stands
  <2> QED
    BY <2>2, <2>6 DEF part
<1>2. ASSUME NEW i \in 1..Len(s), NEW j \in 1..Len(s),
             i <= j, s[i] \notin Blanks, s[j] \notin Blanks,
             \A k \in 1..Len(s) : k < i \/ k > j => s[k] \in Blanks,
             Trim(s) = SubSeq(s, i, j)
      PROVE  Trim(s) \in Seq(Tokens) /\ Stands(Trim(s), s)
  <2> DEFINE part == Trim(s)
  <2>1. /\ part \in Seq(Tokens) /\ Len(part) = j - i + 1
        /\ \A k \in 1..(j - i + 1) : part[k] = s[i + k - 1]
    <3>1. i \in 1..(Len(s) + 1) /\ j \in (i - 1)..Len(s)
      BY <1>0, <1>2
    <3> QED
      BY <1>2, <3>1, PartFacts
  <2>2. part[1] = s[i] /\ part[Len(part)] = s[j]
    <3>1. 1 \in 1..(j - i + 1) /\ j - i + 1 \in 1..(j - i + 1)
          /\ i + 1 - 1 = i /\ i + (j - i + 1) - 1 = j
      BY <1>2
    <3> QED
      BY <2>1, <3>1
  <2>3. Head(part) = s[i] /\ Last(part) = s[j]
    BY <2>1, <2>2 DEF Last
  <2>4. /\ i - 1 \in 0..Len(s) /\ Len(s) - j \in 0..Len(s)
        /\ (i - 1) + Len(part) + (Len(s) - j) = Len(s)
        /\ (i - 1) + 1 = i /\ (i - 1) + Len(part) = j
    BY <1>0, <2>1
  <2>5. \A k \in DOMAIN s : k <= i - 1 \/ k > j => s[k] \in Blanks
    BY <1>0, <1>2
  <2>6. {Head(part), Last(part)} \cap Blanks = {}
    BY <1>2, <2>3
  <2> QED
    BY <1>2, <2>1, <2>4, <2>5, <2>6 DEF Stands
<1> QED
  BY <1>1, <1>2, TrimFacts

(* A blank at the end of a text, as a line break, makes no difference to   *)
(* _trim.                                                                  *)
LEMMA TrimDropsBlank ==
  ASSUME NEW s \in Seq(Tokens), NEW t \in Seq(Tokens),
         Len(t) = Len(s) + 1, t[Len(t)] \in Blanks,
         \A k \in 1..Len(s) : t[k] = s[k]
  PROVE  Trim(t) = Trim(s)
<1>0. Len(s) \in Nat /\ Len(t) \in Nat
  OBVIOUS
<1>1. CASE (\A k \in 1..Len(t) : t[k] \in Blanks) /\ Trim(t) = <<>>
  <2>1. \A k \in 1..Len(s) : s[k] \in Blanks
    BY <1>0, <1>1
  <2> QED
    BY <1>1, <2>1, TrimFacts
<1>2. ASSUME NEW i \in 1..Len(t), NEW j \in 1..Len(t),
             i <= j, t[i] \notin Blanks, t[j] \notin Blanks,
             \A k \in 1..Len(t) : k < i \/ k > j => t[k] \in Blanks,
             Trim(t) = SubSeq(t, i, j)
      PROVE  Trim(t) = Trim(s)
  <2>1. j # Len(t)
    BY <1>2
  <2>2. i \in 1..Len(s) /\ j \in 1..Len(s)
    BY <1>0, <1>2, <2>1
  <2>3. /\ s[i] \notin Blanks /\ s[j] \notin Blanks
        /\ \A k \in 1..Len(s) : k < i \/ k > j => s[k] \in Blanks
    BY <1>0, <1>2, <2>2
  <2>4. PICK a, b \in 1..Len(s) :
            /\ a <= b /\ s[a] \notin Blanks /\ s[b] \notin Blanks
            /\ \A k \in 1..Len(s) : k < a \/ k > b => s[k] \in Blanks
            /\ Trim(s) = SubSeq(s, a, b)
    BY <2>2, <2>3, TrimFacts
  <2>5. a = i /\ b = j
    BY <1>0, <2>2, <2>3, <2>4
  <2>6. i \in 1..(Len(s) + 1) /\ j \in (i - 1)..Len(s)
        /\ i \in 1..(Len(t) + 1) /\ j \in (i - 1)..Len(t)
    BY <1>0, <1>2, <2>2
  <2>7. /\ SubSeq(s, i, j) \in Seq(Tokens) /\ SubSeq(t, i, j) \in Seq(Tokens)
        /\ Len(SubSeq(s, i, j)) = j - i + 1 /\ Len(SubSeq(t, i, j)) = j - i + 1
        /\ \A k \in 1..(j - i + 1) : SubSeq(s, i, j)[k] = s[i + k - 1]
        /\ \A k \in 1..(j - i + 1) : SubSeq(t, i, j)[k] = t[i + k - 1]
    BY <2>6, PartFacts
  <2>8. \A k \in 1..(j - i + 1) : i + k - 1 \in 1..Len(s)
    BY <1>0, <2>2
  <2>9. \A k \in 1..(j - i + 1) : SubSeq(s, i, j)[k] = SubSeq(t, i, j)[k]
    BY <2>7, <2>8
  <2>10. SubSeq(s, i, j) = SubSeq(t, i, j)
    BY <2>7, <2>9, SeqEqual
  <2> QED
    BY <1>2, <2>4, <2>5, <2>10
<1> QED
  BY <1>1, <1>2, TrimFacts

-----------------------------------------------------------------------------
(* The lines of the text, and what was told of those before a position.    *)

TextOf(l) == SubSeq(content, l[1], l[2])
Before(at) == {l \in HeaderLines : l[1] < at}

(* A loop stands at the beginning of a line or behind the last one.        *)
AtLine(at) ==
    /\ at \in 1..(Len(content) + 1)
    /\ at = 1 \/ at = Len(content) + 1 \/ content[at - 1] = "\n"

(* Where the line ends that begins at a position.                          *)
End(at) ==
    at + Past(From(content, at), Find("\n", From(content, at))) - 1

(* The headers told are those of the lines before the position, in order.  *)
Told(headers, at) ==
    /\ headers \in Seq(Headers)
    /\ Len(headers) = Cardinality(Before(at))
    /\ \A l \in Before(at) : /\ Place(l) \in 1..Len(headers)
                             /\ headers[Place(l)] = NameAndValue(TextOf(l))
    /\ \A n \in 1..Len(headers) : \E l \in Before(at) : Place(l) = n

LEMMA LinesFacts ==
  ASSUME content \in Seq(Tokens)
  PROVE  /\ \A l \in LinesAre :
               /\ l[1] \in 1..Len(content) /\ l[2] \in l[1]..Len(content)
               /\ l = <<l[1], l[2]>>
               /\ l[1] = 1 \/ content[l[1] - 1] = "\n"
               /\ l[2] = Len(content) \/ content[l[2]] = "\n"
               /\ \A k \in l[1]..(l[2] - 1) : content[k] # "\n"
         /\ HeaderLines \subseteq LinesAre
         /\ IsFiniteSet(HeaderLines)
<1> DEFINE P == 1..Len(content)
<1>0. Len(content) \in Nat
  OBVIOUS
<1>1. IsFiniteSet(P) /\ IsFiniteSet(P \X P)
  <2>1. IsFiniteSet(P)
    BY <1>0, FS_Interval
  <2> HIDE DEF P
  <2> QED
    BY <2>1, FS_Product
<1>2. HeaderLines \subseteq LinesAre
  BY DEF HeaderLines
<1>3. LinesAre \in SUBSET (P \X P)
  BY DEF LinesAre
<1>4. HeaderLines \in SUBSET (P \X P)
  BY <1>2, <1>3
<1>5. IsFiniteSet(HeaderLines)
  BY <1>1, <1>4, FS_Subset
<1>6. ASSUME NEW l \in LinesAre
      PROVE  /\ l[1] \in 1..Len(content) /\ l[2] \in l[1]..Len(content)
             /\ l = <<l[1], l[2]>>
             /\ l[1] = 1 \/ content[l[1] - 1] = "\n"
             /\ l[2] = Len(content) \/ content[l[2]] = "\n"
             /\ \A k \in l[1]..(l[2] - 1) : content[k] # "\n"
  BY <1>0 DEF LinesAre
<1> QED
  BY <1>2, <1>5, <1>6

(* The line a loop takes off the text.                                     *)
LEMMA LineFacts ==
  ASSUME content \in Seq(Tokens), NEW at, AtLine(at), at <= Len(content)
  PROVE  LET rest == From(content, at)
             e == Find("\n", rest)
         IN /\ rest \in Seq(Tokens) /\ rest # <<>>
            /\ End(at) \in at..Len(content)
            /\ at + Past(rest, e) = End(at) + 1
            /\ <<at, End(at)>> \in LinesAre
            /\ AtLine(End(at) + 1)
            /\ \/ /\ e = 0 /\ rest = TextOf(<<at, End(at)>>)
               \/ /\ e # 0 /\ content[End(at)] = "\n"
                  /\ SubSeq(rest, 1, e) = TextOf(<<at, End(at)>>)
                  /\ SubSeq(rest, 1, e - 1) = SubSeq(content, at, End(at) - 1)
<1> DEFINE n == Len(content)
           rest == From(content, at)
           e == Find("\n", rest)
<1>0. n \in Nat /\ at \in 1..n /\ (at = 1 \/ content[at - 1] = "\n")
      /\ at \in 1..(Len(content) + 1)
  BY DEF AtLine
<1>1. /\ rest \in Seq(Tokens) /\ Len(rest) = n - at + 1
      /\ \A k \in 1..(n - at + 1) : rest[k] = content[at + k - 1]
  BY <1>0, RestFacts
<1>2. rest # <<>>
  BY <1>0, <1>1, EmptySeq
<1>3. TextOf(<<at, End(at)>>) = SubSeq(content, at, End(at))
  BY DEF TextOf
<1>4. \/ /\ e = 0 /\ \A k \in 1..Len(rest) : rest[k] # "\n"
      \/ /\ e \in 1..Len(rest) /\ rest[e] = "\n"
         /\ \A k \in 1..(e - 1) : rest[k] # "\n"
  BY <1>1, FindFacts
<1>5. CASE e = 0
  <2>1. \A k \in 1..Len(rest) : rest[k] # "\n"
    BY <1>4, <1>5
  <2>2. End(at) = n /\ Past(rest, e) = n - at + 1
    BY <1>0, <1>1, <1>5 DEF End, Past
  <2>3. rest = SubSeq(content, at, n)
    BY DEF From
  <2>4. \A k \in at..(n - 1) : content[k] # "\n"
    <3> SUFFICES ASSUME NEW k \in at..(n - 1) PROVE content[k] # "\n"
      OBVIOUS
    <3>1. k - at + 1 \in 1..(n - at + 1) /\ at + (k - at + 1) - 1 = k
      BY <1>0
    <3> QED
      BY <1>1, <2>1, <3>1
  <2>5. <<at, n>> \in LinesAre
    BY <1>0, <2>4 DEF LinesAre
  <2>6. AtLine(n + 1)
    BY <1>0 DEF AtLine
  <2>7. n \in at..n /\ at + (n - at + 1) = n + 1
    BY <1>0
  <2> QED
    BY <1>1, <1>2, <1>3, <1>5, <2>2, <2>3, <2>5, <2>6, <2>7
<1>6. CASE e \in 1..Len(rest)
  <2> DEFINE end == at + e - 1
  <2>0. e # 0 /\ e \in 1..(n - at + 1) /\ end \in at..n
    BY <1>0, <1>1, <1>6
  <2>1. rest[e] = "\n" /\ \A k \in 1..(e - 1) : rest[k] # "\n"
    BY <1>4, <2>0
  <2>2. End(at) = end /\ Past(rest, e) = e
    BY <2>0 DEF End, Past
  <2>3. content[end] = "\n"
    BY <1>1, <2>0, <2>1
  <2>4. \A k \in at..(end - 1) : content[k] # "\n"
    <3> SUFFICES ASSUME NEW k \in at..(end - 1) PROVE content[k] # "\n"
      OBVIOUS
    <3>1. /\ k - at + 1 \in 1..(n - at + 1) /\ at + (k - at + 1) - 1 = k
          /\ k - at + 1 \in 1..(e - 1)
      BY <1>0, <2>0
    <3> QED
      BY <1>1, <2>1, <3>1
  <2>5. <<at, end>> \in LinesAre
    BY <1>0, <2>0, <2>3, <2>4 DEF LinesAre
  <2>6. AtLine(end + 1)
    BY <1>0, <2>0, <2>3 DEF AtLine
  <2>7. at + e = end + 1 /\ end - 1 = at + (e - 1) - 1
    BY <1>0, <2>0
  <2>8. SubSeq(rest, 1, e) = SubSeq(content, at, end)
    <3>1. /\ 1 \in 1..(n - at + 2) /\ e \in (1 - 1)..(n - at + 1)
          /\ at \in 1..(n + 1) /\ n \in (at - 1)..n
          /\ at + 1 - 1 = at
      BY <1>0, <2>0
    <3> QED
      BY <3>1, PartOfPart DEF From
  <2>9. SubSeq(rest, 1, e - 1) = SubSeq(content, at, end - 1)
    <3>1. /\ 1 \in 1..(n - at + 2) /\ e - 1 \in (1 - 1)..(n - at + 1)
          /\ at \in 1..(n + 1) /\ n \in (at - 1)..n
          /\ at + 1 - 1 = at /\ at + (e - 1) - 1 = end - 1
      BY <1>0, <2>0
    <3> HIDE DEF e
    <3>2. SubSeq(SubSeq(content, at, n), 1, e - 1) =
             SubSeq(content, at + 1 - 1, at + (e - 1) - 1)
      BY <3>1, PartOfPart
    <3>3. rest = SubSeq(content, at, n)
      BY DEF From
    <3> QED
      BY <3>1, <3>2, <3>3
  <2> QED
    BY <1>1, <1>2, <1>3, <2>0, <2>2, <2>3, <2>5, <2>6, <2>7, <2>8, <2>9
<1> QED
  BY <1>4, <1>5, <1>6

(* The loop goes on by one line, and tells its header if it has one.       *)
LEMMA AdvanceFacts ==
  ASSUME content \in Seq(Tokens), NEW at, AtLine(at), at <= Len(content),
         NEW headers, Told(headers, at), NEW after,
         <<at, End(at)>> \in HeaderLines =>
             /\ NameAndValue(TextOf(<<at, End(at)>>)) \in Headers
             /\ after = Append(headers, NameAndValue(TextOf(<<at, End(at)>>))),
         <<at, End(at)>> \notin HeaderLines => after = headers
  PROVE  Told(after, End(at) + 1)
<1> DEFINE l == <<at, End(at)>>
           header == NameAndValue(TextOf(l))
           count == Cardinality(Before(at))
<1>1. /\ End(at) \in at..Len(content) /\ l \in LinesAre
      /\ at \in 1..Len(content) /\ Len(content) \in Nat
  <2>1. at \in 1..Len(content) /\ Len(content) \in Nat
    BY DEF AtLine
  <2>2. End(at) \in at..Len(content) /\ <<at, End(at)>> \in LinesAre
    BY LineFacts
  <2> QED
    BY <2>1, <2>2
<1>2. ASSUME NEW m \in LinesAre, m[1] <= End(at)
      PROVE  m[1] < at \/ m = l
  <2>0. /\ m[1] \in 1..Len(content) /\ m[2] \in m[1]..Len(content)
        /\ m = <<m[1], m[2]>>
        /\ m[1] = 1 \/ content[m[1] - 1] = "\n"
        /\ m[2] = Len(content) \/ content[m[2]] = "\n"
        /\ \A k \in m[1]..(m[2] - 1) : content[k] # "\n"
    BY LinesFacts
  <2>1. /\ End(at) = Len(content) \/ content[End(at)] = "\n"
        /\ \A k \in at..(End(at) - 1) : content[k] # "\n"
    BY <1>1, LinesFacts
  <2>2. CASE m[1] > at
    <3>1. m[1] - 1 \in at..(End(at) - 1) /\ m[1] # 1
      BY <1>1, <1>2, <2>0, <2>2
    <3> QED
      BY <2>0, <2>1, <3>1
  <2>3. CASE m[1] = at
    <3>1. ~ (m[2] < End(at))
      <4> SUFFICES ASSUME m[2] < End(at) PROVE FALSE
        OBVIOUS
      <4>1. m[2] \in at..(End(at) - 1) /\ m[2] # Len(content)
        BY <1>1, <2>0, <2>3
      <4> QED
        BY <2>0, <2>1, <4>1
    <3>2. ~ (m[2] > End(at))
      <4> SUFFICES ASSUME m[2] > End(at) PROVE FALSE
        OBVIOUS
      <4>1. End(at) \in m[1]..(m[2] - 1) /\ End(at) # Len(content)
        BY <1>1, <2>0, <2>3
      <4> QED
        BY <2>0, <2>1, <4>1
    <3>3. m[2] = End(at)
      BY <1>1, <2>0, <3>1, <3>2
    <3> QED
      BY <2>0, <2>3, <3>3
  <2> QED
    BY <1>1, <2>0, <2>2, <2>3
<1>3. /\ HeaderLines \subseteq LinesAre /\ IsFiniteSet(HeaderLines)
      /\ \A m \in HeaderLines : m[1] \in Nat
  BY LinesFacts
<1>4. IsFiniteSet(Before(at)) /\ l \notin Before(at) /\ count \in Nat
  <2>1. Before(at) \in SUBSET HeaderLines
    BY DEF Before
  <2>2. IsFiniteSet(Before(at))
    BY <1>3, <2>1, FS_Subset
  <2>3. l[1] = at
    OBVIOUS
  <2> QED
    BY <1>1, <2>2, <2>3, FS_CardinalityType DEF Before
<1>5. Before(End(at) + 1) =
        IF l \in HeaderLines THEN Before(at) \cup {l} ELSE Before(at)
  <2>1. ASSUME NEW m \in HeaderLines
        PROVE  m[1] < End(at) + 1 <=> m[1] < at \/ m = l
    BY <1>1, <1>2, <1>3
  <2> QED
    BY <2>1 DEF Before
<1>6. CASE l \notin HeaderLines
  BY <1>5, <1>6 DEF Told
<1>7. CASE l \in HeaderLines
  <2>1. header \in Headers /\ after = Append(headers, header)
    BY <1>7
  <2>2. Before(End(at) + 1) = Before(at) \cup {l}
    BY <1>5, <1>7
  <2>3. Cardinality(Before(End(at) + 1)) = count + 1
    BY <1>4, <2>2, FS_AddElement
  <2>4. Place(l) = count + 1
    <3>1. {m \in HeaderLines : m[1] <= l[1]} = Before(at) \cup {l}
      <4>1. ASSUME NEW m \in HeaderLines
            PROVE  m[1] <= at <=> m[1] < at \/ m = l
        BY <1>1, <1>2, <1>3
      <4> QED
        BY <1>7, <4>1 DEF Before
    <3> QED
      BY <2>2, <2>3, <3>1 DEF Place
  <2>5. /\ headers \in Seq(Headers) /\ Len(headers) = count
        /\ \A m \in Before(at) : /\ Place(m) \in 1..count
                                 /\ headers[Place(m)] = NameAndValue(TextOf(m))
        /\ \A n \in 1..count : \E m \in Before(at) : Place(m) = n
    BY DEF Told
  <2> HIDE DEF header, l, count
  <2>6. /\ after \in Seq(Headers) /\ Len(after) = count + 1
        /\ \A n \in 1..count : after[n] = headers[n]
        /\ after[count + 1] = header
    BY <2>1, <2>5, AppendProperties
  <2>7. ASSUME NEW m \in Before(End(at) + 1)
        PROVE  /\ Place(m) \in 1..Len(after)
               /\ after[Place(m)] = NameAndValue(TextOf(m))
    <3>1. CASE m \in Before(at)
      BY <1>4, <2>5, <2>6, <3>1
    <3>2. CASE m = l
      BY <1>4, <2>4, <2>6, <3>2 DEF header
    <3> QED
      BY <2>2, <3>1, <3>2
  <2>8. ASSUME NEW n \in 1..Len(after)
        PROVE  \E m \in Before(End(at) + 1) : Place(m) = n
    <3>1. CASE n = count + 1
      BY <2>2, <2>4, <3>1
    <3>2. CASE n # count + 1
      <4>1. n \in 1..count
        BY <1>4, <2>6, <3>2
      <4> QED
        BY <2>2, <2>5, <4>1
    <3> QED
      BY <3>1, <3>2
  <2> QED
    BY <2>3, <2>6, <2>7, <2>8 DEF Told
<1> QED
  BY <1>6, <1>7

-----------------------------------------------------------------------------
(* The name and the value of a line.                                       *)

LEMMA NameAndValueFacts ==
  ASSUME NEW line \in Seq(Tokens), Find(":", line) # 0
  PROVE  LET at == Find(":", line)
         IN /\ NameAndValue(line) =
                  <<Trim(SubSeq(line, 1, at - 1)), Trim(From(line, at + 1))>>
            /\ NameAndValue(line) \in Headers
<1> DEFINE at == Find(":", line)
<1>1. at \in 1..Len(line) /\ Len(line) \in Nat
  BY FindFacts
<1>2. /\ 1 \in 1..(Len(line) + 1) /\ at - 1 \in (1 - 1)..Len(line)
      /\ at + 1 \in 1..(Len(line) + 1)
  BY <1>1
<1>3. SubSeq(line, 1, at - 1) \in Seq(Tokens) /\ From(line, at + 1) \in Seq(Tokens)
  BY <1>2, PartFacts, RestFacts
<1>4. NameAndValue(line) =
         <<Trim(SubSeq(line, 1, at - 1)), Trim(From(line, at + 1))>>
  BY DEF NameAndValue
<1>5. /\ Trim(SubSeq(line, 1, at - 1)) \in Seq(Tokens)
      /\ Trim(From(line, at + 1)) \in Seq(Tokens)
  BY <1>3, TrimStands
<1> QED
  BY <1>4, <1>5 DEF Headers

(* A line break at the end of the line changes neither.                    *)
LEMMA BreakIsNoMatter ==
  ASSUME NEW line \in Seq(Tokens), NEW broken \in Seq(Tokens),
         Len(broken) = Len(line) + 1, broken[Len(broken)] = "\n",
         \A k \in 1..Len(line) : broken[k] = line[k]
  PROVE  /\ Find(":", line) = Find(":", broken)
         /\ Find(":", line) # 0 => NameAndValue(line) = NameAndValue(broken)
<1> DEFINE at == Find(":", line)
<1>0. Len(line) \in Nat /\ Len(broken) \in Nat
  OBVIOUS
<1>1. \/ at = 0 /\ \A k \in 1..Len(line) : line[k] # ":"
      \/ /\ at \in 1..Len(line) /\ line[at] = ":"
         /\ \A k \in 1..(at - 1) : line[k] # ":"
  BY FindFacts
<1>2. \/ Find(":", broken) = 0 /\ \A k \in 1..Len(broken) : broken[k] # ":"
      \/ /\ Find(":", broken) \in 1..Len(broken)
         /\ broken[Find(":", broken)] = ":"
         /\ \A k \in 1..(Find(":", broken) - 1) : broken[k] # ":"
  BY FindFacts
<1>3. at = Find(":", broken)
  <2>1. CASE Find(":", broken) = 0
    BY <1>0, <1>1, <1>2, <2>1
  <2>2. CASE Find(":", broken) \in 1..Len(broken)
    <3> DEFINE f == Find(":", broken)
    <3>0. /\ f \in 1..Len(broken) /\ broken[f] = ":"
          /\ \A k \in 1..(f - 1) : broken[k] # ":"
      BY <1>2, <2>2
    <3> HIDE DEF f
    <3>1. f \in 1..Len(line)
      BY <1>0, <3>0
    <3>2. line[f] = ":" /\ \A k \in 1..(f - 1) : line[k] # ":"
      BY <1>0, <3>0, <3>1
    <3>3. at \in 1..Len(line) /\ line[at] = ":"
          /\ \A k \in 1..(at - 1) : line[k] # ":"
      BY <1>1, <3>1, <3>2
    <3> HIDE DEF at
    <3>4. at = f
      BY <3>1, <3>2, <3>3
    <3> QED
      BY <3>4 DEF f, at
  <2> QED
    BY <1>2, <2>1, <2>2
<1>4. ASSUME at # 0 PROVE NameAndValue(line) = NameAndValue(broken)
  <2>0. at \in 1..Len(line)
    BY <1>1, <1>4
  <2>1. SubSeq(line, 1, at - 1) = SubSeq(broken, 1, at - 1)
    <3> DEFINE a == SubSeq(line, 1, at - 1)
               b == SubSeq(broken, 1, at - 1)
    <3>1. /\ 1 \in 1..(Len(line) + 1) /\ at - 1 \in (1 - 1)..Len(line)
          /\ 1 \in 1..(Len(broken) + 1) /\ at - 1 \in (1 - 1)..Len(broken)
          /\ (at - 1) - 1 + 1 = at - 1
          /\ \A k \in 1..(at - 1) : 1 + k - 1 = k /\ k \in 1..Len(line)
      BY <1>0, <2>0
    <3>2. /\ a \in Seq(Tokens) /\ Len(a) = at - 1
          /\ \A k \in 1..(at - 1) : a[k] = line[1 + k - 1]
      BY <3>1, PartFacts
    <3>3. /\ b \in Seq(Tokens) /\ Len(b) = at - 1
          /\ \A k \in 1..(at - 1) : b[k] = broken[1 + k - 1]
      BY <3>1, PartFacts
    <3>4. \A k \in 1..(at - 1) : a[k] = b[k]
      BY <3>1, <3>2, <3>3
    <3> HIDE DEF a, b
    <3>5. a = b
      BY <3>2, <3>3, <3>4, SeqEqual
    <3> QED
      BY <3>5 DEF a, b
  <2>2. Trim(From(broken, at + 1)) = Trim(From(line, at + 1))
    <3> DEFINE a == From(line, at + 1)
               b == From(broken, at + 1)
               n == Len(line) - at
    <3> HIDE DEF at
    <3>1. /\ at + 1 \in 1..(Len(line) + 1) /\ at + 1 \in 1..(Len(broken) + 1)
          /\ Len(line) - (at + 1) + 1 = n
          /\ Len(broken) - (at + 1) + 1 = n + 1
          /\ n \in Nat /\ n + 1 \in 1..(n + 1)
          /\ (at + 1) + (n + 1) - 1 = Len(broken)
          /\ \A k \in 1..n : (at + 1) + k - 1 \in 1..Len(line) /\ k \in 1..(n + 1)
      BY <1>0, <2>0
    <3>2. /\ a \in Seq(Tokens) /\ Len(a) = n
          /\ \A k \in 1..n : a[k] = line[(at + 1) + k - 1]
      BY <3>1, RestFacts
    <3>3. /\ b \in Seq(Tokens) /\ Len(b) = n + 1
          /\ \A k \in 1..(n + 1) : b[k] = broken[(at + 1) + k - 1]
      BY <3>1, RestFacts
    <3>4. b[n + 1] \in Blanks
      BY <3>1, <3>3 DEF Blanks
    <3>5. \A k \in 1..n : b[k] = a[k]
      BY <3>1, <3>2, <3>3
    <3> HIDE DEF a, b, n
    <3>6. Trim(b) = Trim(a)
      BY <3>2, <3>3, <3>4, <3>5, TrimDropsBlank
    <3> QED
      BY <3>6 DEF a, b
  <2> QED
    BY <1>3, <1>4, <2>1, <2>2, NameAndValueFacts
<1> QED
  BY <1>3, <1>4

(* The separator of a line, where Find and where Colon see it.             *)
LEMMA ColonFacts ==
  ASSUME content \in Seq(Tokens), NEW l \in LinesAre
  PROVE  LET at == Find(":", TextOf(l))
         IN /\ TextOf(l) \in Seq(Tokens)
            /\ at # 0 <=> \E k \in l[1]..l[2] : content[k] = ":"
            /\ at # 0 =>
                 /\ SubSeq(TextOf(l), 1, at - 1) = SubSeq(content, l[1], Colon(l) - 1)
                 /\ From(TextOf(l), at + 1) = SubSeq(content, Colon(l) + 1, l[2])
<1> DEFINE i == l[1]
           j == l[2]
           text == TextOf(l)
           at == Find(":", text)
<1>0. /\ Len(content) \in Nat /\ i \in 1..Len(content) /\ j \in i..Len(content)
      /\ i \in 1..(Len(content) + 1) /\ j \in (i - 1)..Len(content)
      /\ i \in Int /\ j \in Int /\ i <= j
  <2>1. /\ Len(content) \in Nat /\ i \in 1..Len(content) /\ j \in i..Len(content)
    BY LinesFacts
  <2> HIDE DEF i, j
  <2> QED
    BY <2>1
<1>1. /\ text \in Seq(Tokens) /\ Len(text) = j - i + 1
      /\ \A k \in 1..(j - i + 1) : text[k] = content[i + k - 1]
  BY <1>0, PartFacts DEF TextOf
<1>2. \/ at = 0 /\ \A k \in 1..Len(text) : text[k] # ":"
      \/ /\ at \in 1..Len(text) /\ text[at] = ":"
         /\ \A k \in 1..(at - 1) : text[k] # ":"
  BY <1>1, FindFacts
<1>3. text = SubSeq(content, i, j)
  BY DEF TextOf
<1> HIDE DEF text, at, i, j
<1>4. \A k \in i..j : content[k] = text[k - i + 1]
  <2> SUFFICES ASSUME NEW k \in i..j PROVE content[k] = text[k - i + 1]
    OBVIOUS
  <2>1. k - i + 1 \in 1..(j - i + 1) /\ i + (k - i + 1) - 1 = k
    BY <1>0
  <2> QED
    BY <1>1, <2>1
<1>5. CASE at = 0
  <2>1. \A k \in i..j : content[k] # ":"
    <3> SUFFICES ASSUME NEW k \in i..j PROVE content[k] # ":"
      OBVIOUS
    <3>1. k - i + 1 \in 1..Len(text)
      BY <1>0, <1>1
    <3>2. text[k - i + 1] # ":"
      <4>1. ~ (at \in 1..Len(text))
        BY <1>5
      <4> QED
        BY <1>2, <3>1, <4>1
    <3> QED
      BY <1>4, <3>2
  <2> QED
    BY <1>1, <1>5, <2>1 DEF text, at, i, j
<1>6. CASE at \in 1..Len(text)
  <2> DEFINE colon == i + at - 1
  <2>0. at # 0 /\ at \in 1..(j - i + 1) /\ at \in Int /\ colon \in i..j
    BY <1>0, <1>1, <1>6
  <2>1. text[at] = ":" /\ \A k \in 1..(at - 1) : text[k] # ":"
    BY <1>2, <2>0
  <2>2. content[colon] = ":"
    BY <1>1, <2>0, <2>1
  <2>3. \A k \in i..(colon - 1) : content[k] # ":"
    <3> SUFFICES ASSUME NEW k \in i..(colon - 1) PROVE content[k] # ":"
      OBVIOUS
    <3>1. k \in i..j /\ k - i + 1 \in 1..(at - 1)
      BY <1>0, <2>0
    <3> QED
      BY <1>4, <2>1, <3>1
  <2>4. Colon(l) = colon
    <3> HIDE DEF colon
    <3>1. ASSUME NEW k \in i..j, content[k] = ":",
                 \A m \in i..(k - 1) : content[m] # ":"
          PROVE  k = colon
      <4>1. ~ (k < colon)
        BY <1>0, <2>0, <2>3, <3>1
      <4>2. ~ (colon < k)
        BY <1>0, <2>0, <2>2, <3>1
      <4> QED
        BY <1>0, <2>0, <4>1, <4>2
    <3>2. Colon(l) = CHOOSE k \in i..j : content[k] = ":" /\
                        \A m \in i..(k - 1) : content[m] # ":"
      BY DEF Colon, i, j
    <3> QED
      BY <2>0, <2>2, <2>3, <3>1, <3>2
  <2>5. SubSeq(text, 1, at - 1) = SubSeq(content, i, colon - 1)
    <3>1. /\ 1 \in 1..(j - i + 2) /\ at - 1 \in (1 - 1)..(j - i + 1)
          /\ i + 1 - 1 = i /\ i + (at - 1) - 1 = colon - 1
      BY <1>0, <2>0
    <3>2. SubSeq(SubSeq(content, i, j), 1, at - 1) =
             SubSeq(content, i + 1 - 1, i + (at - 1) - 1)
      BY <1>0, <3>1, PartOfPart
    <3> QED
      BY <1>3, <3>1, <3>2
  <2>6. From(text, at + 1) = SubSeq(content, colon + 1, j)
    <3> DEFINE a == at + 1
               b == j - i + 1
    <3>1. /\ a \in 1..(j - i + 2) /\ b \in (a - 1)..(j - i + 1)
          /\ i + a - 1 = colon + 1 /\ i + b - 1 = j
      BY <1>0, <2>0
    <3> HIDE DEF a, b
    <3>2. SubSeq(SubSeq(content, i, j), a, b) =
             SubSeq(content, i + a - 1, i + b - 1)
      BY <1>0, <3>1, PartOfPart
    <3>3. Len(text) = b
      BY <1>1 DEF b
    <3> QED
      BY <1>3, <3>1, <3>2, <3>3 DEF From, a
  <2> HIDE DEF colon
  <2> QED
    BY <1>1, <2>0, <2>2, <2>4, <2>5, <2>6 DEF text, at, i, j
<1> QED
  BY <1>2, <1>5, <1>6

-----------------------------------------------------------------------------
(* The invariant.                                                          *)

CurlInv == AtLine(curl.at) /\ Told(curl.headers, curl.at)

(* Where the loops may part, in a text with a status line or a NUL, they   *)
(* are not compared; the fetch loop stays within its text all the same.    *)
Comparable == StatusLines = {} /\ Find("NUL", content) = 0

FetchInv ==
    /\ fetch.at <= Len(FetchText) + 1
    /\ Comparable => AtLine(fetch.at) /\ Told(fetch.headers, fetch.at)

IInv == TypeOK /\ TrapIsNeverReached /\ CurlInv /\ FetchInv

LEMMA FetchTextFacts ==
  ASSUME content \in Seq(Tokens)
  PROVE  /\ FetchText \in Seq(Tokens)
         /\ Len(FetchText) \in Nat /\ Len(FetchText) <= Len(content)
         /\ Find("NUL", content) = 0 => FetchText = content
<1> DEFINE at == Find("NUL", content)
<1>1. at = 0 \/ at \in 1..Len(content)
  BY FindFacts
<1>2. CASE at = 0
  BY <1>2 DEF FetchText
<1>3. CASE at \in 1..Len(content)
  <2> HIDE DEF at
  <2>1. 1 \in 1..(Len(content) + 1) /\ at - 1 \in (1 - 1)..Len(content)
    BY <1>3
  <2>2. /\ SubSeq(content, 1, at - 1) \in Seq(Tokens)
        /\ Len(SubSeq(content, 1, at - 1)) = (at - 1) - 1 + 1
    BY <2>1, PartFacts
  <2>3. FetchText = SubSeq(content, 1, at - 1) /\ at # 0
    BY <1>3 DEF FetchText, at
  <2>4. at # 0 /\ (at - 1) - 1 + 1 <= Len(content)
    BY <1>3
  <2> QED
    BY <2>2, <2>3, <2>4 DEF at
<1> QED
  BY <1>1, <1>2, <1>3

(* A reader's headers grow by the line's, if it has one.                   *)
LEMMA WithHeaderFacts ==
  ASSUME NEW line \in Seq(Tokens), NEW reader,
         reader.headers \in Seq(Headers)
  PROVE  /\ Find(":", line) = 0 => WithHeader(reader, line) = reader
         /\ Find(":", line) # 0 =>
              /\ WithHeader(reader, line) =
                    [reader EXCEPT !.headers = Append(@, NameAndValue(line))]
              /\ NameAndValue(line) \in Headers
              /\ Append(reader.headers, NameAndValue(line)) \in Seq(Headers)
<1>1. Find(":", line) # 0 => NameAndValue(line) \in Headers
  BY NameAndValueFacts
<1> QED
  BY <1>1, AppendProperties DEF WithHeader

(* What the fields of a reader are after a field of it is written.         *)
LEMMA HeadersFacts ==
  ASSUME NEW Places, NEW hs \in Seq(Headers),
         NEW c \in [at : Places, headers : Seq(Headers),
                    status : Nat, reported : BOOLEAN]
  PROVE  LET d == [c EXCEPT !.headers = hs]
         IN /\ d \in [at : Places, headers : Seq(Headers),
                      status : Nat, reported : BOOLEAN]
            /\ d.at = c.at /\ d.headers = hs
            /\ d.status = c.status /\ d.reported = c.reported
OBVIOUS

LEMMA StatusFacts ==
  ASSUME NEW Places, NEW code \in Nat,
         NEW c \in [at : Places, headers : Seq(Headers),
                    status : Nat, reported : BOOLEAN]
  PROVE  LET d == [c EXCEPT !.status = code, !.reported = TRUE]
         IN /\ d \in [at : Places, headers : Seq(Headers),
                      status : Nat, reported : BOOLEAN]
            /\ d.at = c.at /\ d.headers = c.headers /\ d.status = code
OBVIOUS

LEMMA StatusCodeFacts ==
  ASSUME NEW line, StatusCode(line) # {}
  PROVE  (CHOOSE n \in StatusCode(line) : TRUE) \in 100..999
<1>1. StatusCode(line) \subseteq 100..999
  <2> DEFINE numbers == {Number(digits) : digits \in {Digits(Field(line))} \ {<<>>}}
  <2>1. StatusCode(line) = IF Find(" ", line) = 0 THEN {} ELSE numbers \cap 100..999
    BY DEF StatusCode
  <2> HIDE DEF numbers
  <2>2. StatusCode(line) = numbers \cap 100..999
    BY <2>1
  <2> QED
    BY <2>2
<1> QED
  BY <1>1

(* A step leaves the text and so its lines.                                *)
LEMMA LinesAreKept ==
  ASSUME content' = content
  PROVE  /\ StatusLines' = StatusLines /\ LinesAre' = LinesAre
         /\ HeaderLines' = HeaderLines
         /\ FetchText' = FetchText
<1>1. StatusLines' = StatusLines
  BY DEF StatusLines
<1>2. LinesAre' = LinesAre
  BY DEF LinesAre
<1>3. HeaderLines' = HeaderLines
  BY <1>1, <1>2 DEF HeaderLines
<1>4. FetchText' = FetchText
  BY DEF FetchText
<1> QED
  BY <1>1, <1>2, <1>3, <1>4

LEMMA ToldIsKept ==
  ASSUME content' = content
  PROVE  /\ AtLine(curl'.at) /\ Told(curl'.headers, curl'.at) => CurlInv'
         /\ AtLine(fetch'.at) /\ Told(fetch'.headers, fetch'.at) =>
               (AtLine(fetch.at) /\ Told(fetch.headers, fetch.at))'
<1>1. HeaderLines' = HeaderLines
  BY LinesAreKept
<1> QED
  BY <1>1 DEF CurlInv, AtLine, Told, Before, Place, TextOf

-----------------------------------------------------------------------------
(* The steps.                                                              *)

LEMMA InitInv == Init => IInv
<1> SUFFICES ASSUME Init PROVE IInv
  OBVIOUS
<1>1. content \in Seq(Tokens) /\ Len(content) \in Nat /\ Len(content) <= MaximumLength
  <2>1. PICK m \in 0..MaximumLength : content \in [1..m -> Tokens]
    BY DEF Init, Texts, BoundedSeq, SeqOf
  <2>2. m \in Nat /\ m <= MaximumLength
    BY <2>1, MaximumLengthAssumption
  <2> QED
    BY <2>1, <2>2
<1>2. <<>> \in Seq(Headers) /\ Len(<<>>) = 0
  BY EmptySeq
<1>3. 1 \in 1..(Len(content) + 1)
  BY <1>1
<1>4. TypeOK
  BY <1>1, <1>2, <1>3 DEF TypeOK, Init
<1>5. AtLine(1) /\ Told(<<>>, 1)
  <2>1. Before(1) = {}
    BY <1>1, LinesFacts DEF Before
  <2>2. Cardinality(Before(1)) = 0
    BY <2>1, FS_EmptySet
  <2> QED
    BY <1>2, <1>3, <2>1, <2>2 DEF AtLine, Told
<1>6. 1 <= Len(FetchText) + 1
  BY <1>1, FetchTextFacts
<1> QED
  BY <1>4, <1>5, <1>6 DEF Init, IInv, TrapIsNeverReached, CurlInv, FetchInv

LEMMA CurlStep ==
  ASSUME IInv, CurlLine
  PROVE  IInv'
<1> DEFINE at == curl.at
           rest == From(content, at)
           e == Find("\n", rest)
           line == IF e = 0 THEN rest ELSE SubSeq(rest, 1, e)
           l == <<at, End(at)>>
           read == ReceiveResponseHeader(curl, line)
<1>0. /\ content \in Seq(Tokens) /\ Len(content) \in Nat
      /\ Len(content) <= MaximumLength
      /\ curl \in [at : 1..(Len(content) + 1), headers : Seq(Headers),
                   status : Nat, reported : BOOLEAN]
      /\ fetch \in [at : 1..(Len(content) + 1), headers : Seq(Headers)]
      /\ AtLine(at) /\ Told(curl.headers, at)
  BY DEF IInv, TypeOK, CurlInv
<1>1. /\ rest # <<>>
      /\ curl' = [read EXCEPT !.at = @ + Past(rest, e)]
      /\ content' = content /\ fetch' = fetch
  BY DEF CurlLine
<1>2. at \in 1..Len(content)
  <2>1. at # Len(content) + 1
    <3> SUFFICES ASSUME at = Len(content) + 1 PROVE FALSE
      OBVIOUS
    <3>1. /\ rest \in Seq(Tokens) /\ Len(rest) = 0
      BY <1>0, RestFacts
    <3> QED
      BY <1>1, <3>1, EmptySeq
  <2> QED
    BY <1>0, <2>1
<1>3. /\ rest \in Seq(Tokens)
      /\ End(at) \in at..Len(content)
      /\ at + Past(rest, e) = End(at) + 1
      /\ l \in LinesAre /\ AtLine(End(at) + 1)
      /\ line = TextOf(l)
  <2>1. at <= Len(content)
    BY <1>0, <1>2
  <2> QED
    BY <1>0, <2>1, LineFacts
<1>4. /\ line \in Seq(Tokens)
      /\ Find(":", line) # 0 <=> \E k \in at..End(at) : content[k] = ":"
      /\ Head(line) = content[at]
  <2>1. l[1] = at /\ l[2] = End(at)
    OBVIOUS
  <2>2. /\ TextOf(l) \in Seq(Tokens)
        /\ Find(":", TextOf(l)) # 0 <=> \E k \in l[1]..l[2] : content[k] = ":"
    BY <1>0, <1>3, ColonFacts
  <2>3. Head(TextOf(l)) = content[at]
    <3>1. Head(SubSeq(content, at, End(at))) = content[at]
      BY <1>0, <1>2, <1>3, HeadTailOfSubSeq
    <3> QED
      BY <2>1, <3>1 DEF TextOf
  <2>4. line = TextOf(l)
    BY <1>3
  <2> HIDE DEF line, l
  <2> QED
    BY <2>1, <2>2, <2>3, <2>4
<1>5. l \in HeaderLines <=> Head(line) # "HTTP/" /\ Find(":", line) # 0
  <2>1. at \in StatusLines <=> content[at] = "HTTP/"
    BY <1>0, <1>2 DEF StatusLines, AtLine
  <2>2. l[1] = at /\ l[2] = End(at)
    OBVIOUS
  <2> QED
    BY <1>3, <1>4, <2>1, <2>2 DEF HeaderLines
<1> DEFINE header == NameAndValue(line)
<1> HIDE DEF line, read
<1>6. /\ read \in [at : 1..(Len(content) + 1), headers : Seq(Headers),
                   status : Nat, reported : BOOLEAN]
      /\ read.at = at
      /\ read.reported => read.status \in 100..999
      /\ l \in HeaderLines => /\ NameAndValue(line) \in Headers
                              /\ read.headers = Append(curl.headers, NameAndValue(line))
      /\ l \notin HeaderLines => read.headers = curl.headers
  <2>0. curl.reported => curl.status \in 100..999
    BY DEF IInv, TrapIsNeverReached
  <2>1. CASE Head(line) # "HTTP/"
    <3>1. read = WithHeader(curl, line)
      BY <2>1 DEF ReceiveResponseHeader, read
    <3>2. CASE Find(":", line) = 0
      BY <1>0, <1>5, <2>0, <3>1, <3>2 DEF WithHeader
    <3>3. CASE Find(":", line) # 0
      <4>1. /\ NameAndValue(line) \in Headers
            /\ Append(curl.headers, NameAndValue(line)) \in Seq(Headers)
            /\ read = [curl EXCEPT !.headers = Append(@, NameAndValue(line))]
        BY <1>0, <1>4, <3>1, <3>3, WithHeaderFacts
      <4> DEFINE hs == Append(curl.headers, header)
      <4>2. header \in Headers /\ hs \in Seq(Headers)
        BY <4>1
      <4>3. read = [curl EXCEPT !.headers = hs]
        BY <4>1
      <4> HIDE DEF header, hs
      <4>4. /\ read \in [at : 1..(Len(content) + 1), headers : Seq(Headers),
                         status : Nat, reported : BOOLEAN]
            /\ read.at = at /\ read.headers = hs
            /\ read.reported = curl.reported /\ read.status = curl.status
        BY <1>0, <4>2, <4>3, HeadersFacts
      <4> QED
        BY <1>5, <2>0, <2>1, <3>3, <4>2, <4>4 DEF header, hs
    <3> QED
      BY <3>2, <3>3
  <2>2. CASE Head(line) = "HTTP/" /\ StatusCode(line) = {}
    BY <1>0, <1>5, <2>0, <2>2 DEF ReceiveResponseHeader, read
  <2>3. CASE Head(line) = "HTTP/" /\ StatusCode(line) # {}
    <3> DEFINE code == CHOOSE n \in StatusCode(line) : TRUE
    <3>1. code \in 100..999
      BY <2>3, StatusCodeFacts
    <3>2. read = [curl EXCEPT !.status = code, !.reported = TRUE]
      BY <2>3 DEF ReceiveResponseHeader, read
    <3> HIDE DEF code
    <3>3. /\ read \in [at : 1..(Len(content) + 1), headers : Seq(Headers),
                       status : Nat, reported : BOOLEAN]
          /\ read.at = at /\ read.headers = curl.headers
          /\ read.status \in 100..999
      <4>1. code \in Nat
        BY <3>1
      <4> DEFINE d == [curl EXCEPT !.status = code, !.reported = TRUE]
      <4>2. /\ d \in [at : 1..(Len(content) + 1), headers : Seq(Headers),
                      status : Nat, reported : BOOLEAN]
            /\ d.at = at /\ d.headers = curl.headers /\ d.status = code
        BY <1>0, <4>1, StatusFacts
      <4> HIDE DEF d
      <4> QED
        BY <3>1, <3>2, <4>2 DEF d
    <3> QED
      BY <1>5, <2>3, <3>3
  <2> QED
    BY <2>1, <2>2, <2>3
<1>7. /\ curl' \in [at : 1..(Len(content) + 1), headers : Seq(Headers),
                    status : Nat, reported : BOOLEAN]
      /\ curl'.at = End(at) + 1
      /\ curl'.headers = read.headers
      /\ curl'.reported = read.reported /\ curl'.status = read.status
  <2>1. curl' = [read EXCEPT !.at = End(at) + 1]
    BY <1>1, <1>3, <1>6
  <2>2. End(at) + 1 \in 1..(Len(content) + 1)
    BY <1>3 DEF AtLine
  <2> QED
    BY <1>6, <2>1, <2>2
<1>8. Told(curl'.headers, End(at) + 1)
  <2>1. at <= Len(content)
    BY <1>0, <1>2
  <2>2. line = TextOf(<<at, End(at)>>)
    BY <1>3
  <2> QED
    BY <1>0, <1>6, <1>7, <2>1, <2>2, AdvanceFacts
<1>9. TypeOK'
  BY <1>0, <1>1, <1>7 DEF TypeOK
<1>10. TrapIsNeverReached'
  BY <1>6, <1>7 DEF TrapIsNeverReached
<1>11. CurlInv'
  BY <1>1, <1>3, <1>7, <1>8, ToldIsKept
<1>12. FetchInv'
  <2>1. /\ fetch'.at <= Len(FetchText') + 1
    BY <1>1, LinesAreKept DEF IInv, FetchInv
  <2>2. Comparable' = Comparable
    BY <1>1, LinesAreKept DEF Comparable
  <2>3. Comparable => AtLine(fetch'.at) /\ Told(fetch'.headers, fetch'.at)
    BY <1>1 DEF IInv, FetchInv
  <2> QED
    BY <1>1, <2>1, <2>2, <2>3, ToldIsKept DEF FetchInv
<1> QED
  BY <1>9, <1>10, <1>11, <1>12 DEF IInv

(* A part of a text and the same part with one token more.                 *)
LEMMA OneTokenMore ==
  ASSUME NEW S, NEW s \in Seq(S), NEW i \in 1..Len(s), NEW j \in i..Len(s)
  PROVE  /\ SubSeq(s, i, j - 1) \in Seq(S) /\ SubSeq(s, i, j) \in Seq(S)
         /\ Len(SubSeq(s, i, j)) = Len(SubSeq(s, i, j - 1)) + 1
         /\ SubSeq(s, i, j)[Len(SubSeq(s, i, j))] = s[j]
         /\ \A k \in 1..Len(SubSeq(s, i, j - 1)) :
               SubSeq(s, i, j)[k] = SubSeq(s, i, j - 1)[k]
<1>1. /\ i \in 1..(Len(s) + 1) /\ j \in (i - 1)..Len(s)
      /\ j - 1 \in (i - 1)..Len(s) /\ (j - 1) - i + 1 = j - i
      /\ j - i + 1 \in 1..(j - i + 1) /\ i + (j - i + 1) - 1 = j
      /\ \A k \in 1..(j - i) : k \in 1..(j - i + 1)
  OBVIOUS
<1>2. /\ SubSeq(s, i, j) \in Seq(S) /\ Len(SubSeq(s, i, j)) = j - i + 1
      /\ \A k \in 1..(j - i + 1) : SubSeq(s, i, j)[k] = s[i + k - 1]
  BY <1>1, PartFacts
<1>3. /\ SubSeq(s, i, j - 1) \in Seq(S) /\ Len(SubSeq(s, i, j - 1)) = j - i
      /\ \A k \in 1..(j - i) : SubSeq(s, i, j - 1)[k] = s[i + k - 1]
  BY <1>1, PartFacts
<1> QED
  BY <1>1, <1>2, <1>3

LEMMA FetchStep ==
  ASSUME IInv, FetchLine
  PROVE  IInv'
<1> DEFINE at == fetch.at
           rest == From(FetchText, at)
           e == Find("\n", rest)
           line == IF e = 0 THEN rest ELSE SubSeq(rest, 1, e - 1)
           read == WithHeader(fetch, line)
           header == NameAndValue(line)
<1>0. /\ content \in Seq(Tokens) /\ Len(content) \in Nat
      /\ Len(content) <= MaximumLength
      /\ curl \in [at : 1..(Len(content) + 1), headers : Seq(Headers),
                   status : Nat, reported : BOOLEAN]
      /\ fetch \in [at : 1..(Len(content) + 1), headers : Seq(Headers)]
      /\ at \in 1..(Len(content) + 1) /\ fetch.headers \in Seq(Headers)
      /\ FetchText \in Seq(Tokens) /\ Len(FetchText) \in Nat
      /\ Len(FetchText) <= Len(content) /\ at <= Len(FetchText) + 1
  BY FetchTextFacts DEF IInv, TypeOK, FetchInv
<1>1. /\ rest # <<>>
      /\ fetch' = [read EXCEPT !.at = @ + Past(rest, e)]
      /\ content' = content /\ curl' = curl
  BY DEF FetchLine
<1>2. /\ rest \in Seq(Tokens) /\ Len(rest) = Len(FetchText) - at + 1
      /\ Len(rest) \in Nat \ {0}
  <2>1. at \in 1..(Len(FetchText) + 1)
    BY <1>0
  <2>2. rest \in Seq(Tokens) /\ Len(rest) = Len(FetchText) - at + 1
    BY <1>0, <2>1, RestFacts
  <2> QED
    BY <1>1, <2>2, EmptySeq
<1>3. /\ Past(rest, e) \in 1..Len(rest)
      /\ line \in Seq(Tokens)
  <2>1. e = 0 \/ e \in 1..Len(rest)
    BY <1>2, FindFacts
  <2>2. Past(rest, e) \in 1..Len(rest)
    <3> HIDE DEF e, rest
    <3> QED
      BY <1>2, <2>1 DEF Past
  <2>3. CASE e = 0
    BY <1>2, <2>2, <2>3
  <2>4. CASE e \in 1..Len(rest)
    <3> HIDE DEF e, rest
    <3>1. e # 0 /\ 1 \in 1..(Len(rest) + 1) /\ e - 1 \in (1 - 1)..Len(rest)
      BY <1>2, <2>4
    <3>2. SubSeq(rest, 1, e - 1) \in Seq(Tokens)
      BY <1>2, <3>1, PartFacts
    <3> QED
      BY <2>2, <3>1, <3>2
  <2> QED
    BY <2>1, <2>3, <2>4
<1> HIDE DEF line, read, header
<1>4. /\ read \in [at : 1..(Len(content) + 1), headers : Seq(Headers)]
      /\ read.at = at
      /\ Find(":", line) = 0 => read.headers = fetch.headers
      /\ Find(":", line) # 0 => /\ header \in Headers
                               /\ read.headers = Append(fetch.headers, header)
  <2>1. CASE Find(":", line) = 0
    BY <1>0, <2>1 DEF read, WithHeader
  <2>2. CASE Find(":", line) # 0
    <3> DEFINE hs == Append(fetch.headers, header)
    <3>1. /\ header \in Headers /\ hs \in Seq(Headers)
          /\ read = [fetch EXCEPT !.headers = hs]
      BY <1>0, <1>3, <2>2, WithHeaderFacts DEF read, header
    <3> HIDE DEF hs
    <3>2. /\ read \in [at : 1..(Len(content) + 1), headers : Seq(Headers)]
          /\ read.at = at /\ read.headers = hs
      BY <1>0, <3>1
    <3> QED
      BY <2>2, <3>1, <3>2 DEF hs
  <2> QED
    BY <2>1, <2>2
<1>5. /\ at + Past(rest, e) \in 1..(Len(content) + 1)
      /\ at + Past(rest, e) <= Len(FetchText) + 1
  <2> DEFINE past == Past(rest, e)
             left == Len(rest)
  <2>1. past \in 1..left /\ left = Len(FetchText) - at + 1
    BY <1>2, <1>3
  <2> HIDE DEF past, left
  <2>2. /\ at + past \in 1..(Len(content) + 1)
        /\ at + past <= Len(FetchText) + 1
    BY <1>0, <2>1
  <2> QED
    BY <2>2 DEF past
<1>6. /\ fetch' \in [at : 1..(Len(content) + 1), headers : Seq(Headers)]
      /\ fetch'.at = at + Past(rest, e)
      /\ fetch'.headers = read.headers
  <2> DEFINE to == at + Past(rest, e)
  <2>1. fetch' = [read EXCEPT !.at = to] /\ to \in 1..(Len(content) + 1)
    BY <1>1, <1>4, <1>5
  <2> HIDE DEF to
  <2>2. /\ fetch' \in [at : 1..(Len(content) + 1), headers : Seq(Headers)]
        /\ fetch'.at = to /\ fetch'.headers = read.headers
    BY <1>4, <2>1
  <2> QED
    BY <2>2 DEF to
<1>7. ASSUME Comparable
      PROVE  AtLine(fetch'.at) /\ Told(fetch'.headers, fetch'.at)
  <2> DEFINE l == <<at, End(at)>>
  <2>1. FetchText = content /\ StatusLines = {}
    BY <1>0, <1>7, FetchTextFacts DEF Comparable
  <2>2. AtLine(at) /\ Told(fetch.headers, at)
    BY <1>7 DEF IInv, FetchInv
  <2>3. at <= Len(content)
    BY <1>0, <1>2, <2>1
  <2>4. rest = From(content, at)
    BY <2>1
  <2>5. /\ End(at) \in at..Len(content)
        /\ at + Past(rest, e) = End(at) + 1
        /\ l \in LinesAre /\ AtLine(End(at) + 1)
        /\ \/ /\ e = 0 /\ rest = TextOf(l)
           \/ /\ e # 0 /\ content[End(at)] = "\n"
              /\ SubSeq(rest, 1, e - 1) = SubSeq(content, at, End(at) - 1)
    BY <1>0, <2>2, <2>3, <2>4, LineFacts
  <2>6. /\ TextOf(l) \in Seq(Tokens)
        /\ Find(":", TextOf(l)) # 0 <=> l \in HeaderLines
    <3>1. /\ TextOf(l) \in Seq(Tokens)
          /\ Find(":", TextOf(l)) # 0 <=> \E k \in l[1]..l[2] : content[k] = ":"
      BY <1>0, <2>5, ColonFacts
    <3> HIDE DEF l
    <3> QED
      BY <2>1, <2>5, <3>1 DEF HeaderLines
  <2>7. /\ Find(":", line) = Find(":", TextOf(l))
        /\ Find(":", line) # 0 => header = NameAndValue(TextOf(l))
    <3>1. CASE e = 0
      <4>1. line = TextOf(l)
        BY <2>5, <3>1 DEF line
      <4> QED
        BY <4>1 DEF header
    <3>2. CASE e # 0
      <4> DEFINE end == End(at)
      <4>1. line = SubSeq(content, at, end - 1) /\ content[end] = "\n"
        BY <2>5, <3>2 DEF line
      <4>2. TextOf(l) = SubSeq(content, at, end)
        BY DEF TextOf
      <4>3. at \in 1..Len(content) /\ end \in at..Len(content)
        BY <1>0, <2>3, <2>5
      <4> HIDE DEF l, end
      <4>4. /\ Len(TextOf(l)) = Len(line) + 1
            /\ TextOf(l)[Len(TextOf(l))] = "\n"
            /\ \A k \in 1..Len(line) : TextOf(l)[k] = line[k]
        <5> DEFINE a == SubSeq(content, at, end - 1)
                   b == SubSeq(content, at, end)
        <5>1. /\ Len(b) = Len(a) + 1 /\ b[Len(b)] = content[end]
              /\ \A k \in 1..Len(a) : b[k] = a[k]
          <6>1. content \in Seq(Tokens)
            BY <1>0
          <6> HIDE DEF at
          <6> QED
            BY <4>3, <6>1, OneTokenMore
        <5>2. line = a /\ TextOf(l) = b
          BY <4>1, <4>2
        <5> HIDE DEF a, b
        <5> QED
          BY <4>1, <5>1, <5>2
      <4> QED
        BY <1>3, <2>6, <4>4, BreakIsNoMatter DEF header
    <3> QED
      BY <3>1, <3>2
  <2>8. /\ l \in HeaderLines =>
              /\ NameAndValue(TextOf(l)) \in Headers
              /\ fetch'.headers = Append(fetch.headers, NameAndValue(TextOf(l)))
        /\ l \notin HeaderLines => fetch'.headers = fetch.headers
    <3> HIDE DEF l
    <3> QED
      BY <1>4, <1>6, <2>6, <2>7
  <2>9. Told(fetch'.headers, End(at) + 1)
    BY <1>0, <2>2, <2>3, <2>8, AdvanceFacts
  <2> QED
    BY <1>6, <2>5, <2>9
<1>8. TypeOK'
  BY <1>0, <1>1, <1>6 DEF TypeOK
<1>9. TrapIsNeverReached'
  BY <1>1 DEF IInv, TrapIsNeverReached
<1>10. CurlInv'
  BY <1>1, ToldIsKept DEF IInv, CurlInv
<1>11. FetchInv'
  <2>1. /\ fetch'.at <= Len(FetchText') + 1
    BY <1>1, <1>5, <1>6, LinesAreKept
  <2>2. Comparable' = Comparable
    BY <1>1, LinesAreKept DEF Comparable
  <2> QED
    BY <1>1, <1>7, <2>1, <2>2, ToldIsKept DEF FetchInv
<1> QED
  BY <1>8, <1>9, <1>10, <1>11 DEF IInv

LEMMA StutterStep ==
  ASSUME IInv, UNCHANGED vars
  PROVE  IInv'
<1>1. content' = content /\ curl' = curl /\ fetch' = fetch
  BY DEF vars
<1>2. TypeOK' /\ TrapIsNeverReached'
  BY <1>1 DEF IInv, TypeOK, TrapIsNeverReached
<1>3. CurlInv'
  BY <1>1, ToldIsKept DEF IInv, CurlInv
<1>4. FetchInv'
  <2>1. FetchText' = FetchText /\ Comparable' = Comparable
    BY <1>1, LinesAreKept DEF Comparable
  <2> QED
    BY <1>1, <2>1, ToldIsKept DEF IInv, FetchInv
<1> QED
  BY <1>2, <1>3, <1>4 DEF IInv

(* The invariant of both loops, over a text of any length.                 *)
THEOREM HeaderInvariant == Spec => []IInv
<1>1. IInv /\ [Next]_vars => IInv'
  BY CurlStep, FetchStep, StutterStep DEF Next
<1> QED
  BY InitInv, <1>1, PTL DEF Spec

-----------------------------------------------------------------------------
(* The properties.                                                         *)

(* Neither loop reads past the end of its text, and what each tells is a   *)
(* sequence of names and values (the positions remove_prefix and substr    *)
(* take the loops to, and the strings worker_on_header is given).          *)
THEOREM LoopsStayInTheText == Spec => []TypeOK
<1>1. IInv => TypeOK
  BY DEF IInv
<1> QED
  BY HeaderInvariant, <1>1, PTL

(* Whatever a status line says, the status reported has three digits: the  *)
(* fuzz target's trap is unreachable (_parse_status_code).                 *)
THEOREM TrapIsUnreachable == Spec => []TrapIsNeverReached
<1>1. IInv => TrapIsNeverReached
  BY DEF IInv
<1> QED
  BY HeaderInvariant, <1>1, PTL

LEMMA AllTold ==
  ASSUME content \in Seq(Tokens), NEW headers, Told(headers, Len(content) + 1)
  PROVE  /\ headers \in Seq(Headers)
         /\ Len(headers) = Cardinality(HeaderLines)
         /\ \A l \in HeaderLines : /\ Place(l) \in 1..Len(headers)
                                  /\ headers[Place(l)] = NameAndValue(TextOf(l))
         /\ \A n \in 1..Len(headers) : \E l \in HeaderLines : Place(l) = n
<1>1. Before(Len(content) + 1) = HeaderLines
  <2>1. \A l \in HeaderLines : l[1] \in 1..Len(content)
    BY LinesFacts
  <2> QED
    BY <2>1 DEF Before
<1> QED
  BY <1>1 DEF Told

(* Two sequences told of the same text are the same headers.               *)
LEMMA ToldIsUnique ==
  ASSUME content \in Seq(Tokens),
         NEW one, Told(one, Len(content) + 1),
         NEW other, Told(other, Len(content) + 1)
  PROVE  one = other
<1>1. /\ one \in Seq(Headers) /\ other \in Seq(Headers) /\ Len(one) = Len(other)
      /\ \A l \in HeaderLines : one[Place(l)] = other[Place(l)]
      /\ \A n \in 1..Len(one) : \E l \in HeaderLines : Place(l) = n
  BY AllTold
<1>2. \A n \in 1..Len(one) : one[n] = other[n]
  BY <1>1
<1> QED
  BY <1>1, <1>2, SeqEqual

(* The two backends give a handler the same headers for the same text,     *)
(* although one is handed a line at a time, line break and all, and the    *)
(* other cuts up the whole (receive_response_header, main_finish).         *)
THEOREM BackendsAlwaysAgree == Spec => []BackendsAgree
<1>1. IInv => BackendsAgree
  <2> SUFFICES ASSUME IInv, CurlDone, FetchDone, StatusLines = {},
                      Find("NUL", content) = 0
               PROVE  curl.headers = fetch.headers
    BY DEF BackendsAgree
  <2>1. content \in Seq(Tokens) /\ Len(content) \in Nat
    BY DEF IInv, TypeOK
  <2>2. curl.at = Len(content) + 1 /\ Told(curl.headers, curl.at)
    BY <2>1 DEF IInv, TypeOK, CurlInv, CurlDone
  <2>3. fetch.at = Len(content) + 1 /\ Told(fetch.headers, fetch.at)
    <3>1. FetchText = content
      BY <2>1, FetchTextFacts
    <3> QED
      BY <2>1, <3>1 DEF IInv, TypeOK, FetchInv, Comparable, FetchDone
  <2> QED
    BY <2>1, <2>2, <2>3, ToldIsUnique
<1> QED
  BY HeaderInvariant, <1>1, PTL

(* Every header line of the text is told once, in its place, with the name *)
(* before its first colon and the value behind it, less the blanks around  *)
(* them, and no other is told (receive_response_header, _trim).            *)
THEOREM HeadersAreThoseOfTheLines == Spec => []HeadersAreTheLines
<1>1. IInv => HeadersAreTheLines
  <2> SUFFICES ASSUME IInv, CurlDone
               PROVE  /\ Len(curl.headers) = Cardinality(HeaderLines)
                      /\ \A l \in HeaderLines :
                            LET header == curl.headers[Place(l)]
                            IN /\ Stands(header[1], SubSeq(content, l[1], Colon(l) - 1))
                               /\ Stands(header[2], SubSeq(content, Colon(l) + 1, l[2]))
    BY DEF HeadersAreTheLines
  <2>1. content \in Seq(Tokens) /\ Len(content) \in Nat
    BY DEF IInv, TypeOK
  <2>2. curl.at = Len(content) + 1 /\ Told(curl.headers, curl.at)
    BY <2>1 DEF IInv, TypeOK, CurlInv, CurlDone
  <2>3. /\ Len(curl.headers) = Cardinality(HeaderLines)
        /\ \A l \in HeaderLines : curl.headers[Place(l)] = NameAndValue(TextOf(l))
    BY <2>1, <2>2, AllTold
  <2>4. ASSUME NEW l \in HeaderLines
        PROVE  LET header == NameAndValue(TextOf(l))
               IN /\ Stands(header[1], SubSeq(content, l[1], Colon(l) - 1))
                  /\ Stands(header[2], SubSeq(content, Colon(l) + 1, l[2]))
    <3> DEFINE at == Find(":", TextOf(l))
               name == SubSeq(TextOf(l), 1, at - 1)
               value == From(TextOf(l), at + 1)
    <3>1. l \in LinesAre /\ \E k \in l[1]..l[2] : content[k] = ":"
      BY DEF HeaderLines
    <3>2. /\ TextOf(l) \in Seq(Tokens) /\ at # 0
          /\ name = SubSeq(content, l[1], Colon(l) - 1)
          /\ value = SubSeq(content, Colon(l) + 1, l[2])
      BY <2>1, <3>1, ColonFacts
    <3>3. NameAndValue(TextOf(l)) = <<Trim(name), Trim(value)>>
      BY <3>2, NameAndValueFacts
    <3>4. name \in Seq(Tokens) /\ value \in Seq(Tokens)
      <4>1. at \in 1..Len(TextOf(l)) /\ Len(TextOf(l)) \in Nat
        BY <3>2, FindFacts
      <4> HIDE DEF at
      <4>2. /\ 1 \in 1..(Len(TextOf(l)) + 1) /\ at - 1 \in (1 - 1)..Len(TextOf(l))
            /\ at + 1 \in 1..(Len(TextOf(l)) + 1)
        BY <4>1
      <4> QED
        BY <3>2, <4>2, PartFacts, RestFacts
    <3> HIDE DEF name, value
    <3>5. Stands(Trim(name), name) /\ Stands(Trim(value), value)
      BY <3>4, TrimStands
    <3> QED
      BY <3>2, <3>3, <3>5
  <2> QED
    BY <2>3, <2>4
<1> QED
  BY HeaderInvariant, <1>1, PTL

=============================================================================
