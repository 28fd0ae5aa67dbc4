---- MODULE JsonLinesProofs ----
(***************************************************************************)
(* Theorems about JsonLines, for every text, every limit and every way to  *)
(* cut the text into chunks.                                               *)
(***************************************************************************)
EXTENDS JsonLines, FiniteSetTheorems, SequenceTheorems, TLAPS

---------------------------------------------------------------------------
\* The invariant.

Answer == Seq(Char) \cup {TooLarge}

Types ==
    /\ input \in Input /\ taken \in 0 .. Len(input)
    /\ buffered \in Seq(Char) /\ discarding \in BOOLEAN
    /\ pc \in {"read", "lines", "done"}
    /\ answers \in Seq(Answer)
    /\ discarding => buffered = <<>> /\ pc # "lines"

\* The lines that end at n or before have had their answers, and no others.
Answered(n) ==
    /\ Len(answers) = Cardinality(AskedUpTo(input, n))
    /\ \A k \in 1 .. Len(answers) :
          \E l \in AskedUpTo(input, n) :
              Rank(input, l) = k /\ answers[k] = AnswerTo(LineText(input, l))

\* Where the buffer begins in the text.
Offset == taken - Len(buffered)

\* The buffer is what has arrived of the lines not answered yet.
Buffering ==
    /\ Len(buffered) <= taken /\ Offset \in {0} \cup Breaks(input)
    /\ buffered = SubSeq(input, Offset + 1, taken)
    /\ Answered(Offset)

\* The line that arrives is over the limit already, and has had its answer.
Discarding ==
    \E l \in Lines(input) :
        /\ l.from <= taken /\ taken < l.to /\ Answered(l.to)
        /\ Bytes(SubSeq(input, l.from + 1, taken)) > MaxLineBytes

AtRest == Breaks(buffered) = {} /\ Bytes(buffered) <= MaxLineBytes

IInv ==
    /\ Types
    /\ pc # "done" => IF discarding THEN Discarding ELSE Buffering
    /\ pc = "read" => AtRest
    /\ pc = "done" => taken = Len(input) /\ Answered(Len(input) + 1)

---------------------------------------------------------------------------
\* Stretches of a text.

LEMMA Slice ==
    ASSUME NEW s \in Seq(Char), NEW m \in 1 .. Len(s) + 1, NEW n \in m - 1 .. Len(s)
    PROVE  /\ SubSeq(s, m, n) \in Seq(Char)
           /\ Len(SubSeq(s, m, n)) = n - m + 1
           /\ \A i \in 1 .. n - m + 1 : SubSeq(s, m, n)[i] = s[m + i - 1]
<1>1. \A i \in m .. n : s[i] \in Char
  BY ElementOfSeq
<1> QED BY <1>1, SubSeqProperties

LEMMA SliceOfSlice ==
    ASSUME NEW s \in Seq(Char), NEW m \in 1 .. Len(s) + 1, NEW n \in m - 1 .. Len(s),
           NEW a \in 1 .. n - m + 2, NEW b \in a - 1 .. n - m + 1
    PROVE  SubSeq(SubSeq(s, m, n), a, b) = SubSeq(s, m + a - 1, m + b - 1)
<1> DEFINE t == SubSeq(s, m, n)
           u == SubSeq(t, a, b)
           v == SubSeq(s, m + a - 1, m + b - 1)
<1>1. /\ t \in Seq(Char) /\ Len(t) = n - m + 1
      /\ \A i \in 1 .. n - m + 1 : t[i] = s[m + i - 1]
  BY Slice
<1>2. a \in 1 .. Len(t) + 1 /\ b \in a - 1 .. Len(t)
  BY <1>1
<1>3. m + a - 1 \in 1 .. Len(s) + 1 /\ m + b - 1 \in (m + a - 1) - 1 .. Len(s)
  OBVIOUS
<1>4. /\ v \in Seq(Char) /\ Len(v) = (m + b - 1) - (m + a - 1) + 1
      /\ \A i \in 1 .. (m + b - 1) - (m + a - 1) + 1 : v[i] = s[(m + a - 1) + i - 1]
  BY <1>3, Slice
<1> HIDE DEF t, v
<1>5. /\ u \in Seq(Char) /\ Len(u) = b - a + 1
      /\ \A i \in 1 .. b - a + 1 : u[i] = t[a + i - 1]
  BY <1>1, <1>2, Slice
<1> HIDE DEF u
<1>6. Len(u) = Len(v)
  BY <1>4, <1>5
<1>7. ASSUME NEW i \in 1 .. Len(u) PROVE u[i] = v[i]
  <2>1. u[i] = t[a + i - 1] /\ a + i - 1 \in 1 .. n - m + 1
    BY <1>5
  <2>2. u[i] = s[m + (a + i - 1) - 1]
    BY <2>1, <1>1
  <2>3. v[i] = s[(m + a - 1) + i - 1]
    BY <1>4, <1>6
  <2>4. m + (a + i - 1) - 1 = (m + a - 1) + i - 1
    BY <1>5
  <2> QED BY <2>2, <2>3, <2>4
<1>8. u = v
  BY <1>4, <1>5, <1>6, <1>7, SeqEqual
<1> QED BY <1>8 DEF u, v, t

LEMMA BreaksOfSlice ==
    ASSUME NEW s \in Seq(Char), NEW m \in 1 .. Len(s) + 1, NEW n \in m - 1 .. Len(s)
    PROVE  Breaks(SubSeq(s, m, n)) = {j \in 1 .. n - m + 1 : m + j - 1 \in Breaks(s)}
<1> DEFINE t == SubSeq(s, m, n)
<1>1. t \in Seq(Char) /\ Len(t) = n - m + 1 /\ \A i \in 1 .. n - m + 1 : t[i] = s[m + i - 1]
  BY Slice
<1>2. DOMAIN t = 1 .. n - m + 1 /\ DOMAIN s = 1 .. Len(s)
  BY <1>1, LenProperties
<1> HIDE DEF t
<1>3. \A j \in 1 .. n - m + 1 : m + j - 1 \in 1 .. Len(s)
  OBVIOUS
<1>4. Breaks(t) = {j \in 1 .. n - m + 1 : m + j - 1 \in Breaks(s)}
  BY <1>1, <1>2, <1>3 DEF Breaks
<1> QED BY <1>4 DEF t

---------------------------------------------------------------------------
\* The bytes of a text.

LEMMA BytesType ==
    ASSUME NEW s \in Seq(Char)
    PROVE  /\ IsFiniteSet(UNION {{i} \X (1 .. Width[s[i]]) : i \in DOMAIN s})
           /\ Bytes(s) \in Nat
<1> DEFINE at(i) == {i} \X (1 .. Width[s[i]])
           S == {at(i) : i \in DOMAIN s}
           f == [i \in DOMAIN s |-> at(i)]
<1>1. DOMAIN s = 1 .. Len(s) /\ Len(s) \in Nat /\ IsFiniteSet(DOMAIN s)
  BY LenProperties, FS_Interval
<1>2. f \in Surjection(DOMAIN s, S)
  BY DEF Surjection
<1>3. IsFiniteSet(S)
  BY <1>1, <1>2, FS_Surjection
<1>4. ASSUME NEW i \in DOMAIN s PROVE IsFiniteSet(at(i))
  <2>1. Width[s[i]] \in Int
    BY <1>1, ElementOfSeq, CharAssumption
  <2>2. \A w \in Int : IsFiniteSet(1 .. w)
    BY FS_Interval
  <2>3. IsFiniteSet(1 .. Width[s[i]])
    BY <2>1, <2>2
  <2>4. IsFiniteSet({i})
    BY FS_Singleton
  <2> QED BY <2>3, <2>4, FS_Product
<1>5. \A T \in S : IsFiniteSet(T)
  BY <1>4
<1>6. IsFiniteSet(UNION S)
  BY <1>3, <1>5, FS_UNION
<1> QED BY <1>6, FS_CardinalityType DEF Bytes

LEMMA NoBytes == Bytes(<<>>) = 0
<1>1. UNION {{i} \X (1 .. Width[<<>>[i]]) : i \in DOMAIN <<>>} = {}
  OBVIOUS
<1> QED BY <1>1, FS_EmptySet DEF Bytes

\* A text has the bytes of its beginning.
LEMMA BytesGrow ==
    ASSUME NEW s \in Seq(Char), NEW m \in 1 .. Len(s) + 1, NEW k \in m - 1 .. Len(s),
           NEW n \in k .. Len(s)
    PROVE  Bytes(SubSeq(s, m, k)) <= Bytes(SubSeq(s, m, n))
<1> DEFINE a == SubSeq(s, m, k)
           b == SubSeq(s, m, n)
           A == UNION {{i} \X (1 .. Width[a[i]]) : i \in DOMAIN a}
           B == UNION {{i} \X (1 .. Width[b[i]]) : i \in DOMAIN b}
<1>1. /\ a \in Seq(Char) /\ Len(a) = k - m + 1
      /\ \A i \in 1 .. k - m + 1 : a[i] = s[m + i - 1]
  BY Slice
<1>2. /\ b \in Seq(Char) /\ Len(b) = n - m + 1
      /\ \A i \in 1 .. n - m + 1 : b[i] = s[m + i - 1]
  BY Slice
<1>3. DOMAIN a = 1 .. k - m + 1 /\ DOMAIN b = 1 .. n - m + 1
  BY <1>1, <1>2, LenProperties
<1> HIDE DEF a, b
<1>4. \A i \in DOMAIN a : i \in DOMAIN b /\ a[i] = b[i]
  BY <1>1, <1>2, <1>3
<1>5. A \subseteq B
  BY <1>4
<1>6. IsFiniteSet(B)
  BY <1>2, BytesType
<1>7. Cardinality(A) <= Cardinality(B)
  <2> HIDE DEF A, B
  <2> QED BY <1>5, <1>6, FS_Subset
<1> QED BY <1>7 DEF a, b, Bytes
---------------------------------------------------------------------------
\* Lines.

\* A nonempty set of numbers has a least one.
LEMMA LeastExists ==
    ASSUME NEW S, S \subseteq Nat, S # {}
    PROVE  \E x \in S : \A y \in S : x <= y
<1>1. PICK n \in S : TRUE
  OBVIOUS
<1> DEFINE T == {0 .. y : y \in S \cap (0 .. n)}
<1>2. IsFiniteSet(0 .. n)
  BY FS_Interval
<1>3. T \subseteq FiniteSubsetsOf(0 .. n) /\ T # {}
  <2>1. \A y \in S \cap (0 .. n) : 0 .. y \subseteq 0 .. n
    OBVIOUS
  <2>2. \A A \in T : A \in SUBSET (0 .. n)
    BY <2>1
  <2> HIDE DEF T
  <2>3. \A A \in T : IsFiniteSet(A)
    BY <1>2, <2>2, FS_Subset
  <2>4. T # {}
    BY <1>1 DEF T
  <2> QED BY <2>2, <2>3, <2>4 DEF FiniteSubsetsOf
<1>4. PICK A \in T : \A B \in T : ~(<<B, A>> \in StrictSubsetOrdering(0 .. n))
  <2> HIDE DEF T
  <2> QED BY <1>2, <1>3, FS_StrictSubsetOrderingWellFounded, WFMin
<1>5. PICK x \in S \cap (0 .. n) : A = 0 .. x
  OBVIOUS
<1>6. ASSUME NEW y \in S PROVE x <= y
  <2> SUFFICES ASSUME y < x PROVE FALSE
    OBVIOUS
  <2>1. y \in S \cap (0 .. n) /\ 0 .. y \in T
    OBVIOUS
  <2>2. 0 .. y \subseteq 0 .. x /\ 0 .. y # 0 .. x /\ 0 .. x \subseteq 0 .. n
    <3>1. x \in 0 .. x /\ x \notin 0 .. y
      OBVIOUS
    <3> QED BY <3>1
  <2>3. <<0 .. y, A>> \in StrictSubsetOrdering(0 .. n)
    BY <1>5, <2>2 DEF StrictSubsetOrdering
  <2> QED BY <1>4, <2>1, <2>3
<1> QED BY <1>6

\* The first newline of a text that has one.
LEMMA FirstBreakIsFirst ==
    ASSUME NEW s \in Seq(Char), Breaks(s) # {}
    PROVE  /\ FirstBreak(s) \in Breaks(s)
           /\ \A j \in Breaks(s) : FirstBreak(s) <= j
<1>1. Breaks(s) \subseteq Nat
  BY LenProperties DEF Breaks
<1>2. \E x \in Breaks(s) : \A y \in Breaks(s) : x <= y
  BY <1>1, LeastExists
<1> QED BY <1>2 DEF FirstBreak

LEMMA BreaksType ==
    ASSUME NEW s \in Seq(Char)
    PROVE  Len(s) \in Nat /\ DOMAIN s = 1 .. Len(s) /\ Breaks(s) \subseteq 1 .. Len(s)
BY LenProperties DEF Breaks

\* The line that begins after a newline, or at the beginning.
LEMMA LineExists ==
    ASSUME NEW s \in Seq(Char), NEW f \in {0} \cup Breaks(s)
    PROVE  \E l \in Lines(s) : l.from = f
<1> DEFINE E == {e \in Breaks(s) \cup {Len(s) + 1} : f < e}
<1>1. E \subseteq Nat /\ Len(s) + 1 \in E
  BY BreaksType
<1>2. PICK e \in E : \A d \in E : e <= d
  BY <1>1, LeastExists
<1>3. \A i \in Breaks(s) : i <= f \/ e <= i
  BY <1>2, BreaksType
<1>4. [from |-> f, to |-> e] \in Lines(s)
  BY <1>2, <1>3 DEF Lines
<1> QED BY <1>4

LEMMA LineType ==
    ASSUME NEW s \in Seq(Char), NEW l \in Lines(s)
    PROVE  /\ l = [from |-> l.from, to |-> l.to]
           /\ l.from \in {0} \cup Breaks(s) /\ l.to \in Breaks(s) \cup {Len(s) + 1}
           /\ l.from \in 0 .. Len(s) /\ l.to \in 1 .. Len(s) + 1 /\ l.from < l.to
           /\ \A i \in Breaks(s) : i <= l.from \/ l.to <= i
           /\ LineText(s, l) \in Seq(Char)
<1>1. /\ l = [from |-> l.from, to |-> l.to]
      /\ l.from \in {0} \cup Breaks(s) /\ l.to \in Breaks(s) \cup {Len(s) + 1}
      /\ l.from < l.to /\ \A i \in Breaks(s) : i <= l.from \/ l.to <= i
  BY DEF Lines
<1>2. l.from \in 0 .. Len(s) /\ l.to \in 1 .. Len(s) + 1
  BY <1>1, BreaksType
<1>3. l.from + 1 \in 1 .. Len(s) + 1 /\ l.to - 1 \in (l.from + 1) - 1 .. Len(s)
  BY <1>1, <1>2, BreaksType
<1>4. LineText(s, l) \in Seq(Char)
  BY <1>3, Slice DEF LineText
<1> QED BY <1>1, <1>2, <1>4

\* Lines do not overlap: the later one begins where the earlier has ended.
LEMMA LinesApart ==
    ASSUME NEW s \in Seq(Char), NEW l \in Lines(s), NEW m \in Lines(s), m.to <= l.to
    PROVE  m = l \/ m.to <= l.from
<1>1. /\ l = [from |-> l.from, to |-> l.to] /\ m = [from |-> m.from, to |-> m.to]
      /\ l.from \in {0} \cup Breaks(s) /\ l.to \in Breaks(s) \cup {Len(s) + 1}
      /\ m.from \in {0} \cup Breaks(s) /\ m.to \in Breaks(s) \cup {Len(s) + 1}
      /\ l.from \in 0 .. Len(s) /\ l.to \in 1 .. Len(s) + 1 /\ l.from < l.to
      /\ m.from \in 0 .. Len(s) /\ m.to \in 1 .. Len(s) + 1 /\ m.from < m.to
      /\ \A i \in Breaks(s) : i <= l.from \/ l.to <= i
      /\ \A i \in Breaks(s) : i <= m.from \/ m.to <= i
      /\ Len(s) \in Nat /\ \A i \in Breaks(s) : i \in 1 .. Len(s)
  BY LineType, BreaksType
<1>2. CASE m.to < l.to
  BY <1>1, <1>2
<1>3. CASE m.to = l.to
  <2>1. m.from <= l.from
    BY <1>1, <1>3
  <2>2. l.from <= m.from
    BY <1>1, <1>3
  <2>3. m.from = l.from
    BY <1>1, <2>1, <2>2
  <2> QED BY <1>1, <1>3, <2>3
<1> QED BY <1>1, <1>2, <1>3

---------------------------------------------------------------------------
\* The lines that are answered.

LEMMA AskedIsFinite ==
    ASSUME NEW s \in Seq(Char)
    PROVE  /\ Asked(s) \subseteq Lines(s) /\ IsFiniteSet(Asked(s)) /\ Cardinality(Asked(s)) \in Nat
           /\ \A n : /\ AskedUpTo(s, n) \subseteq Asked(s)
                     /\ IsFiniteSet(AskedUpTo(s, n)) /\ Cardinality(AskedUpTo(s, n)) \in Nat
                     /\ Cardinality(AskedUpTo(s, n)) <= Cardinality(Asked(s))
<1> DEFINE P == (0 .. Len(s)) \X (1 .. Len(s) + 1)
           f == [l \in Lines(s) |-> <<l.from, l.to>>]
<1>1. IsFiniteSet(P)
  <2>1. Len(s) \in Nat
    BY BreaksType
  <2>2. IsFiniteSet(0 .. Len(s)) /\ IsFiniteSet(1 .. Len(s) + 1)
    <3>1. \A a, b \in Int : IsFiniteSet(a .. b)
      BY FS_Interval
    <3> QED BY <2>1, <3>1
  <2> QED BY <2>2, FS_Product
<1>2. f \in Injection(Lines(s), P)
  <2>1. \A l \in Lines(s) : /\ l = [from |-> l.from, to |-> l.to]
                            /\ l.from \in 0 .. Len(s) /\ l.to \in 1 .. Len(s) + 1
    BY LineType
  <2>2. f \in [Lines(s) -> P]
    BY <2>1
  <2>3. ASSUME NEW l \in Lines(s), NEW m \in Lines(s), f[l] = f[m] PROVE l = m
    <3>1. l.from = m.from /\ l.to = m.to
      BY <2>3
    <3> QED BY <2>1, <3>1
  <2> HIDE DEF f, P
  <2> QED BY <2>2, <2>3 DEF Injection, IsInjective
<1>3. IsFiniteSet(Lines(s))
  BY <1>1, <1>2, FS_Injection
<1>4. Asked(s) \subseteq Lines(s)
  BY DEF Asked
<1>5. IsFiniteSet(Asked(s))
  BY <1>3, <1>4, FS_Subset
<1>6. \A n : AskedUpTo(s, n) \subseteq Asked(s)
  BY DEF AskedUpTo
<1> QED BY <1>4, <1>5, <1>6, FS_Subset, FS_CardinalityType

\* A rank belongs to one line.
LEMMA RanksDiffer ==
    ASSUME NEW s \in Seq(Char), NEW l \in Asked(s), NEW m \in Asked(s), Rank(s, l) = Rank(s, m)
    PROVE  l = m
<1>1. l \in Lines(s) /\ m \in Lines(s)
  BY AskedIsFinite
<1>2. ASSUME NEW a \in Asked(s), NEW b \in Asked(s), a.to <= b.to, Rank(s, a) = Rank(s, b)
      PROVE  a = b
  <2>1. a \in Lines(s) /\ b \in Lines(s) /\ a.to \in Int /\ b.to \in Int /\ b.from < b.to /\ b.from \in Int
    BY AskedIsFinite, LineType
  <2>2. \A c \in Asked(s) : c.to \in Int
    BY AskedIsFinite, LineType
  <2>3. AskedUpTo(s, a.to) \subseteq AskedUpTo(s, b.to)
    BY <1>2, <2>1, <2>2 DEF AskedUpTo
  <2>4. IsFiniteSet(AskedUpTo(s, b.to))
    BY AskedIsFinite
  <2>5. AskedUpTo(s, a.to) = AskedUpTo(s, b.to)
    BY <1>2, <2>3, <2>4, FS_Subset DEF Rank
  <2>6. b \in AskedUpTo(s, a.to)
    BY <2>1, <2>5 DEF AskedUpTo
  <2>7. b.to <= a.to
    BY <2>6 DEF AskedUpTo
  <2> QED BY <1>2, <2>1, <2>7, LinesApart
<1>3. l.to <= m.to \/ m.to <= l.to
  BY <1>1, LineType
<1> QED BY <1>2, <1>3
---------------------------------------------------------------------------
\* Answering a line.

\* The line after those that have had their answers gets its own, if any.
LEMMA AnsweringLine ==
    ASSUME input \in Seq(Char), answers \in Seq(Answer), NEW l \in Lines(input),
           Answered(l.from), input' = input,
           answers' = IF l \in Asked(input) THEN Append(answers, AnswerTo(LineText(input, l)))
                      ELSE answers
    PROVE  Answered(l.to)' /\ answers' \in Seq(Answer)
<1> DEFINE A == AskedUpTo(input, l.from)
           B == AskedUpTo(input, l.to)
           text == LineText(input, l)
<1>1. l.from \in Int /\ l.to \in Int /\ l.from < l.to /\ text \in Seq(Char)
  BY LineType
<1>2. \A m \in Asked(input) : m \in Lines(input) /\ m.to \in Int
  BY AskedIsFinite, LineType
<1>3. \A m \in Asked(input) : m.to <= l.to <=> m = l \/ m.to <= l.from
  BY <1>1, <1>2, LinesApart
<1>4. B = IF l \in Asked(input) THEN A \cup {l} ELSE A
  BY <1>3 DEF AskedUpTo
<1>5. l \notin A /\ IsFiniteSet(A) /\ Cardinality(A) \in Nat
  <2>1. l \notin A
    BY <1>1 DEF AskedUpTo
  <2>2. IsFiniteSet(AskedUpTo(input, l.from)) /\ Cardinality(AskedUpTo(input, l.from)) \in Nat
    BY AskedIsFinite
  <2> QED BY <2>1, <2>2
<1>6. Cardinality(B) = IF l \in Asked(input) THEN Cardinality(A) + 1 ELSE Cardinality(A)
  BY <1>4, <1>5, FS_AddElement
<1>7. /\ Len(answers) = Cardinality(A)
      /\ \A k \in 1 .. Len(answers) :
            \E m \in A : Rank(input, m) = k /\ answers[k] = AnswerTo(LineText(input, m))
  BY DEF Answered
<1>8. AnswerTo(text) \in Answer
  BY <1>1 DEF AnswerTo, Answer
<1> HIDE DEF A, B, text
<1>9. CASE l \in Asked(input)
  <2>1. /\ answers' \in Seq(Answer) /\ Len(answers') = Len(answers) + 1
        /\ answers'[Len(answers) + 1] = AnswerTo(text)
        /\ \A i \in 1 .. Len(answers) : answers'[i] = answers[i]
    BY <1>8, <1>9, AppendProperties DEF text
  <2>2. Rank(input, l) = Len(answers) + 1
    BY <1>6, <1>7, <1>9 DEF Rank, B
  <2>3. ASSUME NEW k \in 1 .. Len(answers')
        PROVE  \E m \in B : Rank(input, m) = k /\ answers'[k] = AnswerTo(LineText(input, m))
    <3>1. CASE k \in 1 .. Len(answers)
      BY <1>4, <1>7, <2>1, <3>1
    <3>2. CASE k \notin 1 .. Len(answers)
      <4>1. k = Len(answers) + 1
        BY <1>5, <1>7, <2>1, <3>2
      <4> QED BY <1>4, <1>9, <2>1, <2>2, <4>1 DEF text
    <3> QED BY <3>1, <3>2
  <2> QED BY <1>6, <1>7, <1>9, <2>1, <2>3 DEF Answered, B
<1>10. CASE l \notin Asked(input)
  BY <1>4, <1>7, <1>10 DEF Answered, A, B
<1> QED BY <1>9, <1>10

\* dispatch gives a line the answer it is to have.
LEMMA DispatchAnswers ==
    ASSUME input \in Seq(Char), answers \in Seq(Answer), NEW l \in Lines(input)
    PROVE  answers \o Dispatch(LineText(input, l)) =
               IF l \in Asked(input) THEN Append(answers, AnswerTo(LineText(input, l)))
               ELSE answers
<1> DEFINE text == LineText(input, l)
<1>1. text \in Seq(Char) /\ DOMAIN text = 1 .. Len(text) /\ Bytes(text) \in Nat /\ MaxLineBytes \in Nat
  BY LineType, LenProperties, BytesType, InputAssumption
<1>2. l \in Asked(input) <=> Bytes(text) > MaxLineBytes \/ \E i \in DOMAIN text : text[i] \notin White
  BY DEF Asked
<1>3. ToSet(text) \subseteq White <=> \A i \in DOMAIN text : text[i] \in White
  BY DEF ToSet
<1> HIDE DEF text
<1>4. Dispatch(text) = IF l \in Asked(input) THEN <<AnswerTo(text)>> ELSE <<>>
  BY <1>1, <1>2, <1>3 DEF Dispatch, AnswerTo
<1>5. AnswerTo(text) \in Answer
  BY <1>1 DEF AnswerTo, Answer
<1>6. answers \o <<AnswerTo(text)>> = Append(answers, AnswerTo(text))
  BY <1>5, AppendIsConcat
<1>7. answers \o <<>> = answers
  BY ConcatEmptySeq
<1> QED BY <1>4, <1>6, <1>7 DEF text

LEMMA AnswersUnchanged ==
    ASSUME NEW n, Answered(n), UNCHANGED <<input, answers>>
    PROVE  Answered(n)'
BY DEF Answered
---------------------------------------------------------------------------
\* The steps.

LEMMA InputType == ASSUME Types PROVE input \in Seq(Char) /\ Len(input) \in Nat /\ taken \in Nat
BY InputAssumption, LenProperties DEF Types

LEMMA InitIInv == Init => IInv
<1> SUFFICES ASSUME Init PROVE IInv
  OBVIOUS
<1>1. input \in Seq(Char) /\ Len(input) \in Nat /\ Len(<<>>) = 0
  BY InputAssumption, LenProperties, EmptySeq DEF Init
<1>2. Types
  <2>1. taken \in 0 .. Len(input) /\ buffered \in Seq(Char) /\ answers \in Seq(Answer)
    BY <1>1, EmptySeq DEF Init
  <2> QED BY <2>1 DEF Init, Types
<1>3. AskedUpTo(input, 0) = {}
  <2>1. \A l \in Asked(input) : l \in Lines(input)
    BY DEF Asked
  <2>2. \A l \in Asked(input) : l.to \in 1 .. Len(input) + 1
    BY <1>1, <2>1, LineType
  <2> QED BY <2>2 DEF AskedUpTo
<1>4. Answered(0)
  <2>1. Len(answers) = 0 /\ Cardinality(AskedUpTo(input, 0)) = 0
    BY <1>1, <1>3, FS_EmptySet DEF Init
  <2> QED BY <2>1 DEF Answered
<1>5. Offset = 0
  <2>1. taken = 0 /\ Len(buffered) = 0
    BY <1>1 DEF Init
  <2> QED BY <2>1 DEF Offset
<1>6. buffered = SubSeq(input, 1, 0)
  BY <1>1, SubSeqEmpty DEF Init
<1>7. Buffering
  BY <1>1, <1>4, <1>5, <1>6 DEF Buffering, Init
<1>8. AtRest
  BY NoBytes, InputAssumption DEF AtRest, Breaks, Init
<1> QED BY <1>2, <1>7, <1>8 DEF IInv, Init

\* What is known of the buffer while lines are taken from it.
LEMMA BufferIs ==
    ASSUME Types, Buffering
    PROVE  /\ input \in Seq(Char) /\ Len(input) \in Nat /\ taken \in 0 .. Len(input)
           /\ Len(buffered) \in Nat /\ Offset \in 0 .. taken /\ taken = Offset + Len(buffered)
           /\ Offset + 1 \in 1 .. Len(input) + 1 /\ taken \in (Offset + 1) - 1 .. Len(input)
           /\ Breaks(buffered) = {j \in 1 .. Len(buffered) : Offset + j \in Breaks(input)}
<1>1. /\ input \in Seq(Char) /\ Len(input) \in Nat /\ taken \in 0 .. Len(input)
      /\ Len(buffered) \in Nat /\ Len(buffered) <= taken
  BY InputType, LenProperties DEF Types, Buffering
<1>2. Offset \in 0 .. taken /\ taken = Offset + Len(buffered)
  BY <1>1 DEF Offset
<1>3. Offset + 1 \in 1 .. Len(input) + 1 /\ taken \in (Offset + 1) - 1 .. Len(input)
  BY <1>1, <1>2
<1>4. Breaks(buffered) = {j \in 1 .. taken - (Offset + 1) + 1 : (Offset + 1) + j - 1 \in Breaks(input)}
  BY <1>1, <1>3, BreaksOfSlice DEF Buffering
<1>5. taken - (Offset + 1) + 1 = Len(buffered) /\ \A j \in 1 .. Len(buffered) : (Offset + 1) + j - 1 = Offset + j
  BY <1>1, <1>2
<1> QED BY <1>1, <1>2, <1>3, <1>4, <1>5

\* The first complete line in the buffer, and what remains behind it.
LEMMA FirstLine ==
    ASSUME Types, Buffering, Breaks(buffered) # {}
    PROVE  \E l \in Lines(input) :
               /\ l.from = Offset /\ l.to = Offset + FirstBreak(buffered) /\ l.to \in Breaks(input)
               /\ l.to <= taken
               /\ BeforeBreak(buffered) = LineText(input, l)
               /\ AfterBreak(buffered) = SubSeq(input, l.to + 1, taken)
<1> DEFINE j == FirstBreak(buffered)
<1>1. /\ input \in Seq(Char) /\ Len(input) \in Nat /\ taken \in 0 .. Len(input)
      /\ Len(buffered) \in Nat /\ Offset \in 0 .. taken /\ taken = Offset + Len(buffered)
      /\ Offset + 1 \in 1 .. Len(input) + 1 /\ taken \in (Offset + 1) - 1 .. Len(input)
  BY BufferIs
<1>0. Breaks(buffered) = {i \in 1 .. Len(buffered) : Offset + i \in Breaks(input)}
  BY BufferIs
<1>2. j \in Breaks(buffered) /\ \A i \in Breaks(buffered) : j <= i
  BY FirstBreakIsFirst DEF Types
<1> HIDE DEF j
<1>3. j \in 1 .. Len(buffered) /\ Offset + j \in Breaks(input)
  BY <1>0, <1>2
<1>4. \A i \in Breaks(input) : i <= Offset \/ Offset + j <= i
  <2> SUFFICES ASSUME NEW i \in Breaks(input), Offset < i, i < Offset + j PROVE FALSE
    BY <1>1, <1>3, BreaksType
  <2>1. i \in Nat
    BY <1>1, BreaksType
  <2>2. i - Offset \in 1 .. Len(buffered) /\ Offset + (i - Offset) = i /\ i - Offset < j
    BY <1>1, <1>3, <2>1
  <2>3. i - Offset \in Breaks(buffered)
    BY <1>0, <2>2
  <2> QED BY <1>2, <1>3, <2>2, <2>3
<1>5. PICK l \in Lines(input) : l.from = Offset /\ l.to = Offset + j
  <2>1. [from |-> Offset, to |-> Offset + j] \in Lines(input)
    BY <1>1, <1>3, <1>4 DEF Lines, Buffering
  <2> QED BY <2>1
<1>6. BeforeBreak(buffered) = SubSeq(input, (Offset + 1) + 1 - 1, (Offset + 1) + (j - 1) - 1)
  <2>1. 1 \in 1 .. taken - (Offset + 1) + 2 /\ j - 1 \in 1 - 1 .. taken - (Offset + 1) + 1
    BY <1>1, <1>3
  <2>2. SubSeq(SubSeq(input, Offset + 1, taken), 1, j - 1)
            = SubSeq(input, (Offset + 1) + 1 - 1, (Offset + 1) + (j - 1) - 1)
    BY <1>1, <2>1, SliceOfSlice
  <2> QED BY <2>2 DEF BeforeBreak, Buffering, j
<1>7. (Offset + 1) + 1 - 1 = Offset + 1 /\ (Offset + 1) + (j - 1) - 1 = Offset + j - 1
  BY <1>1, <1>3
<1>8. AfterBreak(buffered) = SubSeq(input, (Offset + 1) + (j + 1) - 1, (Offset + 1) + Len(buffered) - 1)
  <2>1. /\ j + 1 \in 1 .. taken - (Offset + 1) + 2
        /\ Len(buffered) \in (j + 1) - 1 .. taken - (Offset + 1) + 1
    BY <1>1, <1>3
  <2>2. SubSeq(SubSeq(input, Offset + 1, taken), j + 1, Len(buffered))
            = SubSeq(input, (Offset + 1) + (j + 1) - 1, (Offset + 1) + Len(buffered) - 1)
    BY <1>1, <2>1, SliceOfSlice
  <2> QED BY <2>2 DEF AfterBreak, Buffering, j
<1>9. (Offset + 1) + (j + 1) - 1 = Offset + j + 1 /\ (Offset + 1) + Len(buffered) - 1 = taken
  BY <1>1, <1>3
<1>10. /\ BeforeBreak(buffered) = LineText(input, l)
       /\ AfterBreak(buffered) = SubSeq(input, l.to + 1, taken)
  <2>1. l.from + 1 = Offset + 1 /\ l.to - 1 = Offset + j - 1 /\ l.to + 1 = Offset + j + 1
    BY <1>1, <1>3, <1>5
  <2>2. LineText(input, l) = SubSeq(input, Offset + 1, Offset + j - 1)
    BY <2>1 DEF LineText
  <2> QED BY <1>6, <1>7, <1>8, <1>9, <2>1, <2>2
<1>11. l.from = Offset /\ l.to = Offset + FirstBreak(buffered) /\ l.to \in Breaks(input) /\ l.to <= taken
  BY <1>1, <1>3, <1>5 DEF j
<1> QED BY <1>5, <1>10, <1>11

\* With no newline in the buffer, the lines that have come to their end have
\* had their answers.
LEMMA NothingBetween ==
    ASSUME Types, Buffering, Breaks(buffered) = {}
    PROVE  AskedUpTo(input, taken) = AskedUpTo(input, Offset)
<1>1. /\ input \in Seq(Char) /\ Len(input) \in Nat /\ taken \in 0 .. Len(input)
      /\ Len(buffered) \in Nat /\ Offset \in 0 .. taken /\ taken = Offset + Len(buffered)
      /\ Breaks(buffered) = {j \in 1 .. Len(buffered) : Offset + j \in Breaks(input)}
  BY BufferIs
<1>2. ASSUME NEW l \in Asked(input), l.to <= taken PROVE l.to <= Offset
  <2>1. l.to \in Breaks(input) /\ l.to \in Nat
    BY <1>1, <1>2, AskedIsFinite, LineType, BreaksType
  <2> SUFFICES ASSUME Offset < l.to PROVE FALSE
    BY <1>1, <2>1
  <2>2. l.to - Offset \in 1 .. Len(buffered) /\ Offset + (l.to - Offset) = l.to
    BY <1>1, <1>2, <2>1
  <2> QED BY <1>1, <2>1, <2>2
<1>3. \A l \in Asked(input) : l.to <= Offset => l.to <= taken
  <2>1. \A l \in Asked(input) : l.to \in Nat
    BY <1>1, AskedIsFinite, LineType
  <2> QED BY <1>1, <2>1
<1> QED BY <1>2, <1>3 DEF AskedUpTo

\* The line that arrives, when no newline is in the buffer.
LEMMA LineArrives ==
    ASSUME Types, Buffering, Breaks(buffered) = {}
    PROVE  \E l \in Lines(input) : l.from = Offset /\ taken < l.to
<1>1. /\ input \in Seq(Char) /\ Len(input) \in Nat /\ taken \in 0 .. Len(input)
      /\ Len(buffered) \in Nat /\ Offset \in 0 .. taken /\ taken = Offset + Len(buffered)
      /\ Breaks(buffered) = {j \in 1 .. Len(buffered) : Offset + j \in Breaks(input)}
  BY BufferIs
<1>2. PICK l \in Lines(input) : l.from = Offset
  BY <1>1, LineExists DEF Buffering
<1>3. l.from < l.to /\ l.to \in Nat /\ l.to \in Breaks(input) \cup {Len(input) + 1}
  BY <1>1, LineType
<1>4. taken < l.to
  <2> SUFFICES ASSUME l.to <= taken PROVE FALSE
    BY <1>1, <1>3
  <2>1. l.to - Offset \in 1 .. Len(buffered) /\ Offset + (l.to - Offset) = l.to /\ l.to \in Breaks(input)
    BY <1>1, <1>2, <1>3
  <2> QED BY <1>1, <2>1
<1> QED BY <1>2, <1>4

\* The line that has not ended is the one whose end has not arrived.
LEMMA OpenLineIs ==
    ASSUME input \in Seq(Char), taken \in 0 .. Len(input),
           NEW l \in Lines(input), l.from <= taken, taken < l.to
    PROVE  OpenLine(input, taken) = SubSeq(input, l.from + 1, taken)
<1> DEFINE Begins(b) == b <= taken /\ \A i \in Breaks(input) : i <= b \/ taken < i
<1>1. /\ l.from \in {0} \cup Breaks(input) /\ l.from \in Nat /\ l.to \in Nat
      /\ \A i \in Breaks(input) : i <= l.from \/ l.to <= i
      /\ Breaks(input) \subseteq 1 .. Len(input) /\ taken \in Nat /\ Len(input) \in Nat
  BY LineType, BreaksType
<1>2. Begins(l.from)
  BY <1>1
<1>3. ASSUME NEW b \in {0} \cup Breaks(input), Begins(b) PROVE b = l.from
  BY <1>1, <1>2, <1>3
<1>4. l.from = CHOOSE b \in {0} \cup Breaks(input) : Begins(b)
  <2> HIDE DEF Begins
  <2> QED BY <1>1, <1>2, <1>3
<1> QED BY <1>4 DEF OpenLine

LEMMA LineKeeps == ASSUME IInv, Line PROVE IInv'
<1>1. Types /\ Buffering /\ discarding = FALSE /\ pc = "lines"
  BY DEF IInv, Types, Line
<1>2. PICK l \in Lines(input) :
          /\ l.from = Offset /\ l.to = Offset + FirstBreak(buffered) /\ l.to \in Breaks(input)
          /\ l.to <= taken
          /\ BeforeBreak(buffered) = LineText(input, l)
          /\ AfterBreak(buffered) = SubSeq(input, l.to + 1, taken)
  BY <1>1, FirstLine DEF Line
<1>3. input \in Seq(Char) /\ Len(input) \in Nat /\ taken \in 0 .. Len(input) /\ l.to \in 1 .. taken
  BY <1>1, <1>2, InputType, LineType DEF Types
<1>4. /\ buffered' = SubSeq(input, l.to + 1, taken)
      /\ buffered' \in Seq(Char) /\ Len(buffered') = taken - (l.to + 1) + 1
  <2>1. l.to + 1 \in 1 .. Len(input) + 1 /\ taken \in (l.to + 1) - 1 .. Len(input)
    BY <1>3
  <2> QED BY <1>2, <1>3, <2>1, Slice DEF Line
<1>5. UNCHANGED <<input, taken, discarding, pc>>
  BY DEF Line
<1>6. Offset' = l.to /\ Len(buffered') <= taken
  BY <1>3, <1>4, <1>5 DEF Offset
<1>7. Answered(l.to)' /\ answers' \in Seq(Answer)
  <2>1. answers' = answers \o Dispatch(LineText(input, l))
    BY <1>2 DEF Line
  <2>2. answers \in Seq(Answer)
    BY <1>1 DEF Types
  <2>3. answers' = IF l \in Asked(input) THEN Append(answers, AnswerTo(LineText(input, l))) ELSE answers
    BY <1>3, <2>1, <2>2, DispatchAnswers
  <2>4. Answered(l.from)
    BY <1>1, <1>2 DEF Buffering
  <2> QED BY <1>3, <1>5, <2>2, <2>3, <2>4, AnsweringLine
<1>8. Buffering'
  <2>1. Answered(Offset)'
    BY <1>6, <1>7 DEF Answered
  <2> QED BY <1>2, <1>4, <1>5, <1>6, <2>1 DEF Buffering
<1>9. Types'
  BY <1>1, <1>4, <1>5, <1>7 DEF Types
<1> QED BY <1>1, <1>5, <1>8, <1>9 DEF IInv

LEMMA KeepKeeps == ASSUME IInv, Keep PROVE IInv'
<1>1. Types /\ Buffering /\ discarding = FALSE /\ pc = "lines"
  BY DEF IInv, Types, Keep
<1>2. Breaks(buffered) = {} /\ UNCHANGED <<input, taken>> /\ pc' = "read"
  BY DEF Keep
<1>3. /\ input \in Seq(Char) /\ Len(input) \in Nat /\ taken \in 0 .. Len(input)
      /\ Offset + 1 \in 1 .. Len(input) + 1 /\ taken \in (Offset + 1) - 1 .. Len(input)
      /\ Offset \in 0 .. taken
  BY <1>1, BufferIs
<1>4. CASE Bytes(buffered) > MaxLineBytes
  <2>1. answers' = Append(answers, TooLarge) /\ discarding' = TRUE /\ buffered' = <<>>
    BY <1>4 DEF Keep
  <2>2. PICK l \in Lines(input) : l.from = Offset /\ taken < l.to
    BY <1>1, <1>2, LineArrives
  <2>3. l.to \in Nat /\ l.to - 1 \in taken .. Len(input) /\ LineText(input, l) \in Seq(Char)
    BY <1>3, <2>2, LineType
  <2>4. Bytes(LineText(input, l)) > MaxLineBytes
    <3>1. Bytes(SubSeq(input, Offset + 1, taken)) <= Bytes(SubSeq(input, Offset + 1, l.to - 1))
      BY <1>3, <2>3, BytesGrow
    <3>2. SubSeq(input, Offset + 1, taken) = buffered /\ SubSeq(input, Offset + 1, l.to - 1) = LineText(input, l)
      BY <1>1, <2>2 DEF Buffering, LineText
    <3>3. Bytes(buffered) \in Nat /\ Bytes(LineText(input, l)) \in Nat /\ MaxLineBytes \in Nat
      BY <1>1, <2>3, BytesType, InputAssumption DEF Types
    <3>4. Bytes(buffered) <= Bytes(LineText(input, l))
      BY <3>1, <3>2
    <3> HIDE DEF Bytes, LineText
    <3> QED BY <1>4, <3>3, <3>4
  <2>5. l \in Asked(input) /\ AnswerTo(LineText(input, l)) = TooLarge
    BY <2>4 DEF Asked, AnswerTo
  <2>6. Answered(l.to)' /\ answers' \in Seq(Answer)
    <3>1. answers \in Seq(Answer) /\ Answered(l.from) /\ input' = input
      BY <1>1, <1>2, <2>2 DEF Types, Buffering
    <3>2. answers' = IF l \in Asked(input) THEN Append(answers, AnswerTo(LineText(input, l))) ELSE answers
      BY <2>1, <2>5
    <3> QED BY <1>3, <3>1, <3>2, AnsweringLine
  <2>7. Discarding'
    <3>1. l.from <= taken' /\ taken' < l.to /\ l \in Lines(input)'
      BY <1>2, <1>3, <2>2
    <3>2. Bytes(SubSeq(input', l.from + 1, taken')) > MaxLineBytes
      BY <1>1, <1>2, <1>4, <2>2 DEF Buffering
    <3> HIDE DEF Bytes
    <3> QED BY <2>6, <3>1, <3>2 DEF Discarding
  <2>8. AtRest'
    BY <2>1, NoBytes, InputAssumption DEF AtRest, Breaks
  <2>9. Types'
    BY <1>1, <1>2, <2>1, <2>6, EmptySeq DEF Types
  <2> QED BY <1>2, <2>1, <2>7, <2>8, <2>9 DEF IInv
<1>5. CASE ~(Bytes(buffered) > MaxLineBytes)
  <2>1. UNCHANGED <<answers, discarding, buffered>>
    BY <1>5 DEF Keep
  <2>2. Bytes(buffered) <= MaxLineBytes
    <3>1. Bytes(buffered) \in Nat /\ MaxLineBytes \in Nat
      BY <1>1, BytesType, InputAssumption DEF Types
    <3> QED BY <1>5, <3>1
  <2>3. AtRest'
    BY <1>2, <2>1, <2>2 DEF AtRest
  <2>4. Buffering'
    BY <1>1, <1>2, <2>1 DEF Buffering, Offset, Answered
  <2>5. Types'
    BY <1>1, <1>2, <2>1 DEF Types
  <2> QED BY <1>1, <1>2, <2>1, <2>3, <2>4, <2>5 DEF IInv
<1> QED BY <1>4, <1>5

LEMMA EndKeeps == ASSUME IInv, End PROVE IInv'
<1>1. Types /\ AtRest /\ pc = "read" /\ taken = Len(input)
  BY DEF IInv, End
<1>2. UNCHANGED <<input, taken, buffered, discarding>> /\ pc' = "done"
  BY DEF End
<1>3. input \in Seq(Char) /\ Len(input) \in Nat /\ answers \in Seq(Answer)
  BY <1>1, InputType DEF Types
<1>4. Answered(Len(input) + 1)' /\ answers' \in Seq(Answer)
  <2>1. CASE discarding
    <3>1. PICK l \in Lines(input) : taken < l.to /\ Answered(l.to)
      BY <1>1, <2>1 DEF IInv, Discarding
    <3>2. l.to = Len(input) + 1
      BY <1>1, <1>3, <3>1, LineType
    <3>3. answers' = answers
      BY <2>1 DEF End
    <3> QED BY <1>2, <1>3, <3>1, <3>2, <3>3, AnswersUnchanged
  <2>2. CASE ~discarding
    <3>1. Buffering
      BY <1>1, <2>2 DEF IInv
    <3>2. PICK l \in Lines(input) : l.from = Offset /\ taken < l.to
      BY <1>1, <3>1, LineArrives DEF AtRest
    <3>3. l.to = Len(input) + 1
      BY <1>1, <1>3, <3>2, LineType
    <3>4. LineText(input, l) = buffered
      BY <1>1, <1>3, <3>1, <3>2, <3>3 DEF LineText, Buffering
    <3>5. answers' = answers \o Dispatch(LineText(input, l))
      <4>1. CASE buffered = <<>>
        <5>1. Dispatch(<<>>) = <<>>
          BY NoBytes, InputAssumption DEF Dispatch, ToSet
        <5>2. answers' = answers
          BY <2>2, <4>1 DEF End
        <5> QED BY <1>3, <3>4, <4>1, <5>1, <5>2, ConcatEmptySeq
      <4>2. CASE buffered # <<>>
        BY <2>2, <3>4, <4>2 DEF End
      <4> QED BY <4>1, <4>2
    <3>6. answers' = IF l \in Asked(input) THEN Append(answers, AnswerTo(LineText(input, l))) ELSE answers
      BY <1>3, <3>5, DispatchAnswers
    <3>7. Answered(l.from) /\ input' = input
      BY <1>2, <3>1, <3>2 DEF Buffering
    <3>8. Answered(l.to)' /\ answers' \in Seq(Answer)
      BY <1>3, <3>6, <3>7, AnsweringLine
    <3> QED BY <1>2, <3>3, <3>8 DEF Answered
  <2> QED BY <2>1, <2>2
<1>5. Types'
  BY <1>1, <1>2, <1>4 DEF Types
<1> QED BY <1>1, <1>2, <1>4, <1>5 DEF IInv

\* A chunk is the next stretch of the text.
LEMMA ChunkKeeps == ASSUME IInv, Chunk PROVE IInv'
<1>1. Types /\ AtRest /\ pc = "read" /\ UNCHANGED <<input, answers>>
  BY DEF IInv, Chunk
<1>2. input \in Seq(Char) /\ Len(input) \in Nat /\ taken \in 0 .. Len(input)
  BY <1>1, InputType DEF Types
<1> DEFINE text(n) == SubSeq(input, taken + 1, n)
<1>3. PICK n \in taken + 1 .. Len(input) :
          /\ taken' = n
          /\ IF discarding /\ Breaks(text(n)) = {}
             THEN UNCHANGED <<buffered, discarding, pc>>
             ELSE /\ buffered' = IF discarding THEN AfterBreak(text(n)) ELSE buffered \o text(n)
                  /\ discarding' = FALSE /\ pc' = "lines"
  BY DEF Chunk
<1> DEFINE chunk == text(n)
<1>4. taken + 1 \in 1 .. Len(input) + 1 /\ n \in (taken + 1) - 1 .. Len(input) /\ n \in 0 .. Len(input)
  BY <1>2
<1>5. chunk \in Seq(Char) /\ Len(chunk) = n - taken
  <2>1. chunk \in Seq(Char) /\ Len(chunk) = n - (taken + 1) + 1
    BY <1>2, <1>4, Slice
  <2> QED BY <1>2, <2>1
<1>6. Breaks(chunk) = {j \in 1 .. n - taken : taken + j \in Breaks(input)}
  <2>1. Breaks(chunk) = {j \in 1 .. n - (taken + 1) + 1 : (taken + 1) + j - 1 \in Breaks(input)}
    BY <1>2, <1>4, BreaksOfSlice
  <2>2. n - (taken + 1) + 1 = n - taken /\ \A j \in 1 .. n - taken : (taken + 1) + j - 1 = taken + j
    BY <1>2
  <2> QED BY <2>1, <2>2
<1>7. CASE ~discarding
  <2>1. buffered' = buffered \o chunk /\ discarding' = FALSE /\ pc' = "lines"
    BY <1>3, <1>7
  <2>2. Buffering
    BY <1>1, <1>7 DEF IInv
  <2>3. /\ Len(buffered) \in Nat /\ Offset \in 0 .. taken /\ taken = Offset + Len(buffered)
        /\ Offset + 1 \in 1 .. Len(input) + 1
    BY <1>1, <2>2, BufferIs
  <2>4. buffered' = SubSeq(input, Offset + 1, n)
    <3>1. Offset + 1 \in 1 .. Len(input) + 1 /\ taken \in (Offset + 1) - 1 .. Len(input) /\ n \in taken .. Len(input)
      BY <1>2, <2>3
    <3>2. SubSeq(input, Offset + 1, taken) \o SubSeq(input, taken + 1, n) = SubSeq(input, Offset + 1, n)
      BY <1>2, <3>1, ConcatAdjacentSubSeq
    <3> QED BY <2>1, <2>2, <3>2 DEF Buffering
  <2>5. buffered' \in Seq(Char) /\ Len(buffered') = Len(buffered) + Len(chunk)
    BY <1>1, <1>5, <2>1, ConcatProperties DEF Types
  <2>6. Offset' = Offset /\ Len(buffered') <= taken'
    BY <1>2, <1>3, <1>5, <2>3, <2>5 DEF Offset
  <2>7. Buffering'
    BY <1>1, <1>3, <2>2, <2>4, <2>6 DEF Buffering, Answered
  <2>8. Types'
    BY <1>1, <1>3, <1>4, <2>1, <2>5 DEF Types
  <2> QED BY <2>1, <2>7, <2>8 DEF IInv
<1>8. CASE discarding
  <2>1. PICK l \in Lines(input) :
            /\ l.from <= taken /\ taken < l.to /\ Answered(l.to)
            /\ Bytes(SubSeq(input, l.from + 1, taken)) > MaxLineBytes
    BY <1>1, <1>8 DEF IInv, Discarding
  <2>2. Answered(l.to)'
    BY <1>1, <2>1, AnswersUnchanged
  <2>3. /\ l.to \in Breaks(input) \cup {Len(input) + 1} /\ l.from \in Nat /\ l.to \in Nat
        /\ \A i \in Breaks(input) : i <= l.from \/ l.to <= i
    BY <1>2, LineType
  <2>4. CASE Breaks(chunk) = {}
    <3>1. UNCHANGED <<buffered, discarding, pc>>
      BY <1>3, <1>8, <2>4
    <3>2. n < l.to
      <4> SUFFICES ASSUME l.to <= n PROVE FALSE
        BY <1>4, <2>3
      <4>1. l.to - taken \in 1 .. n - taken /\ taken + (l.to - taken) = l.to
        BY <1>2, <1>4, <2>1, <2>3
      <4>2. l.to \in Breaks(input)
        BY <1>2, <1>4, <2>3
      <4> QED BY <1>6, <2>4, <4>1, <4>2
    <3>3. Discarding'
      <4>1. l.from <= n
        BY <1>2, <1>4, <2>1, <2>3
      <4>2. Bytes(SubSeq(input, l.from + 1, n)) > MaxLineBytes
        <5>1. l.from + 1 \in 1 .. Len(input) + 1 /\ taken \in (l.from + 1) - 1 .. Len(input) /\ n \in taken .. Len(input)
          BY <1>2, <1>4, <2>1, <2>3
        <5>2. Bytes(SubSeq(input, l.from + 1, taken)) <= Bytes(SubSeq(input, l.from + 1, n))
          BY <1>2, <5>1, BytesGrow
        <5>3. /\ Bytes(SubSeq(input, l.from + 1, taken)) \in Nat /\ Bytes(SubSeq(input, l.from + 1, n)) \in Nat
              /\ MaxLineBytes \in Nat
          <6>1. /\ SubSeq(input, l.from + 1, taken) \in Seq(Char)
                /\ SubSeq(input, l.from + 1, n) \in Seq(Char)
            BY <1>2, <1>4, <5>1, Slice
          <6> QED BY <6>1, BytesType, InputAssumption
        <5> QED BY ONLY <2>1, <5>2, <5>3
      <4> QED BY <1>1, <1>3, <2>2, <3>2, <4>1, <4>2 DEF Discarding
    <3>4. AtRest' /\ Types'
      BY <1>1, <1>3, <1>4, <3>1 DEF AtRest, Types
    <3> QED BY <1>1, <1>8, <3>1, <3>3, <3>4 DEF IInv
  <2>5. CASE Breaks(chunk) # {}
    <3> DEFINE j == FirstBreak(chunk)
    <3>1. j \in Breaks(chunk) /\ \A i \in Breaks(chunk) : j <= i
      BY <1>5, <2>5, FirstBreakIsFirst
    <3>2. buffered' = AfterBreak(chunk) /\ discarding' = FALSE /\ pc' = "lines"
      BY <1>3, <1>8, <2>5
    <3> HIDE DEF j
    <3>3. j \in 1 .. n - taken /\ taken + j \in Breaks(input)
      BY <1>6, <3>1
    <3>4. l.to = taken + j
      <4>1. l.to <= taken + j
        BY <1>2, <2>1, <2>3, <3>3
      <4>2. l.to - taken \in 1 .. n - taken /\ taken + (l.to - taken) = l.to /\ l.to \in Breaks(input)
        BY <1>2, <1>4, <2>1, <2>3, <3>3, <4>1
      <4>3. j <= l.to - taken
        BY <1>6, <3>1, <4>2
      <4> QED BY <1>2, <2>3, <3>3, <4>1, <4>3
    <3>5. buffered' = SubSeq(input, taken + j + 1, n)
      <4>1. j + 1 \in 1 .. n - (taken + 1) + 2 /\ n - taken \in (j + 1) - 1 .. n - (taken + 1) + 1
        BY <1>2, <1>4, <3>3
      <4>2. SubSeq(chunk, j + 1, n - taken)
                = SubSeq(input, (taken + 1) + (j + 1) - 1, (taken + 1) + (n - taken) - 1)
        BY <1>2, <1>4, <4>1, SliceOfSlice
      <4>3. (taken + 1) + (j + 1) - 1 = taken + j + 1 /\ (taken + 1) + (n - taken) - 1 = n
        BY <1>2, <1>4, <3>3
      <4> QED BY <1>5, <3>2, <4>2, <4>3 DEF AfterBreak, j
    <3>6. buffered' \in Seq(Char) /\ Len(buffered') = n - (taken + j)
      <4>1. taken + j + 1 \in 1 .. Len(input) + 1 /\ n \in (taken + j + 1) - 1 .. Len(input)
        BY <1>2, <1>4, <3>3
      <4>2. buffered' \in Seq(Char) /\ Len(buffered') = n - (taken + j + 1) + 1
        BY <1>2, <3>5, <4>1, Slice
      <4> QED BY <1>2, <1>4, <3>3, <4>2
    <3>7. Offset' = l.to /\ Len(buffered') <= taken'
      BY <1>2, <1>3, <1>4, <3>3, <3>4, <3>6 DEF Offset
    <3>8. Buffering'
      <4>1. Answered(Offset)'
        BY <2>2, <3>7 DEF Answered
      <4>2. Offset' \in Breaks(input)' /\ buffered' = SubSeq(input', Offset' + 1, taken')
        BY <1>1, <1>3, <3>3, <3>4, <3>5, <3>7
      <4> QED BY <3>7, <4>1, <4>2 DEF Buffering
    <3>9. Types'
      BY <1>1, <1>3, <1>4, <3>2, <3>6 DEF Types
    <3> QED BY <3>2, <3>8, <3>9 DEF IInv
  <2> QED BY <2>4, <2>5
<1> QED BY <1>7, <1>8

LEMMA StutterKeeps == ASSUME IInv, UNCHANGED vars PROVE IInv'
BY DEF IInv, vars, Types, Buffering, Discarding, Answered, Offset, AtRest

LEMMA AlwaysIInv == Spec => []IInv
<1>1. IInv /\ [Next]_vars => IInv'
  BY ChunkKeeps, LineKeeps, KeepKeeps, EndKeeps, StutterKeeps DEF Next
<1> QED BY <1>1, InitIInv, PTL DEF Spec

---------------------------------------------------------------------------
\* The theorems.

\* Between two chunks the server holds exactly what has arrived of the line that
\* has not ended, or, exactly when that is over the limit, discards it and holds
\* nothing, whatever it is sent and however it is cut (jsonl.mjs 63-83).
THEOREM LinesTypes == Spec => []TypeOK
<1>1. ASSUME IInv, pc = "read"
      PROVE  /\ discarding <=> Bytes(OpenLine(input, taken)) > MaxLineBytes
             /\ buffered = IF discarding THEN <<>> ELSE OpenLine(input, taken)
  <2>1. /\ Types /\ AtRest /\ input \in Seq(Char) /\ taken \in 0 .. Len(input)
        /\ Len(input) \in Nat /\ MaxLineBytes \in Nat
    BY <1>1, InputType, InputAssumption, LenProperties DEF IInv, Types
  <2>2. CASE discarding
    <3>1. PICK l \in Lines(input) : /\ l.from <= taken /\ taken < l.to
                                    /\ Bytes(SubSeq(input, l.from + 1, taken)) > MaxLineBytes
      BY <1>1, <2>2 DEF IInv, Discarding
    <3>2. OpenLine(input, taken) = SubSeq(input, l.from + 1, taken)
      BY <2>1, <3>1, OpenLineIs
    <3>3. buffered = <<>>
      BY <2>1, <2>2 DEF Types
    <3> QED BY <2>2, <3>1, <3>2, <3>3
  <2>3. CASE ~discarding
    <3>1. Buffering
      BY <1>1, <2>3 DEF IInv
    <3>2. PICK l \in Lines(input) : l.from = Offset /\ taken < l.to
      BY <2>1, <3>1, LineArrives DEF AtRest
    <3>3. Offset <= taken
      BY <2>1, <3>1, BufferIs
    <3>4. OpenLine(input, taken) = buffered
      BY <2>1, <3>1, <3>2, <3>3, OpenLineIs DEF Buffering
    <3>5. Bytes(buffered) <= MaxLineBytes /\ Bytes(buffered) \in Nat
      BY <2>1, BytesType DEF AtRest, Types
    <3>6. ~(Bytes(buffered) > MaxLineBytes)
      BY ONLY <2>1, <3>5
    <3> QED BY <2>3, <3>4, <3>6
  <2> QED BY <2>2, <2>3
<1>2. IInv => TypeOK
  BY <1>1 DEF IInv, TypeOK, Types, Answer
<1> QED BY <1>2, AlwaysIInv, PTL

\* The answers are those the lines of the text are to have, in order and one for
\* each, for every text and wherever the chunks begin and end (jsonl.mjs 63-84).
THEOREM AnswersAreOfLines == Spec => []AnswersFollowTheText
<1>1. ASSUME Types, NEW n, Answered(n)
      PROVE  /\ IsPrefix(answers, Expected(input))
             /\ Len(answers) = Cardinality(Asked(input)) => answers = Expected(input)
  <2> DEFINE N == Cardinality(Asked(input))
             value(k) == AnswerTo(LineText(input, CHOOSE l \in Asked(input) : Rank(input, l) = k))
             V == Answer \cup {value(k) : k \in 1 .. N}
             E == [k \in 1 .. N |-> value(k)]
  <2>1. input \in Seq(Char) /\ answers \in Seq(Answer) /\ Len(answers) \in Nat
    BY <1>1, InputType, LenProperties DEF Types
  <2>2. N \in Nat /\ Len(answers) <= N
    BY <1>1, <2>1, AskedIsFinite DEF Answered
  <2>3. ASSUME NEW k \in 1 .. Len(answers) PROVE answers[k] = value(k)
    <3>1. PICK l \in AskedUpTo(input, n) : Rank(input, l) = k /\ answers[k] = AnswerTo(LineText(input, l))
      BY <1>1 DEF Answered
    <3>2. l \in Asked(input)
      BY DEF AskedUpTo
    <3>3. l = CHOOSE m \in Asked(input) : Rank(input, m) = k
      BY <2>1, <3>1, <3>2, RanksDiffer
    <3> QED BY <3>1, <3>3
  <2>4. Expected(input) = E
    BY DEF Expected
  <2>5. \A k \in 1 .. N : value(k) \in V
    OBVIOUS
  <2> HIDE DEF V, value
  <2>6. E \in [1 .. N -> V]
    BY <2>5
  <2>7. E \in Seq(V) /\ Len(E) = N /\ answers \in Seq(V)
    <3>1. E \in Seq(V) /\ Len(E) = N
      BY <2>2, <2>6
    <3>2. Answer \subseteq V
      BY DEF V
    <3> QED BY <2>1, <3>1, <3>2, SeqMonotonic
  <2>8. \A k \in 1 .. Len(answers) : answers[k] = E[k]
    BY <2>2, <2>3
  <2> HIDE DEF E, N
  <2>9. IsPrefix(answers, E)
    <3> DEFINE s == SubSeq(answers, 1, Len(answers))
               t == SubSeq(E, 1, Len(answers))
    <3>1. \A k \in 1 .. Len(answers) : answers[k] \in V /\ E[k] \in V
      BY <2>2, <2>7, ElementOfSeq
    <3>2. /\ s \in Seq(V) /\ Len(s) = Len(answers)
          /\ \A k \in 1 .. Len(answers) - 1 + 1 : s[k] = answers[1 + k - 1]
      BY <2>1, <3>1, SubSeqProperties
    <3>3. /\ t \in Seq(V) /\ Len(t) = Len(answers)
          /\ \A k \in 1 .. Len(answers) - 1 + 1 : t[k] = E[1 + k - 1]
      BY <2>1, <3>1, SubSeqProperties
    <3> HIDE DEF s, t
    <3>4. \A k \in 1 .. Len(answers) : s[k] = t[k]
      BY <2>1, <2>8, <3>2, <3>3
    <3>5. s = t
      BY <3>2, <3>3, <3>4, SeqEqual
    <3> QED BY <2>2, <2>7, <3>5 DEF IsPrefix, s, t
  <2>10. Len(answers) = N => answers = E
    BY <2>7, <2>8, SeqEqual
  <2> QED BY <2>4, <2>9, <2>10 DEF N
<1>2. ASSUME Types, taken = Len(input), Answered(Len(input) + 1)
      PROVE  Len(answers) = Cardinality(Asked(input))
  <2>1. input \in Seq(Char)
    BY <1>2, InputType
  <2>2. \A l \in Asked(input) : l.to <= Len(input) + 1
    BY <2>1, AskedIsFinite, LineType
  <2>3. AskedUpTo(input, Len(input) + 1) = Asked(input)
    BY <2>2 DEF AskedUpTo
  <2> QED BY <1>2, <2>3 DEF Answered
<1>3. IInv => AnswersFollowTheText
  <2> SUFFICES ASSUME IInv PROVE AnswersFollowTheText
    OBVIOUS
  <2>1. CASE pc = "done"
    BY <1>1, <1>2, <2>1 DEF IInv, AnswersFollowTheText
  <2>2. CASE pc # "done"
    <3>1. \E n : Answered(n)
      BY <2>2 DEF IInv, Buffering, Discarding
    <3> QED BY <1>1, <2>2, <3>1 DEF IInv, AnswersFollowTheText
  <2> QED BY <2>1, <2>2
<1> QED BY <1>3, AlwaysIInv, PTL

\* Whenever the server waits for more, all the lines whose newline has arrived
\* have had their answers: it never waits for a host that waits for it
\* (jsonl.mjs 72-79).
THEOREM LinesAreAnsweredBeforeWaiting == Spec => []AnsweredBeforeWaiting
<1>1. IInv => AnsweredBeforeWaiting
  <2> SUFFICES ASSUME IInv, pc = "read"
               PROVE  Len(answers) >= Cardinality(AskedUpTo(input, taken))
    BY DEF AnsweredBeforeWaiting
  <2>1. Types /\ AtRest /\ input \in Seq(Char)
    BY InputType DEF IInv
  <2>2. CASE ~discarding
    <3>1. Buffering
      BY <2>2 DEF IInv
    <3>2. AskedUpTo(input, taken) = AskedUpTo(input, Offset)
      BY <2>1, <3>1, NothingBetween DEF AtRest
    <3>3. Len(answers) = Cardinality(AskedUpTo(input, taken)) /\ Len(answers) \in Nat
      BY <2>1, <3>1, <3>2, LenProperties DEF Buffering, Answered, Types
    <3> QED BY <3>3
  <2>3. CASE discarding
    <3>1. PICK l \in Lines(input) : taken < l.to /\ Answered(l.to)
      BY <2>3 DEF IInv, Discarding
    <3>2. taken \in Nat /\ l.to \in Nat /\ \A m \in Asked(input) : m.to \in Nat
      BY <2>1, InputType, AskedIsFinite, LineType
    <3>3. AskedUpTo(input, taken) \subseteq AskedUpTo(input, l.to)
      BY <3>1, <3>2 DEF AskedUpTo
    <3>4. /\ IsFiniteSet(AskedUpTo(input, l.to)) /\ Cardinality(AskedUpTo(input, l.to)) \in Nat
          /\ Cardinality(AskedUpTo(input, taken)) \in Nat
      BY <2>1, AskedIsFinite
    <3>5. Cardinality(AskedUpTo(input, taken)) <= Cardinality(AskedUpTo(input, l.to))
      BY <3>3, <3>4, FS_Subset
    <3> QED BY <3>1, <3>4, <3>5 DEF Answered
  <2> QED BY <2>2, <2>3
<1> QED BY <1>1, AlwaysIInv, PTL

====
