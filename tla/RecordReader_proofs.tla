------------------------ MODULE RecordReader_proofs ------------------------
(***************************************************************************)
(* Proofs about RecordReader, for streams and buffers of any size.         *)
(***************************************************************************)
EXTENDS RecordReader, NaturalsInduction, FiniteSetTheorems, SequenceTheorems, TLAPS

----------------------------------------------------------------------------
(* Numbers. *)

\* The induction the proofs about loops use: a set of numbers has a least one.
LEMMA Least ==
    ASSUME NEW T, T \subseteq Nat, T # {}
    PROVE  \E x \in T : \A y \in T : x <= y
<1> DEFINE R == OpToRel(<, Nat)
<1>1. IsWellFoundedOn(R, Nat)
  BY NatLessThanWellFounded
<1>2. \A x, y \in Nat : <<x, y>> \in R <=> x < y
  BY DEF OpToRel
<1> HIDE DEF R
<1>3. PICK x \in T : \A y \in T : ~(<<y, x>> \in R)
  BY <1>1, WFMin
<1>4. ASSUME NEW y \in T  PROVE x <= y
  <2>1. x \in Nat /\ y \in Nat /\ ~(<<y, x>> \in R)
    BY <1>3
  <2>2. ~(y < x)
    BY <1>2, <2>1, Zenon
  <2> QED
    BY <2>1, <2>2
<1> QED
  BY <1>4

\* What holds at the start of a loop and is kept by each of its rounds holds after
\* any number of them.
LEMMA LoopInduction ==
    ASSUME NEW P, P \subseteq Nat, 0 \in P, \A n \in P : n + 1 \in P
    PROVE  P = Nat
<1> SUFFICES ASSUME P # Nat  PROVE FALSE
  OBVIOUS
<1>1. PICK x \in Nat \ P : \A y \in Nat \ P : x <= y
  <2>1. Nat \ P # {} /\ Nat \ P \subseteq Nat
    OBVIOUS
  <2> QED
    BY <2>1, Least
<1>2. x - 1 \in P
  BY <1>1
<1> QED
  BY <1>1, <1>2

\* The last index bytes.LastIndex can find is one it finds.
LEMMA MaxIn ==
    ASSUME NEW n \in Nat, NEW S, S \subseteq 1 .. n, S # {}
    PROVE  Max(S) \in S
<1>1. {n - x : x \in S} \subseteq Nat /\ {n - x : x \in S} # {}
  <2>1. \A x \in S : n - x \in Nat
    OBVIOUS
  <2>2. PICK x : x \in S
    OBVIOUS
  <2>3. n - x \in {n - y : y \in S}
    BY <2>2
  <2> QED
    BY <2>1, <2>3
<1>2. PICK m \in {n - x : x \in S} : \A y \in {n - x : x \in S} : m <= y
  BY <1>1, Least
<1>3. PICK x \in S : m = n - x
  BY <1>2
<1>4. \A y \in S : x >= y
  <2> SUFFICES ASSUME NEW y \in S  PROVE x >= y
    OBVIOUS
  <2>1. n - x <= n - y
    BY <1>2, <1>3
  <2> QED
    BY <2>1
<1> QED
  BY <1>4 DEF Max

----------------------------------------------------------------------------
(* The loop of the CSV reader. *)

\* The states of the loop for the bytes of s are what the definition says.
LEMMA CsvStatesDef ==
    ASSUME NEW eol, NEW s \in Seq(Bytes)
    PROVE  CsvStates(eol, s) =
              [k \in 0 .. Len(s) |->
                  IF k = 0 THEN CsvStart ELSE CsvByte(eol, CsvStates(eol, s)[k - 1], s[k])]
<1> DEFINE Run(f, n) ==
        f = [k \in 0 .. n |-> IF k = 0 THEN CsvStart ELSE CsvByte(eol, f[k - 1], s[k])]
           P == {n \in Nat : \E f : Run(f, n)}
<1> HIDE DEF CsvByte, CsvStart
<1>1. 0 \in P
  <2> DEFINE g == [k \in 0 .. 0 |-> CsvStart]
  <2>1. Run(g, 0)
    OBVIOUS
  <2> QED
    BY <2>1
<1>2. ASSUME NEW n \in P  PROVE n + 1 \in P
  <2>1. PICK f : Run(f, n)
    OBVIOUS
  <2> DEFINE g == [k \in 0 .. n + 1 |-> IF k = n + 1 THEN CsvByte(eol, f[n], s[n + 1]) ELSE f[k]]
  <2>2. n \in Nat /\ \A k \in 0 .. n + 1 : k # n + 1 => k \in 0 .. n
    OBVIOUS
  <2>3. \A k \in 0 .. n : f[k] = IF k = 0 THEN CsvStart ELSE CsvByte(eol, f[k - 1], s[k])
    BY <2>1
  <2>4. ASSUME NEW k \in 0 .. n + 1
        PROVE  g[k] = IF k = 0 THEN CsvStart ELSE CsvByte(eol, g[k - 1], s[k])
    <3>1. CASE k = n + 1
      <4>1. g[k] = CsvByte(eol, f[n], s[n + 1]) /\ g[n] = f[n] /\ k - 1 = n /\ k # 0
        BY <2>2, <3>1
      <4> QED
        BY <3>1, <4>1
    <3>2. CASE k # n + 1
      <4>1. g[k] = f[k] /\ k \in 0 .. n
        BY <2>2, <3>2
      <4>2. k # 0 => g[k - 1] = f[k - 1]
        BY <2>2, <3>2
      <4> QED
        BY <2>3, <4>1, <4>2
    <3> QED
      BY <3>1, <3>2
  <2>5. Run(g, n + 1)
    <3> HIDE DEF g
    <3>1. g = [k \in 0 .. n + 1 |-> g[k]]
      BY DEF g
    <3> QED
      BY <2>4, <3>1
  <2>6. n + 1 \in Nat
    BY <2>2
  <2> QED
    BY <2>5, <2>6
<1>3. P = Nat
  <2> HIDE DEF P
  <2>1. P \subseteq Nat
    BY DEF P
  <2> QED
    BY <1>1, <1>2, <2>1, LoopInduction
<1>4. \E f : Run(f, Len(s))
  BY <1>3
<1> QED
  BY <1>4 DEF CsvStates

\* Where the loop starts and what a round of it does.
LEMMA CsvLoop ==
    ASSUME NEW eol, NEW s \in Seq(Bytes)
    PROVE  /\ CsvStates(eol, s)[0] = CsvStart
           /\ \A k \in 1 .. Len(s) :
                 CsvStates(eol, s)[k] = CsvByte(eol, CsvStates(eol, s)[k - 1], s[k])
<1> DEFINE st == CsvStates(eol, s)
<1> HIDE DEF st
<1>1. st = [k \in 0 .. Len(s) |-> IF k = 0 THEN CsvStart ELSE CsvByte(eol, st[k - 1], s[k])]
  BY CsvStatesDef DEF st
<1>2. Len(s) \in Nat
  OBVIOUS
<1>3. st[0] = CsvStart /\ \A k \in 1 .. Len(s) : st[k] = CsvByte(eol, st[k - 1], s[k])
  BY <1>1, <1>2
<1> QED
  BY <1>3 DEF st

\* Whatever the bytes, the boundary that the loop finds is a place in them.
LEMMA CsvParseRange ==
    ASSUME NEW eol, NEW s \in Seq(Bytes)
    PROVE  CsvParse(eol, s) \in 0 .. Len(s)
<1> DEFINE st == CsvStates(eol, s)
           Ok(k) == st[k].i = k /\ st[k].last \in 0 .. k
           P == {k \in Nat : k <= Len(s) => Ok(k)}
<1>1. /\ st[0] = CsvStart
      /\ \A k \in 1 .. Len(s) : st[k] = CsvByte(eol, st[k - 1], s[k])
  BY CsvLoop
<1> HIDE DEF st
<1>2. 0 \in P
  BY <1>1 DEF CsvStart
<1>3. ASSUME NEW k \in P  PROVE k + 1 \in P
  <2> SUFFICES ASSUME k + 1 <= Len(s)  PROVE Ok(k + 1)
    OBVIOUS
  <2>1. Ok(k) /\ k \in Nat
    OBVIOUS
  <2>2. st[k + 1] = CsvByte(eol, st[k], s[k + 1])
    BY <1>1, <2>1
  <2>3. st[k + 1].i = st[k].i + 1 /\ st[k + 1].last \in {st[k].last, st[k].i + 1}
    BY <2>2 DEF CsvByte
  <2> QED
    BY <2>1, <2>3
<1>4. P = Nat
  <2> HIDE DEF P
  <2>1. P \subseteq Nat
    BY DEF P
  <2> QED
    BY <1>2, <1>3, <2>1, LoopInduction
<1>5. Len(s) \in P
  BY <1>4
<1> QED
  BY <1>5 DEF CsvParse, st

----------------------------------------------------------------------------
(* The records of the stream. *)

\* The quotes among the first k bytes of the stream, and whether they pair up.
Quotes(k) == {j \in 1 .. k : stream[j] = "q"}
Even(k) == Cardinality(Quotes(k)) % 2 = 0

\* A quote turns the parity, another byte leaves it.
LEMMA EvenStep ==
    ASSUME NEW k \in Nat
    PROVE  Even(k + 1) <=> IF stream[k + 1] = "q" THEN ~Even(k) ELSE Even(k)
<1>1. IsFiniteSet(Quotes(k)) /\ Cardinality(Quotes(k)) \in Nat /\ k + 1 \notin Quotes(k)
  <2>1. IsFiniteSet(1 .. k)
    BY FS_Interval
  <2>2. Quotes(k) \subseteq 1 .. k /\ k + 1 \notin Quotes(k)
    BY DEF Quotes
  <2> QED
    BY <2>1, <2>2, FS_Subset, FS_CardinalityType
<1>2. CASE stream[k + 1] = "q"
  <2>1. Quotes(k + 1) = Quotes(k) \cup {k + 1}
    BY <1>2 DEF Quotes
  <2>2. Cardinality(Quotes(k + 1)) = Cardinality(Quotes(k)) + 1
    BY <1>1, <2>1, FS_AddElement
  <2> QED
    BY <1>1, <1>2, <2>2 DEF Even
<1>3. CASE stream[k + 1] # "q"
  <2>1. Quotes(k + 1) = Quotes(k)
    BY <1>3 DEF Quotes
  <2> QED
    BY <1>3, <2>1 DEF Even
<1> QED
  BY <1>2, <1>3

\* No quotes pair up.
LEMMA EvenStart == Even(0)
<1>1. Quotes(0) = {}
  BY DEF Quotes
<1> QED
  BY <1>1, FS_EmptySet DEF Even

\* An end of line at i, by the rules of the format.
EolAt(i) ==
    CASE reader.eol = "nl" -> stream[i] = "n"
      [] reader.eol = "cr" -> stream[i] = "r"
      [] OTHER -> i > 1 /\ stream[i - 1] = "r" /\ stream[i] = "n"

\* The ends of the records, in these terms.
LEMMA RecordEndsAre ==
    ASSUME NEW i
    PROVE  i \in RecordEnds <=>
               i \in 1 .. Len(stream) /\ EolAt(i) /\ (reader.kind = "csv" => Even(i))
BY DEF RecordEnds, EolAt, Even, Quotes

\* For bytes of the stream that start where a record starts, the loop of the CSV reader
\* finds the end of the last record in them: quoted ends of line are not taken for it,
\* and none is missed.
LEMMA CsvParseCorrect ==
    ASSUME reader.kind = "csv", reader.eol \in {"nl", "cr", "crnl"}, stream \in Seq(Bytes),
           NEW o \in Nat, o \in RecordEnds \cup {0},
           NEW s \in Seq(Bytes), o + Len(s) <= Len(stream),
           \A k \in 1 .. Len(s) : s[k] = stream[o + k]
    PROVE  /\ CsvParse(reader.eol, s) \in 0 .. Len(s)
           /\ CsvParse(reader.eol, s) > 0 => o + CsvParse(reader.eol, s) \in RecordEnds
           /\ \A j \in 1 .. Len(s) : o + j \in RecordEnds => j <= CsvParse(reader.eol, s)
<1> DEFINE eol == reader.eol
           st == CsvStates(eol, s)
           Ok(k) ==
              /\ st[k].i = k /\ ~st[k].wasEsc
              /\ st[k].prev = IF k = 0 THEN "x" ELSE s[k]
              /\ st[k].inQuote <=> ~Even(o + k)
              /\ st[k].last \in 0 .. k
              /\ st[k].last > 0 => o + st[k].last \in RecordEnds
              /\ \A j \in 1 .. k : o + j \in RecordEnds => j <= st[k].last
           P == {k \in Nat : k <= Len(s) => Ok(k)}
<1>1. /\ st[0] = CsvStart
      /\ \A k \in 1 .. Len(s) : st[k] = CsvByte(eol, st[k - 1], s[k])
  BY CsvLoop
<1> HIDE DEF st
<1>2. Even(o) /\ (eol \notin {"nl", "cr"} /\ o > 0 => stream[o] = "n")
  BY EvenStart, RecordEndsAre DEF EolAt
<1>3. 0 \in P
  <2>1. Ok(0)
    <3>1. st[0].i = 0 /\ ~st[0].wasEsc /\ st[0].prev = "x" /\ ~st[0].inQuote /\ st[0].last = 0
      BY <1>1 DEF CsvStart
    <3>2. o + 0 = o
      OBVIOUS
    <3> QED
      BY <1>2, <3>1, <3>2
  <2> HIDE DEF Ok
  <2> QED
    BY <2>1
<1>4. ASSUME NEW k \in P  PROVE k + 1 \in P
  <2> SUFFICES ASSUME k + 1 <= Len(s)  PROVE Ok(k + 1)
    <3> HIDE DEF Ok
    <3> QED
      OBVIOUS
  <2> DEFINE c == s[k + 1]
             isEol == \/ eol = "nl" /\ c = "n"
                      \/ eol = "cr" /\ c = "r"
                      \/ eol = "crnl" /\ c = "n" /\ st[k].prev = "r"
  <2>1. Ok(k) /\ k \in Nat /\ o + k \in Nat /\ Len(s) \in Nat /\ Len(stream) \in Nat
    <3> HIDE DEF Ok
    <3> QED
      OBVIOUS
  <2>2. st[k + 1] = CsvByte(eol, st[k], c)
    BY <1>1, <2>1
  <2>3. c = stream[o + k + 1] /\ o + k + 1 \in 1 .. Len(stream) /\ c \in Bytes
    BY <2>1
  <2> HIDE DEF isEol
  <2>4. /\ st[k + 1].i = k + 1 /\ ~st[k + 1].wasEsc /\ st[k + 1].prev = c
        /\ st[k + 1].inQuote <=> IF st[k].inQuote THEN c # "q" ELSE c = "q"
        /\ st[k + 1].last = IF ~st[k].inQuote /\ isEol THEN k + 1 ELSE st[k].last
    <3>1. st[k].i = k /\ ~st[k].wasEsc
      BY <2>1
    <3> HIDE DEF Ok
    <3> DEFINE quoted == IF st[k].inQuote THEN st[k].wasEsc \/ c # "q" ELSE c = "q"
               escaped == st[k].inQuote /\ ~st[k].wasEsc /\ c # "q" /\ c = "q"
               last == IF ~st[k].inQuote /\ isEol THEN k + 1 ELSE st[k].last
    <3>2. st[k + 1] = [i |-> k + 1, prev |-> c, inQuote |-> quoted, wasEsc |-> escaped,
                       last |-> last]
      BY <2>2, <3>1, Zenon DEF CsvByte, Quote, Escape, isEol
    <3> HIDE DEF quoted, escaped, last, c
    <3>3. /\ st[k + 1].i = k + 1 /\ st[k + 1].prev = c /\ st[k + 1].inQuote = quoted
          /\ st[k + 1].wasEsc = escaped /\ st[k + 1].last = last
      BY <3>2
    <3>4. ~escaped
      BY DEF escaped
    <3>5. quoted <=> IF st[k].inQuote THEN c # "q" ELSE c = "q"
      BY <3>1, Zenon DEF quoted
    <3> QED
      BY <3>3, <3>4, <3>5, Zenon DEF last
  <2>5. st[k + 1].inQuote <=> ~Even(o + k + 1)
    BY <2>1, <2>3, <2>4, EvenStep
  <2>6. isEol <=> EolAt(o + k + 1)
    <3>1. CASE eol = "nl"
      BY <2>3, <3>1 DEF EolAt, isEol
    <3>2. CASE eol = "cr"
      BY <2>3, <3>2 DEF EolAt, isEol
    <3>3. CASE eol = "crnl"
      <4>1. st[k].prev = "r" <=> o + k + 1 > 1 /\ stream[o + k] = "r"
        <5>1. CASE k = 0
          BY <1>2, <2>1, <3>3, <5>1
        <5>2. CASE k # 0
          <6>1. k \in 1 .. Len(s)
            BY <2>1, <5>2
          <6> QED
            BY <2>1, <5>2, <6>1
        <5> QED
          BY <5>1, <5>2
      <4>2. (o + k + 1) - 1 = o + k
        BY <2>1
      <4> QED
        BY <2>3, <3>3, <4>1, <4>2 DEF EolAt, isEol
    <3> QED
      BY <3>1, <3>2, <3>3
  <2>7. o + k + 1 \in RecordEnds <=> ~st[k].inQuote /\ isEol
    <3>1. isEol => c # "q"
      BY DEF isEol
    <3> QED
      BY <2>1, <2>3, <2>4, <2>5, <2>6, <3>1, RecordEndsAre
  <2>8. /\ st[k + 1].last \in 0 .. k + 1
        /\ st[k + 1].last > 0 => o + st[k + 1].last \in RecordEnds
        /\ \A j \in 1 .. k + 1 : o + j \in RecordEnds => j <= st[k + 1].last
    <3>1. CASE ~st[k].inQuote /\ isEol
      <4>1. st[k + 1].last = k + 1 /\ o + (k + 1) = o + k + 1
        BY <2>1, <2>4, <3>1
      <4> QED
        BY <2>1, <2>7, <3>1, <4>1
    <3>2. CASE ~(~st[k].inQuote /\ isEol)
      <4>1. st[k + 1].last = st[k].last /\ o + (k + 1) = o + k + 1
        BY <2>1, <2>4, <3>2
      <4>2. \A j \in 1 .. k + 1 : o + j \in RecordEnds => j \in 1 .. k
        BY <2>1, <2>7, <3>2, <4>1
      <4> QED
        BY <2>1, <4>1, <4>2
    <3> QED
      BY <3>1, <3>2
  <2> QED
    BY <2>1, <2>4, <2>5, <2>8
<1>5. P = Nat
  <2> HIDE DEF P
  <2>1. P \subseteq Nat
    BY DEF P
  <2> QED
    BY <1>3, <1>4, <2>1, LoopInduction
<1>6. Len(s) \in P
  BY <1>5
<1> QED
  BY <1>6 DEF CsvParse, st

----------------------------------------------------------------------------
(* The searches of the text and the custom reader. *)

\* The bytes of a part of a slice.
LEMMA SubSeqAt ==
    ASSUME NEW s \in Seq(Bytes), NEW m \in 1 .. Len(s) + 1, NEW n \in 0 .. Len(s), m <= n + 1
    PROVE  /\ SubSeq(s, m, n) \in Seq(Bytes)
           /\ Len(SubSeq(s, m, n)) = n - m + 1
           /\ \A i \in 1 .. n - m + 1 : SubSeq(s, m, n)[i] = s[m + i - 1]
<1>1. m \in Int /\ n \in Int /\ \A i \in m .. n : s[i] \in Bytes
  BY ElementOfSeq
<1> QED
  BY <1>1, SubSeqProperties

\* bytes.LastIndex: the delimiter ends where the search says.
LEMMA LastOfCorrect ==
    ASSUME NEW d \in Seq(Bytes), d # <<>>, NEW s \in Seq(Bytes)
    PROVE  /\ LastOf(d, s) \in 0 .. Len(s)
           /\ LastOf(d, s) > 0 => LastOf(d, s) >= Len(d)
                                  /\ SubSeq(s, LastOf(d, s) - Len(d) + 1, LastOf(d, s)) = d
<1> DEFINE found == {i \in 1 .. Len(s) - Len(d) + 1 : SubSeq(s, i, i + Len(d) - 1) = d}
<1>1. Len(s) \in Nat /\ Len(d) \in Nat /\ Len(d) > 0
  BY EmptySeq
<1>2. CASE found = {}
  BY <1>1, <1>2 DEF LastOf
<1>3. CASE found # {}
  <2>1. found \subseteq 1 .. Len(s)
    BY <1>1
  <2>2. Max(found) \in found
    BY <1>1, <1>3, <2>1, MaxIn
  <2>3. LastOf(d, s) = Max(found) + Len(d) - 1
    BY <1>3 DEF LastOf
  <2>4. PICK m \in 1 .. Len(s) - Len(d) + 1 :
            LastOf(d, s) = m + Len(d) - 1 /\ SubSeq(s, m, m + Len(d) - 1) = d
    BY <2>2, <2>3
  <2>5. m = LastOf(d, s) - Len(d) + 1
    BY <1>1, <2>4
  <2> QED
    BY <1>1, <2>4, <2>5
<1> QED
  BY <1>2, <1>3

\* The search for the end of line of the reader.
LEMMA DelimiterCorrect ==
    ASSUME reader.eol \in {"nl", "cr", "crnl"}, NEW s \in Seq(Bytes),
           NEW p, p = LastOf(Delimiter(reader.eol), s)
    PROVE  /\ p \in 0 .. Len(s)
           /\ p > 0 => CASE reader.eol = "nl" -> s[p] = "n"
                         [] reader.eol = "cr" -> s[p] = "r"
                         [] OTHER -> p > 1 /\ s[p - 1] = "r" /\ s[p] = "n"
<1> DEFINE d == Delimiter(reader.eol)
<1>1. d = IF reader.eol = "nl" THEN <<"n">> ELSE IF reader.eol = "cr" THEN <<"r">> ELSE <<"r", "n">>
  BY DEF Delimiter
<1>2. d \in Seq(Bytes) /\ d # <<>>
  <2>1. <<"n">> \in Seq(Bytes) /\ <<"r">> \in Seq(Bytes) /\ <<"r", "n">> \in Seq(Bytes)
    BY DEF Bytes
  <2>2. <<"n">> # <<>> /\ <<"r">> # <<>> /\ <<"r", "n">> # <<>>
    OBVIOUS
  <2> QED
    BY <1>1, <2>1, <2>2, Zenon
<1>3. Len(d) = IF reader.eol \in {"nl", "cr"} THEN 1 ELSE 2
  BY <1>1
<1> HIDE DEF d
<1>4. /\ p \in 0 .. Len(s)
      /\ p > 0 => p >= Len(d) /\ SubSeq(s, p - Len(d) + 1, p) = d
  BY <1>2, LastOfCorrect DEF d
<1> SUFFICES ASSUME p > 0
             PROVE  CASE reader.eol = "nl" -> s[p] = "n"
                      [] reader.eol = "cr" -> s[p] = "r"
                      [] OTHER -> p > 1 /\ s[p - 1] = "r" /\ s[p] = "n"
  BY <1>4
<1>5. Len(s) \in Nat /\ p \in 1 .. Len(s)
  <2>1. p \in 0 .. Len(s)
    BY <1>4, Zenon
  <2> QED
    BY <2>1
<1>6. CASE reader.eol \in {"nl", "cr"}
  <2>1. SubSeq(s, p, p) = d
    <3>1. p - 1 + 1 = p
      BY <1>5
    <3> QED
      BY <1>3, <1>4, <1>6, <3>1
  <2>2. SubSeq(s, p, p)[1] = s[p]
    <3>1. /\ p \in 1 .. Len(s) + 1 /\ p \in 0 .. Len(s) /\ p <= p + 1
          /\ p + 1 - 1 = p /\ 1 \in 1 .. p - p + 1
      BY <1>5
    <3>2. \A i \in 1 .. p - p + 1 : SubSeq(s, p, p)[i] = s[p + i - 1]
      BY <3>1, SubSeqAt
    <3>3. SubSeq(s, p, p)[1] = s[p + 1 - 1]
      BY <3>1, <3>2, Zenon
    <3> QED
      BY <3>1, <3>3, Zenon
  <2> QED
    BY <1>1, <1>6, <2>1, <2>2
<1>7. CASE reader.eol = "crnl"
  <2>1. SubSeq(s, p - 1, p) = <<"r", "n">> /\ p > 1
    <3>1. p - 2 + 1 = p - 1
      BY <1>5
    <3> QED
      BY <1>1, <1>3, <1>4, <1>5, <1>7, <3>1
  <2>2. SubSeq(s, p - 1, p)[1] = s[p - 1] /\ SubSeq(s, p - 1, p)[2] = s[p]
    <3> DEFINE m == p - 1
    <3>1. p > 1
      BY <2>1
    <3>2. m \in 1 .. Len(s) + 1 /\ p \in 0 .. Len(s) /\ m <= p + 1
      BY <1>5, <3>1
    <3>3. 1 \in 1 .. p - m + 1 /\ 2 \in 1 .. p - m + 1 /\ m + 1 - 1 = m /\ m + 2 - 1 = p
      BY <1>5, <3>1
    <3> HIDE DEF m
    <3>4. \A i \in 1 .. p - m + 1 : SubSeq(s, m, p)[i] = s[m + i - 1]
      BY <3>2, SubSeqAt
    <3>5. SubSeq(s, m, p)[1] = s[m + 1 - 1] /\ SubSeq(s, m, p)[2] = s[m + 2 - 1]
      BY <3>3, <3>4, Zenon
    <3>6. SubSeq(s, m, p)[1] = s[m] /\ SubSeq(s, m, p)[2] = s[p]
      BY <3>3, <3>5, Zenon
    <3> QED
      BY <3>6 DEF m
  <2>3. <<"r", "n">>[1] = "r" /\ <<"r", "n">>[2] = "n"
    OBVIOUS
  <2> QED
    BY <1>7, <2>1, <2>2, <2>3
<1> QED
  BY <1>6, <1>7

\* The text and the custom reader search for the same thing.
LEMMA TextSearches ==
    ASSUME reader.kind \in {"text", "custom"}, reader.eol \in {"nl", "cr", "crnl"},
           NEW s \in Seq(Bytes), ParseRecords(s) # 0
    PROVE  ParseRecords(s) = LastOf(Delimiter(reader.eol), s)
<1>1. TextParse(reader.eol, s) = LastOf(Delimiter(reader.eol), s)
  BY DEF TextParse, Delimiter
<1>2. CASE reader.kind = "text"
  BY <1>1, <1>2 DEF ParseRecords
<1>3. CASE reader.kind = "custom"
  <2>1. ParseRecords(s) = CustomParse(Delimiter(reader.eol), s)
    BY <1>3 DEF ParseRecords
  <2> QED
    BY <2>1 DEF CustomParse
<1> QED
  BY <1>2, <1>3

\* What parseRecords returns is a place in the buffer.
LEMMA ParseRange ==
    ASSUME reader \in [kind : {"csv", "text", "custom"}, eol : {"nl", "cr", "crnl"}],
           NEW s \in Seq(Bytes)
    PROVE  ParseRecords(s) \in 0 .. Len(s)
<1>1. CASE reader.kind = "csv"
  BY <1>1, CsvParseRange DEF ParseRecords
<1>2. CASE reader.kind # "csv" /\ ParseRecords(s) # 0
  <2>1. ParseRecords(s) = LastOf(Delimiter(reader.eol), s)
    BY <1>2, TextSearches
  <2> QED
    BY <2>1, DelimiterCorrect
<1>3. CASE ParseRecords(s) = 0
  BY <1>3
<1> QED
  BY <1>1, <1>2, <1>3

\* For bytes of the stream, wherever they start, the text readers find the end of a
\* record: their end of line has no context.
LEMMA TextParseCorrect ==
    ASSUME reader \in [kind : {"csv", "text", "custom"}, eol : {"nl", "cr", "crnl"}],
           reader.kind # "csv", stream \in Seq(Bytes),
           NEW o \in Nat, NEW s \in Seq(Bytes), o + Len(s) <= Len(stream),
           \A k \in 1 .. Len(s) : s[k] = stream[o + k],
           ParseRecords(s) > 0
    PROVE  o + ParseRecords(s) \in RecordEnds
<1> DEFINE p == ParseRecords(s)
<1>1. p \in 0 .. Len(s) /\ Len(s) \in Nat /\ Len(stream) \in Nat
  BY ParseRange
<1>2. p = LastOf(Delimiter(reader.eol), s)
  BY TextSearches
<1> HIDE DEF p
<1>3. p \in 1 .. Len(s)
  BY <1>1 DEF p
<1>4. (CASE reader.eol = "nl" -> s[p] = "n"
         [] reader.eol = "cr" -> s[p] = "r"
         [] OTHER -> p > 1 /\ s[p - 1] = "r" /\ s[p] = "n")
  BY <1>2, <1>3, DelimiterCorrect
<1>5. s[p] = stream[o + p] /\ o + p \in 1 .. Len(stream)
  BY <1>1, <1>3
<1>6. p > 1 => s[p - 1] = stream[(o + p) - 1] /\ o + p > 1
  <2>1. p > 1 => p - 1 \in 1 .. Len(s) /\ o + (p - 1) = (o + p) - 1 /\ o + p > 1
    BY <1>1, <1>3
  <2> QED
    BY <2>1
<1>7. EolAt(o + p)
  BY <1>4, <1>5, <1>6 DEF EolAt
<1> QED
  BY <1>5, <1>7, RecordEndsAre DEF p

----------------------------------------------------------------------------
(* The bytes on their way. *)

\* The bytes of the stream after the first a, up to the first b.
Slice(a, b) == SubSeq(stream, a + 1, b)

\* The bytes of a slice.
LEMMA SliceAt ==
    ASSUME stream \in Seq(Bytes), NEW a \in Nat, NEW b \in a .. Len(stream)
    PROVE  /\ Slice(a, b) \in Seq(Bytes) /\ Len(Slice(a, b)) = b - a
           /\ \A k \in 1 .. b - a : Slice(a, b)[k] = stream[a + k]
<1>1. a + 1 \in 1 .. Len(stream) + 1 /\ b \in 0 .. Len(stream) /\ a + 1 <= b + 1
      /\ b - (a + 1) + 1 = b - a /\ \A k \in 1 .. b - a : a + 1 + k - 1 = a + k
  OBVIOUS
<1>2. /\ SubSeq(stream, a + 1, b) \in Seq(Bytes)
      /\ Len(SubSeq(stream, a + 1, b)) = b - (a + 1) + 1
      /\ \A i \in 1 .. b - (a + 1) + 1 : SubSeq(stream, a + 1, b)[i] = stream[a + 1 + i - 1]
  BY <1>1, SubSeqAt
<1> QED
  BY <1>1, <1>2 DEF Slice

\* A slice and the next one.
LEMMA SliceConcat ==
    ASSUME stream \in Seq(Bytes), NEW a \in Nat, NEW b \in a .. Len(stream),
           NEW c \in b .. Len(stream)
    PROVE  Slice(a, b) \o Slice(b, c) = Slice(a, c)
<1>1. a + 1 \in 1 .. Len(stream) + 1 /\ b \in (a + 1) - 1 .. Len(stream)
  OBVIOUS
<1> QED
  BY <1>1, ConcatAdjacentSubSeq DEF Slice

\* A part of a slice.
LEMMA SliceOfSlice ==
    ASSUME stream \in Seq(Bytes), NEW a \in Nat, NEW b \in a .. Len(stream),
           NEW i \in 0 .. b - a, NEW j \in i .. b - a
    PROVE  SubSeq(Slice(a, b), i + 1, j) = Slice(a + i, a + j)
<1>1. /\ Slice(a, b) \in Seq(Bytes) /\ Len(Slice(a, b)) = b - a
      /\ \A k \in 1 .. b - a : Slice(a, b)[k] = stream[a + k]
  BY SliceAt
<1>2. a + i \in Nat /\ a + j \in a + i .. Len(stream) /\ (a + j) - (a + i) = j - i
  OBVIOUS
<1>3. /\ Slice(a + i, a + j) \in Seq(Bytes) /\ Len(Slice(a + i, a + j)) = j - i
      /\ \A k \in 1 .. j - i : Slice(a + i, a + j)[k] = stream[(a + i) + k]
  BY <1>2, SliceAt
<1> DEFINE s == Slice(a, b)
<1> HIDE DEF s
<1>4. i + 1 \in 1 .. Len(s) + 1 /\ j \in 0 .. Len(s) /\ i + 1 <= j + 1 /\ j - (i + 1) + 1 = j - i
  BY <1>1 DEF s
<1>5. /\ SubSeq(s, i + 1, j) \in Seq(Bytes) /\ Len(SubSeq(s, i + 1, j)) = j - (i + 1) + 1
      /\ \A k \in 1 .. j - (i + 1) + 1 : SubSeq(s, i + 1, j)[k] = s[i + 1 + k - 1]
  BY <1>1, <1>4, SubSeqAt DEF s
<1>6. \A k \in 1 .. j - i : SubSeq(s, i + 1, j)[k] = Slice(a + i, a + j)[k]
  <2> SUFFICES ASSUME NEW k \in 1 .. j - i
               PROVE  SubSeq(s, i + 1, j)[k] = Slice(a + i, a + j)[k]
    OBVIOUS
  <2>1. i + 1 + k - 1 = i + k /\ i + k \in 1 .. b - a /\ a + (i + k) = (a + i) + k
    OBVIOUS
  <2>2. SubSeq(s, i + 1, j)[k] = s[i + k]
    BY <1>4, <1>5, <2>1
  <2>3. s[i + k] = stream[(a + i) + k]
    BY <1>1, <2>1 DEF s
  <2> QED
    BY <1>3, <2>2, <2>3
<1>7. SubSeq(s, i + 1, j) = Slice(a + i, a + j)
  BY <1>3, <1>4, <1>5, <1>6, SeqEqual
<1> QED
  BY <1>7 DEF s

----------------------------------------------------------------------------
(* The inductive invariant. *)

\* What is fixed, and the two states.
ReaderType ==
    /\ reader \in [kind : {"csv", "text", "custom"}, eol : {"nl", "cr", "crnl"}]
    /\ stream \in Seq(Bytes)
    /\ pending \in {"none", "eof", "failed"} /\ state \in {"reading", "eof", "failed"}

\* What was returned, what Read collects and what the buffer holds are adjacent pieces
\* of the stream.
At(a, b) ==
    /\ a \in 0 .. pos /\ b \in a .. pos /\ pos \in 0 .. Len(stream)
    /\ out = Slice(0, a) /\ raw = Slice(a, b) /\ buf = Slice(b, pos)
PiecesInv ==
    /\ \E a, b \in 0 .. Len(stream) : At(a, b)
    /\ state # "reading" => raw = <<>> /\ buf = <<>>
    /\ pending = "eof" \/ state = "eof" => pos = Len(stream)

\* The CSV reader starts each search where a record starts, as long as the records fit.
StartInv ==
    reader.kind = "csv" /\ RecordsFit /\ state = "reading"
        => raw = <<>> /\ Len(out) \in RecordEnds \cup {0}

ReaderInv == ReaderType /\ PiecesInv /\ StartInv /\ BlocksEndRecords

\* A slice of no bytes.
LEMMA SliceEmpty ==
    ASSUME stream \in Seq(Bytes), NEW a \in 0 .. Len(stream)
    PROVE  Slice(a, a) = <<>>
<1>1. a \in Nat /\ a \in a .. Len(stream) /\ a - a = 0
  OBVIOUS
<1>2. Slice(a, a) \in Seq(Bytes) /\ Len(Slice(a, a)) = 0
  BY <1>1, SliceAt
<1> QED
  BY <1>2, EmptySeq

\* What the pieces are, and what they add up to.
LEMMA Pieces ==
    ASSUME ReaderType, NEW a, NEW b, At(a, b)
    PROVE  /\ a \in Nat /\ b \in Nat /\ pos \in Nat /\ Len(stream) \in Nat
           /\ a <= b /\ b <= pos /\ pos <= Len(stream)
           /\ out \in Seq(Bytes) /\ Len(out) = a
           /\ raw \in Seq(Bytes) /\ Len(raw) = b - a
           /\ buf \in Seq(Bytes) /\ Len(buf) = pos - b
           /\ \A k \in 1 .. Len(buf) : buf[k] = stream[b + k]
           /\ out \o raw = Slice(0, b)
           /\ out \o raw \o buf = Slice(0, pos)
<1>1. stream \in Seq(Bytes) /\ Len(stream) \in Nat
  BY DEF ReaderType
<1>2. /\ a \in Nat /\ b \in Nat /\ pos \in Nat /\ a <= b /\ b <= pos /\ pos <= Len(stream)
      /\ a - 0 = a /\ 0 \in Nat
      /\ a \in 0 .. Len(stream) /\ b \in a .. Len(stream) /\ pos \in b .. Len(stream)
      /\ b \in 0 .. Len(stream)
  BY <1>1 DEF At
<1>3. out = Slice(0, a) /\ raw = Slice(a, b) /\ buf = Slice(b, pos)
  BY DEF At
<1>4. out \in Seq(Bytes) /\ Len(out) = a
  BY <1>1, <1>2, <1>3, SliceAt
<1>5. raw \in Seq(Bytes) /\ Len(raw) = b - a
  BY <1>1, <1>2, <1>3, SliceAt
<1>6. buf \in Seq(Bytes) /\ Len(buf) = pos - b /\ \A k \in 1 .. Len(buf) : buf[k] = stream[b + k]
  <2>1. /\ Slice(b, pos) \in Seq(Bytes) /\ Len(Slice(b, pos)) = pos - b
        /\ \A k \in 1 .. pos - b : Slice(b, pos)[k] = stream[b + k]
    BY <1>1, <1>2, SliceAt
  <2> QED
    BY <1>3, <2>1
<1>7. out \o raw = Slice(0, b)
  BY <1>1, <1>2, <1>3, SliceConcat
<1>8. Slice(0, b) \o buf = Slice(0, pos)
  BY <1>1, <1>2, <1>3, SliceConcat
<1> QED
  BY <1>1, <1>2, <1>4, <1>5, <1>6, <1>7, <1>8

\* A CSV search that starts where a record starts, and one of the other readers,
\* stop where a record ends.
LEMMA BoundaryCorrect ==
    ASSUME ReaderInv, NEW a, NEW b, At(a, b), Searching, Boundary > 0,
           reader.kind # "csv" \/ RecordsFit
    PROVE  b + Boundary \in RecordEnds
<1>1. /\ b \in Nat /\ Len(stream) \in Nat /\ pos \in Nat /\ pos <= Len(stream)
      /\ buf \in Seq(Bytes) /\ Len(buf) = pos - b
      /\ \A k \in 1 .. Len(buf) : buf[k] = stream[b + k]
      /\ Len(out) = a /\ Len(raw) = b - a /\ a \in Nat
  BY Pieces DEF ReaderInv
<1>2. reader \in [kind : {"csv", "text", "custom"}, eol : {"nl", "cr", "crnl"}]
      /\ stream \in Seq(Bytes) /\ b + Len(buf) <= Len(stream)
  BY <1>1 DEF ReaderInv, ReaderType
<1>3. CASE reader.kind # "csv"
  BY <1>1, <1>2, <1>3, TextParseCorrect DEF Boundary
<1>4. CASE reader.kind = "csv"
  <2>1. raw = <<>> /\ Len(out) \in RecordEnds \cup {0}
    BY <1>4 DEF ReaderInv, StartInv, Searching
  <2>2. a = b /\ b \in RecordEnds \cup {0}
    BY <1>1, <2>1
  <2>3. reader.eol \in {"nl", "cr", "crnl"}
    BY <1>2
  <2>4. Boundary = CsvParse(reader.eol, buf)
    BY <1>4 DEF Boundary, ParseRecords
  <2> QED
    BY <1>1, <1>2, <1>4, <2>2, <2>3, <2>4, CsvParseCorrect
<1> QED
  BY <1>3, <1>4

\* A CSV search that starts where a record starts finds a record in a full buffer.
LEMMA NeverStuck ==
    ASSUME ReaderInv, Searching, Boundary = 0, Full, reader.kind = "csv", RecordsFit
    PROVE  FALSE
<1>1. PICK a, b \in 0 .. Len(stream) : At(a, b)
  BY DEF ReaderInv, PiecesInv
<1>2. /\ b \in Nat /\ Len(stream) \in Nat /\ pos \in Nat /\ pos <= Len(stream)
      /\ buf \in Seq(Bytes) /\ Len(buf) = pos - b
      /\ \A k \in 1 .. Len(buf) : buf[k] = stream[b + k]
      /\ Len(out) = a /\ Len(raw) = b - a /\ a \in Nat
  BY <1>1, Pieces DEF ReaderInv
<1>3. reader \in [kind : {"csv", "text", "custom"}, eol : {"nl", "cr", "crnl"}]
      /\ stream \in Seq(Bytes) /\ b + Len(buf) <= Len(stream)
  BY <1>2 DEF ReaderInv, ReaderType
<1>4. raw = <<>> /\ Len(out) \in RecordEnds \cup {0}
  BY DEF ReaderInv, StartInv, Searching
<1>5. a = b /\ b \in RecordEnds \cup {0}
  BY <1>2, <1>4
<1>6. BufSize \in Nat /\ BufSize <= Len(buf) /\ b \in 0 .. Len(stream) - BufSize
  <2>1. BufSize \in Nat /\ Len(buf) \in Nat /\ BufSize <= Len(buf) /\ b \in Nat
    BY <1>2, ReaderAssumption DEF Full
  <2>2. Len(stream) \in Nat /\ b + Len(buf) <= Len(stream)
    BY <1>3
  <2> QED
    BY <2>1, <2>2
<1>7. PICK e \in RecordEnds : b < e /\ e <= b + BufSize
  BY <1>5, <1>6 DEF RecordsFit
<1>8. PICK d \in 1 .. Len(buf) : b + d = e
  <2>1. e \in Nat
    BY <1>2, <1>7 DEF RecordEnds
  <2>2. b \in Nat /\ BufSize \in Nat /\ Len(buf) \in Nat /\ BufSize <= Len(buf)
    BY <1>2, <1>6
  <2>3. e - b \in 1 .. Len(buf) /\ b + (e - b) = e
    BY <1>7, <2>1, <2>2
  <2> QED
    BY <2>3
<1>9. reader.eol \in {"nl", "cr", "crnl"} /\ Boundary = CsvParse(reader.eol, buf)
  BY <1>3 DEF Boundary, ParseRecords
<1>10. \A j \in 1 .. Len(buf) : b + j \in RecordEnds => j <= CsvParse(reader.eol, buf)
  BY <1>2, <1>3, <1>5, <1>9, CsvParseCorrect
<1>11. d <= Boundary
  BY <1>7, <1>8, <1>9, <1>10
<1> QED
  BY <1>2, <1>8, <1>11

----------------------------------------------------------------------------
(* The steps of readRecord. *)

\* The first search starts with the stream.
LEMMA ReaderInit == Init => ReaderInv
<1> SUFFICES ASSUME Init PROVE ReaderInv
  OBVIOUS
<1>1. stream \in Seq(Bytes)
  BY ReaderAssumption, SeqDef DEF Init
<1>2. reader \in [kind : {"csv", "text", "custom"}, eol : {"nl", "cr", "crnl"}]
      /\ pos = 0 /\ buf = <<>> /\ pending = "none"
      /\ raw = <<>> /\ out = <<>> /\ ends = {} /\ state = "reading"
  BY DEF Init
<1>3. ReaderType
  BY <1>1, <1>2 DEF ReaderType
<1>4. Len(stream) \in Nat /\ 0 \in 0 .. Len(stream)
  BY <1>1
<1>5. Slice(0, 0) = <<>>
  BY <1>1, <1>4, SliceEmpty
<1>6. At(0, 0)
  BY <1>2, <1>4, <1>5 DEF At
<1>7. PiecesInv
  BY <1>2, <1>4, <1>6 DEF PiecesInv
<1>8. StartInv
  BY <1>2 DEF StartInv
<1>9. BlocksEndRecords
  BY <1>2 DEF BlocksEndRecords
<1> QED
  BY <1>3, <1>7, <1>8, <1>9 DEF ReaderInv

\* The stream and the reader are fixed, and so are the records.
LEMMA Fixed ==
    ASSUME reader' = reader, stream' = stream
    PROVE  /\ RecordEnds' = RecordEnds /\ RecordsFit' = RecordsFit
           /\ \A x, y : Slice(x, y)' = Slice(x, y)
<1>1. RecordEnds' = RecordEnds
  BY DEF RecordEnds
<1>2. RecordsFit' = RecordsFit
  BY <1>1 DEF RecordsFit
<1>3. \A x, y : Slice(x, y)' = Slice(x, y)
  BY DEF Slice
<1> QED
  BY <1>1, <1>2, <1>3

\* readRecord returns a block that ends with a record.
LEMMA ReaderReturnRecord == ReaderInv /\ ReturnRecord => ReaderInv'
<1> SUFFICES ASSUME ReaderInv, ReturnRecord PROVE ReaderInv'
  OBVIOUS
<1>1. PICK a, b \in 0 .. Len(stream) : At(a, b)
  BY DEF ReaderInv, PiecesInv
<1>2. /\ a \in Nat /\ b \in Nat /\ pos \in Nat /\ Len(stream) \in Nat
      /\ a <= b /\ b <= pos /\ pos <= Len(stream)
      /\ buf \in Seq(Bytes) /\ Len(buf) = pos - b /\ buf = Slice(b, pos)
      /\ Len(out) = a /\ Len(raw) = b - a /\ out \o raw = Slice(0, b)
  BY <1>1, Pieces DEF ReaderInv, At
<1>3. ReaderType
  BY DEF ReaderInv
<1>4. stream \in Seq(Bytes)
  BY <1>3 DEF ReaderType
<1>5. Boundary \in 1 .. Len(buf)
  BY <1>2, <1>3, ParseRange DEF ReturnRecord, Boundary, ReaderType
<1>6. PICK p \in 1 .. pos - b : p = Boundary
  BY <1>2, <1>5
<1>7. PICK e \in Nat : e = b + p
  BY <1>2, <1>6
<1>8. /\ e \in 1 .. pos /\ e \in 0 .. Len(stream) /\ b \in 0 .. Len(stream) /\ e \in b .. Len(stream)
      /\ 0 + 1 = 1 /\ b + 0 = b /\ b + (pos - b) = pos /\ pos \in b .. Len(stream)
      /\ p \in 0 .. pos - b /\ pos - b \in p .. pos - b /\ 0 \in 0 .. pos - b /\ e - 0 = e /\ 0 \in Nat
      /\ e \in 0 .. pos /\ e \in e .. pos
  BY <1>2, <1>6, <1>7
<1>9. /\ buf' = SubSeq(buf, p + 1, Len(buf)) /\ out' = out \o raw \o SubSeq(buf, 1, p)
      /\ raw' = <<>> /\ state' = "reading" /\ state = "reading"
      /\ reader' = reader /\ stream' = stream /\ pos' = pos /\ pending' = pending
  BY <1>6 DEF ReturnRecord, Return, Searching
<1>10. SubSeq(buf, 0 + 1, p) = Slice(b + 0, b + p)
  BY <1>2, <1>4, <1>8, SliceOfSlice
<1>11. out' = Slice(0, e)
  <2>1. SubSeq(buf, 1, p) = Slice(b, e)
    BY <1>7, <1>8, <1>10
  <2>2. Slice(0, b) \o Slice(b, e) = Slice(0, e)
    BY <1>4, <1>8, SliceConcat
  <2> QED
    BY <1>2, <1>9, <2>1, <2>2
<1>12. buf' = Slice(e, pos)
  <2>1. SubSeq(buf, p + 1, pos - b) = Slice(b + p, b + (pos - b))
    BY <1>2, <1>4, <1>8, SliceOfSlice
  <2> QED
    BY <1>2, <1>7, <1>8, <1>9, <2>1
<1>13. Slice(e, e) = <<>>
  BY <1>4, <1>8, SliceEmpty
<1>14. RecordEnds' = RecordEnds /\ RecordsFit' = RecordsFit
       /\ \A x, y : Slice(x, y)' = Slice(x, y)
  BY <1>9, Fixed
<1>15. ReaderType'
  BY <1>3, <1>9 DEF ReaderType
<1>16. At(e, e)'
  <2>1. pos \in 0 .. Len(stream)
    BY <1>2
  <2> QED
    BY <1>8, <1>9, <1>11, <1>12, <1>13, <1>14, <2>1 DEF At
<1>17. PiecesInv'
  <2>1. (\E x, y \in 0 .. Len(stream) : At(x, y))'
    BY <1>8, <1>9, <1>16
  <2>2. pending = "eof" \/ state = "eof" => pos = Len(stream)
    BY DEF ReaderInv, PiecesInv
  <2> QED
    BY <1>9, <2>1, <2>2 DEF PiecesInv
<1>18. reader.kind # "csv" \/ RecordsFit => e \in RecordEnds
  BY <1>1, <1>6, <1>7, BoundaryCorrect DEF ReturnRecord
<1>19. Len(out') = e
  BY <1>4, <1>8, <1>11, SliceAt
<1>20. StartInv'
  BY <1>9, <1>14, <1>18, <1>19 DEF StartInv
<1>21. BlocksEndRecords'
  <2>1. Len(SubSeq(buf, 1, p)) = p
    <3>1. 1 \in 1 .. Len(buf) + 1 /\ p \in 0 .. Len(buf) /\ 1 <= p + 1 /\ p - 1 + 1 = p
      BY <1>2, <1>6
    <3> QED
      BY <1>2, <3>1, SubSeqAt
  <2>2. ends' = ends \cup {Len(out) + Len(raw) + Len(SubSeq(buf, 1, p))}
    BY <1>6 DEF ReturnRecord, Return
  <2>3. ends' = ends \cup {e}
    BY <1>2, <1>6, <1>7, <2>1, <2>2
  <2>4. reader.kind # "csv" \/ RecordsFit => ends \subseteq RecordEnds
    BY DEF ReaderInv, BlocksEndRecords
  <2> QED
    BY <1>9, <1>14, <1>18, <2>3, <2>4 DEF BlocksEndRecords
<1> QED
  BY <1>15, <1>17, <1>20, <1>21 DEF ReaderInv

\* A step that returns no block but the last leaves the records found as they are.
LEMMA NoBlock ==
    ASSUME ReaderInv, reader' = reader, stream' = stream, ends' = ends
    PROVE  BlocksEndRecords'
<1>1. RecordEnds' = RecordEnds /\ RecordsFit' = RecordsFit
  BY Fixed
<1>2. reader.kind # "csv" \/ RecordsFit => ends \subseteq RecordEnds
  BY DEF ReaderInv, BlocksEndRecords
<1> QED
  BY <1>1, <1>2 DEF BlocksEndRecords

\* readRecord returns the rest with the error.
LEMMA ReaderReturnPending == ReaderInv /\ ReturnPending => ReaderInv'
<1> SUFFICES ASSUME ReaderInv, ReturnPending PROVE ReaderInv'
  OBVIOUS
<1>1. PICK a, b \in 0 .. Len(stream) : At(a, b)
  BY DEF ReaderInv, PiecesInv
<1>2. /\ pos \in Nat /\ Len(stream) \in Nat /\ pos <= Len(stream)
      /\ out \o raw \o buf = Slice(0, pos)
  BY <1>1, Pieces DEF ReaderInv
<1>3. ReaderType
  BY DEF ReaderInv
<1>4. stream \in Seq(Bytes)
  BY <1>3 DEF ReaderType
<1>5. /\ out' = out \o raw \o buf /\ raw' = <<>> /\ buf' = <<>>
      /\ pending # "none" /\ state' = pending /\ pending' = "none"
      /\ reader' = reader /\ stream' = stream /\ pos' = pos
  BY DEF ReturnPending, Return
<1>6. state' \in {"eof", "failed"}
  BY <1>3, <1>5 DEF ReaderType
<1>7. ends' = ends
  BY <1>5, <1>6 DEF ReturnPending, Return
<1>8. PICK e \in 0 .. Len(stream) : e = pos
  BY <1>2
<1>9. Slice(e, e) = <<>> /\ \A x, y : Slice(x, y)' = Slice(x, y)
  BY <1>4, <1>5, <1>8, SliceEmpty, Fixed
<1>10. ReaderType'
  BY <1>3, <1>5, <1>6 DEF ReaderType
<1>11. At(e, e)'
  <2>1. e \in 0 .. e /\ e \in e .. e
    BY <1>2, <1>8
  <2> QED
    BY <1>2, <1>5, <1>8, <1>9, <2>1 DEF At
<1>12. PiecesInv'
  <2>1. (\E x, y \in 0 .. Len(stream) : At(x, y))'
    BY <1>5, <1>8, <1>11
  <2>2. pending = "eof" => pos = Len(stream)
    BY DEF ReaderInv, PiecesInv
  <2> QED
    BY <1>5, <2>1, <2>2 DEF PiecesInv
<1>13. StartInv'
  BY <1>6 DEF StartInv
<1>14. BlocksEndRecords'
  BY <1>5, <1>7, NoBlock
<1> QED
  BY <1>10, <1>12, <1>13, <1>14 DEF ReaderInv

\* ErrBufferFull moves the buffer to rawBuffer.
LEMMA ReaderBufferFull == ReaderInv /\ BufferFull => ReaderInv'
<1> SUFFICES ASSUME ReaderInv, BufferFull PROVE ReaderInv'
  OBVIOUS
<1>1. PICK a, b \in 0 .. Len(stream) : At(a, b)
  BY DEF ReaderInv, PiecesInv
<1>2. /\ a \in Nat /\ b \in Nat /\ pos \in Nat /\ Len(stream) \in Nat
      /\ a <= b /\ b <= pos /\ pos <= Len(stream)
      /\ out = Slice(0, a) /\ raw = Slice(a, b) /\ buf = Slice(b, pos)
  BY <1>1, Pieces DEF ReaderInv, At
<1>3. ReaderType
  BY DEF ReaderInv
<1>4. stream \in Seq(Bytes)
  BY <1>3 DEF ReaderType
<1>5. /\ raw' = raw \o buf /\ buf' = <<>> /\ out' = out /\ state' = state /\ state = "reading"
      /\ pending' = pending /\ ends' = ends
      /\ reader' = reader /\ stream' = stream /\ pos' = pos
  BY DEF BufferFull, Searching
<1>6. PICK e \in 0 .. Len(stream) : e = pos
  BY <1>2
<1>7. /\ Slice(e, e) = <<>> /\ RecordsFit' = RecordsFit
      /\ \A x, y : Slice(x, y)' = Slice(x, y)
  BY <1>4, <1>5, <1>6, SliceEmpty, Fixed
<1>8. raw' = Slice(a, e)
  <2>1. b \in a .. Len(stream) /\ e \in b .. Len(stream)
    BY <1>2, <1>6
  <2> QED
    BY <1>2, <1>4, <1>5, <1>6, <2>1, SliceConcat
<1>9. ReaderType'
  BY <1>3, <1>5 DEF ReaderType
<1>10. At(a, e)'
  <2>1. a \in 0 .. e /\ e \in a .. e
    BY <1>2, <1>6
  <2> QED
    BY <1>2, <1>5, <1>6, <1>7, <1>8, <2>1 DEF At
<1>11. PiecesInv'
  <2>1. (\E x, y \in 0 .. Len(stream) : At(x, y))'
    BY <1>5, <1>6, <1>10
  <2>2. pending = "eof" \/ state = "eof" => pos = Len(stream)
    BY DEF ReaderInv, PiecesInv
  <2> QED
    BY <1>5, <2>1, <2>2 DEF PiecesInv
<1>12. StartInv'
  <2>1. ~(reader.kind = "csv" /\ RecordsFit)
    BY NeverStuck DEF BufferFull
  <2> QED
    BY <1>5, <1>7, <2>1 DEF StartInv
<1>13. BlocksEndRecords'
  BY <1>5, NoBlock
<1> QED
  BY <1>9, <1>11, <1>12, <1>13 DEF ReaderInv

\* fill() reads the next bytes.
LEMMA ReaderFill == ReaderInv /\ Fill => ReaderInv'
<1> SUFFICES ASSUME ReaderInv, Fill PROVE ReaderInv'
  OBVIOUS
<1>1. PICK a, b \in 0 .. Len(stream) : At(a, b)
  BY DEF ReaderInv, PiecesInv
<1>2. /\ a \in Nat /\ b \in Nat /\ pos \in Nat /\ Len(stream) \in Nat
      /\ a <= b /\ b <= pos /\ pos <= Len(stream)
      /\ out = Slice(0, a) /\ raw = Slice(a, b) /\ buf = Slice(b, pos)
  BY <1>1, Pieces DEF ReaderInv, At
<1>3. ReaderType
  BY DEF ReaderInv
<1>4. stream \in Seq(Bytes)
  BY <1>3 DEF ReaderType
<1>5. /\ raw' = raw /\ out' = out /\ state' = state /\ state = "reading" /\ ends' = ends
      /\ reader' = reader /\ stream' = stream
  BY DEF Fill, Searching
<1>6. PICK n \in 0 .. Len(stream) - pos :
          /\ buf' = buf \o SubSeq(stream, pos + 1, pos + n)
          /\ pos' = pos + n
          /\ \/ n > 0 /\ pending' = "none"
             \/ pos + n = Len(stream) /\ pending' = "eof"
             \/ pending' = "failed"
  BY DEF Fill
<1>7. PICK e \in 0 .. Len(stream) : e = pos + n
  BY <1>2, <1>6
<1>8. RecordEnds' = RecordEnds /\ RecordsFit' = RecordsFit /\ \A x, y : Slice(x, y)' = Slice(x, y)
  BY <1>5, Fixed
<1>9. buf' = Slice(b, e)
  <2>1. pos \in b .. Len(stream) /\ e \in pos .. Len(stream)
    BY <1>2, <1>6, <1>7
  <2>2. buf' = Slice(b, pos) \o Slice(pos, e)
    BY <1>2, <1>6, <1>7 DEF Slice
  <2> QED
    BY <1>2, <1>4, <2>1, <2>2, SliceConcat
<1>10. ReaderType'
  BY <1>3, <1>5, <1>6 DEF ReaderType
<1>11. At(a, b)'
  <2>1. a \in 0 .. e /\ b \in a .. e
    BY <1>2, <1>6, <1>7
  <2> QED
    BY <1>2, <1>5, <1>6, <1>7, <1>8, <1>9, <2>1 DEF At
<1>12. PiecesInv'
  <2>1. (\E x, y \in 0 .. Len(stream) : At(x, y))'
    BY <1>1, <1>5, <1>11
  <2>2. pending' = "eof" => pos' = Len(stream)
    BY <1>6
  <2> QED
    BY <1>5, <2>1, <2>2 DEF PiecesInv
<1>13. StartInv'
  BY <1>5, <1>8 DEF StartInv, ReaderInv
<1>14. BlocksEndRecords'
  BY <1>5, NoBlock
<1> QED
  BY <1>10, <1>12, <1>13, <1>14 DEF ReaderInv

\* Every step of the reader keeps the invariant.
LEMMA ReaderNext == ReaderInv /\ [Next]_vars => ReaderInv'
<1> SUFFICES ASSUME ReaderInv, [Next]_vars PROVE ReaderInv'
  OBVIOUS
<1>1. CASE ReturnRecord
  BY <1>1, ReaderReturnRecord
<1>2. CASE ReturnPending
  BY <1>2, ReaderReturnPending
<1>3. CASE BufferFull
  BY <1>3, ReaderBufferFull
<1>4. CASE Fill
  BY <1>4, ReaderFill
<1>5. CASE Stopped \/ UNCHANGED vars
  <2>1. /\ reader' = reader /\ stream' = stream /\ pos' = pos /\ buf' = buf
        /\ pending' = pending /\ raw' = raw /\ out' = out /\ ends' = ends /\ state' = state
    BY <1>5 DEF Stopped, vars
  <2>2. RecordEnds' = RecordEnds /\ RecordsFit' = RecordsFit
        /\ \A x, y : Slice(x, y)' = Slice(x, y)
    BY <2>1, Fixed
  <2>3. ReaderType'
    BY <2>1 DEF ReaderInv, ReaderType
  <2>4. PiecesInv'
    BY <2>1, <2>2 DEF ReaderInv, PiecesInv, At
  <2>5. StartInv'
    BY <2>1, <2>2 DEF ReaderInv, StartInv
  <2>6. BlocksEndRecords'
    BY <2>1, NoBlock
  <2> QED
    BY <2>3, <2>4, <2>5, <2>6 DEF ReaderInv
<1> QED
  BY <1>1, <1>2, <1>3, <1>4, <1>5 DEF Next, Step

\* The pieces add up to the bytes delivered.
LEMMA PiecesAddUp == ReaderInv => NothingLost
<1> SUFFICES ASSUME ReaderInv PROVE NothingLost
  OBVIOUS
<1>1. PICK a, b \in 0 .. Len(stream) : At(a, b)
  BY DEF ReaderInv, PiecesInv
<1>2. out \o raw \o buf = Slice(0, pos) /\ out \in Seq(Bytes)
  BY <1>1, Pieces DEF ReaderInv
<1>3. Slice(0, pos) = SubSeq(stream, 1, pos)
  BY DEF Slice
<1>4. state # "reading" => out = SubSeq(stream, 1, pos)
  <2> SUFFICES ASSUME state # "reading" PROVE out = SubSeq(stream, 1, pos)
    OBVIOUS
  <2>1. raw = <<>> /\ buf = <<>>
    BY DEF ReaderInv, PiecesInv
  <2>2. out \o <<>> = out
    BY <1>2, ConcatEmptySeq
  <2> QED
    BY <1>2, <1>3, <2>1, <2>2
<1>5. state = "eof" => pos = Len(stream)
  BY DEF ReaderInv, PiecesInv
<1> QED
  BY <1>2, <1>3, <1>4, <1>5 DEF NothingLost

\* The invariant holds throughout.
LEMMA ReaderInvariant == Spec => []ReaderInv
<1>1. Spec => Init /\ [][Next]_vars
  BY PTL DEF Spec
<1> QED
  BY <1>1, ReaderInit, ReaderNext, PTL

\* Whatever the chunks, the errors, the length of the stream and the size of the
\* buffer, the blocks that Read returned, rawBuffer and the buffer are the bytes the
\* connection delivered, and the last Read keeps nothing back.
THEOREM NothingLostHolds == Spec => []NothingLost
  BY ReaderInvariant, PiecesAddUp, PTL

\* For streams of any length and buffers of any size, every block but the last ends
\* where a record of the stream ends: for the text and the custom readers always, for
\* the CSV reader when every record fits into the buffer.
THEOREM BlocksEndRecordsHolds == Spec => []BlocksEndRecords
<1>1. ReaderInv => BlocksEndRecords
  BY DEF ReaderInv
<1> QED
  BY <1>1, ReaderInvariant, PTL
=============================================================================
