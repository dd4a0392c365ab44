-------------------------- MODULE LineBufferProofs --------------------------
(***************************************************************************)
(* For all sizes and streams: the receive buffer of a client stays shorter *)
(* than one maximal line between two recv() calls, and with the sizes of   *)
(* the code what a client has said does not depend on how recv() cut it.   *)
(*                                                                         *)
(* The loop always stands at some position of the stream (Progress): the   *)
(* buffer is what follows it, a line begins there, and the lines before it *)
(* are the processed ones, none of which ended the connection.             *)
(***************************************************************************)
EXTENDS LineBuffer, WellFoundedInduction, SequenceTheorems,
        FiniteSetTheorems, TLAPS

USE BytesAreDistinct, SizesAreNumbers

\* A nonempty set of numbers has a smallest element.
LEMMA SmallestOf ==
  ASSUME NEW S \in SUBSET Nat, S # {}
  PROVE  \E i \in S : \A j \in S : i <= j
<1>1. PICK i \in S : \A j \in S : ~(<<j, i>> \in OpToRel(<, Nat))
  BY NatLessThanWellFounded, WFMin
<1>2. \A j \in S : ~(j < i)
  BY <1>1 DEF OpToRel
<1>. QED BY <1>2

\* Sequences: the empty one, concatenation, appending, parts.
LEMMA EmptyType ==
  ASSUME NEW S
  PROVE  <<>> \in Seq(S) /\ Len(<<>>) = 0
OBVIOUS

\* The concatenation of two sequences over S.
LEMMA ConcatType ==
  ASSUME NEW S, NEW s \in Seq(S), NEW t \in Seq(S)
  PROVE  s \o t \in Seq(S) /\ Len(s \o t) = Len(s) + Len(t)
OBVIOUS

\* One more element of S.
LEMMA AppendType ==
  ASSUME NEW S, NEW s \in Seq(S), NEW x \in S
  PROVE  Append(s, x) \in Seq(S)
OBVIOUS

\* A part of a sequence over S.
LEMMA PartType ==
  ASSUME NEW S, NEW s \in Seq(S), NEW m \in Nat, m > 0,
         NEW n \in Int, n <= Len(s)
  PROVE  SubSeq(s, m, n) \in Seq(S)
<1>1. \A i \in m..n : s[i] \in S
  OBVIOUS
<1>. QED BY <1>1, SubSeqProperties

\* A prefix of a sequence over S.
LEMMA PrefixType ==
  ASSUME NEW S, NEW s \in Seq(S), NEW n \in Int, n <= Len(s)
  PROVE  SubSeq(s, 1, n) \in Seq(S)
<1>1. 1 \in Nat /\ 1 > 0
  OBVIOUS
<1>. QED BY <1>1, PartType

\* The length of a sequence.
LEMMA LenType ==
  ASSUME NEW S, NEW s \in Seq(S)
  PROVE  Len(s) \in Nat
OBVIOUS

\* A result of findLine with its fields.
LEMMA FoundType ==
  ASSUME NEW x, NEW st \in {"too long", "extracted"}, NEW l \in Seq(Byte),
         NEW n, NEW m \in Nat, n \in 0..m, x = Found(st, l, n)
  PROVE  /\ x.status \in {"extracted", "too long", "incomplete"}
         /\ x.line \in Seq(Byte)
         /\ x.consumed \in 0..m
         /\ x.status # "incomplete"
BY DEF Found

\* What findLine returns is well typed, it consumes at most the buffer, and
\* it waits only for less than a maximal line.
LEMMA FindLineType ==
  ASSUME NEW s \in Seq(Byte)
  PROVE  /\ FindLine(s).status \in {"extracted", "too long", "incomplete"}
         /\ FindLine(s).line \in Seq(Byte)
         /\ FindLine(s).consumed \in 0..Len(s)
         /\ FindLine(s).status = "incomplete" => Len(s) < MaxLine
<1>1. <<>> \in Seq(Byte) /\ Len(s) \in Nat
  BY EmptyType, LenType
<1>2. CASE Terminators(s) = {}
  BY <1>1, <1>2 DEF FindLine, Found
<1>3. CASE Terminators(s) # {}
  <2> DEFINE pos == CHOOSE i \in Terminators(s) : \A j \in Terminators(s) : i <= j
             raw == SubSeq(s, 1, pos - 1)
             line == Stripped(raw)
  <2>1. pos \in 1..Len(s)
    <3>1. Terminators(s) \subseteq Nat /\ Terminators(s) # {}
      BY <1>3 DEF Terminators
    <3>2. \E i \in Terminators(s) : \A j \in Terminators(s) : i <= j
      BY <3>1, SmallestOf
    <3>. QED BY <3>2 DEF Terminators
  <2>2. raw \in Seq(Byte) /\ Len(raw) \in Nat
    <3>1. pos - 1 \in Int /\ pos - 1 <= Len(s)
      BY <1>1, <2>1
    <3>2. raw \in Seq(Byte)
      BY <3>1, PrefixType
    <3>. QED BY <3>2, LenType
  <2>3. line \in Seq(Byte)
    <3>1. Len(raw) - 1 \in Int /\ Len(raw) - 1 <= Len(raw)
      BY <2>2
    <3>2. SubSeq(raw, 1, Len(raw) - 1) \in Seq(Byte)
      BY <2>2, <3>1, PrefixType
    <3>. QED BY <2>2, <3>2 DEF Stripped
  <2>4. FindLine(s) = IF Len(line) > MaxContent THEN Found("too long", <<>>, pos)
                      ELSE Found("extracted", line, pos)
    BY <1>3 DEF FindLine
  <2>5. \/ FindLine(s) = Found("too long", <<>>, pos)
        \/ FindLine(s) = Found("extracted", line, pos)
    BY <2>4
  <2>6. pos \in 0..Len(s)
    BY <1>1, <2>1
  <2>. HIDE DEF pos, raw, line
  <2>7. PICK st \in {"too long", "extracted"}, l \in Seq(Byte) :
          FindLine(s) = Found(st, l, pos)
    BY <1>1, <2>3, <2>5
  <2>. QED BY <1>1, <2>6, <2>7, FoundType
<1>. QED BY <1>2, <1>3

\* One chunk is a sequence of at most ChunkSize bytes.
LEMMA ChunkType ==
  ASSUME NEW n \in Nat, NEW bytes \in [1..n -> Byte]
  PROVE  bytes \in Seq(Byte) /\ Len(bytes) = n
OBVIOUS

\* Every step keeps the types and the bound.
LEMMA NextShort ==
  ASSUME TypeOK, BufferIsShort, [Next]_vars
  PROVE  TypeOK' /\ BufferIsShort'
<1>1. CASE Receive
  <2>1. PICK n \in 1..ChunkSize : \E bytes \in [1..n -> Byte] :
          buffer' = buffer \o bytes /\ delivered' = delivered \o bytes
    BY <1>1 DEF Receive
  <2>2. PICK bytes \in [1..n -> Byte] :
          buffer' = buffer \o bytes /\ delivered' = delivered \o bytes
    BY <2>1
  <2>3. bytes \in Seq(Byte) /\ Len(bytes) = n
    BY ChunkType
  <2>4. /\ buffer' \in Seq(Byte) /\ delivered' \in Seq(Byte)
        /\ Len(buffer') = Len(buffer) + n
    BY <2>2, <2>3, ConcatType DEF TypeOK
  <2>5. TypeOK'
    BY <1>1, <2>4 DEF Receive, TypeOK
  <2>6. /\ Len(buffer) \in Nat /\ Len(buffer) < MaxLine /\ scheduled = "no"
        /\ scheduled' = IF Len(buffer') > MaxReceive THEN "overflow" ELSE "no"
        /\ running' = ~(Len(buffer') > MaxReceive)
    <3>1. Len(buffer) \in Nat
      BY LenType DEF TypeOK
    <3>. QED BY <1>1, <3>1 DEF Receive, BufferIsShort
  <2>7. BufferIsShort'
    <3>1. Len(buffer) + n <= MaxLine + ChunkSize
      BY <2>6
    <3>2. CASE Len(buffer') > MaxReceive
      <4>1. running' = FALSE /\ scheduled' = "overflow"
        BY <2>6, <3>2
      <4>2. ~(MaxLine + ChunkSize <= MaxReceive)
        BY <2>4, <2>6, <3>1, <3>2
      <4>. QED BY <4>1, <4>2 DEF BufferIsShort
    <3>3. CASE ~(Len(buffer') > MaxReceive)
      <4>1. running' = TRUE /\ scheduled' = "no"
        BY <2>6, <3>3
      <4>. QED BY <4>1 DEF BufferIsShort
    <3>. QED BY <3>2, <3>3
  <2>. QED BY <2>5, <2>7
<1>2. CASE ExtractLine \/ LineTooLong
  <2> DEFINE found == FindLine(buffer)
  <2>1. /\ found.line \in Seq(Byte)
        /\ found.consumed \in 0..Len(buffer)
    BY FindLineType DEF TypeOK
  <2>2. buffer' = SubSeq(buffer, found.consumed + 1, Len(buffer))
    BY <1>2 DEF ExtractLine, LineTooLong, EraseReceivePrefix
  <2>3. buffer' \in Seq(Byte)
    <3>1. /\ found.consumed + 1 \in Nat /\ found.consumed + 1 > 0
          /\ Len(buffer) \in Int /\ Len(buffer) <= Len(buffer)
      <4>1. Len(buffer) \in Nat
        BY LenType DEF TypeOK
      <4>. QED BY <2>1, <4>1
    <3>. QED BY <2>2, <3>1, PartType DEF TypeOK
  <2>4. lines' \in Seq(Seq(Byte))
    <3>1. CASE lines' = lines
      BY <3>1 DEF TypeOK
    <3>2. CASE lines' = Append(lines, found.line)
      BY <2>1, <3>2, AppendType DEF TypeOK
    <3>. QED BY <1>2, <3>1, <3>2 DEF ExtractLine, LineTooLong
  <2>5. running /\ (running' => scheduled' = scheduled)
        /\ (~running' => scheduled' \in {"quit", "too long"})
        /\ running' \in BOOLEAN /\ delivered' = delivered
    BY <1>2 DEF ExtractLine, LineTooLong, TypeOK
  <2>. QED BY <2>3, <2>4, <2>5 DEF TypeOK, BufferIsShort
<1>3. CASE WaitForMore
  BY <1>3, FindLineType DEF WaitForMore, TypeOK, BufferIsShort
<1>4. CASE Silent \/ UNCHANGED vars
  BY <1>4 DEF Silent, vars, TypeOK, BufferIsShort
<1>. QED BY <1>1, <1>2, <1>3, <1>4 DEF Next

\* Whatever a client sends and however recv() cuts it, less than a maximal
\* line is kept between two calls, and with the sizes of the code the branch
\* "Receive buffer limit exceeded" of receiveFromClient is never taken.
THEOREM BufferIsShortAlways == Spec => []BufferIsShort
<1>1. Init => TypeOK /\ BufferIsShort
  <2>1. <<>> \in Seq(Byte) /\ <<>> \in Seq(Seq(Byte))
    BY EmptyType
  <2>2. Len(<<>>) < MaxLine
    OBVIOUS
  <2>. QED BY <2>1, <2>2 DEF Init, TypeOK, BufferIsShort
<1>2. TypeOK /\ BufferIsShort /\ [Next]_vars => TypeOK' /\ BufferIsShort'
  BY NextShort
<1>. QED BY <1>1, <1>2, PTL DEF Spec
-----------------------------------------------------------------------------
(***************************************************************************)
(* The lines of the stream.                                                *)
(***************************************************************************)

\* The positions up to p at which a line of s ends.
Upto(s, p) == {e \in Terminators(s) : e <= p}

\* A line of s begins after position p.
Begins(s, p) == p = 0 \/ s[p] = LF

\* No line of s ends at a position from m to n.
Open(s, m, n) == \A j \in m..n : s[j] # LF

\* The line that ends at e is what follows the end of the one before.
LEMMA LineIs ==
  ASSUME NEW s \in Seq(Byte), NEW e \in 1..Len(s), NEW p \in 0..(e - 1),
         Begins(s, p), Open(s, p + 1, e - 1)
  PROVE  LineAt(s, e) = Stripped(SubSeq(s, p + 1, e - 1))
<1> DEFINE start == {i \in 0..(e - 1) : /\ i = 0 \/ s[i] = LF
                                        /\ \A j \in (i + 1)..(e - 1) : s[j] # LF}
<1>1. p \in start
  BY DEF Begins, Open
<1>2. \A i \in start : i = p
  <2>1. SUFFICES ASSUME NEW i \in start, i # p PROVE FALSE
    OBVIOUS
  <2>2. CASE i < p
    <3>1. p \in (i + 1)..(e - 1) /\ p # 0
      BY <2>2
    <3>. QED BY <2>1, <3>1 DEF Begins
  <2>3. CASE i > p
    <3>1. i \in (p + 1)..(e - 1) /\ i # 0
      BY <2>3
    <3>. QED BY <2>1, <3>1 DEF Open
  <2>. QED BY <2>1, <2>2, <2>3
<1>3. (CHOOSE i \in start : TRUE) = p
  BY <1>1, <1>2
<1>4. LineAt(s, e) = Stripped(SubSeq(s, 1 + CHOOSE i \in start : TRUE, e - 1))
  BY DEF LineAt
<1>. HIDE DEF start
<1>5. 1 + p = p + 1
  OBVIOUS
<1>. QED BY <1>3, <1>4, <1>5

\* Every line begins somewhere: at the start, or after the last LF before it.
LEMMA LineBegins ==
  ASSUME NEW s \in Seq(Byte), NEW e \in 1..Len(s)
  PROVE  \E p \in 0..(e - 1) : Begins(s, p) /\ Open(s, p + 1, e - 1)
<1> DEFINE S == {k \in 0..(e - 1) : Begins(s, e - 1 - k)}
<1>1. e \in Nat /\ e > 0
  BY LenType
<1>2. e - 1 \in S
  BY <1>1 DEF Begins
<1>3. S \in SUBSET Nat
  BY <1>1
<1>4. PICK k \in S : \A j \in S : k <= j
  <2>. HIDE DEF S
  <2>. QED BY <1>2, <1>3, SmallestOf
<1>5. k \in 0..(e - 1) /\ Begins(s, e - 1 - k)
  BY <1>4
<1>6. e - 1 - k \in 0..(e - 1)
  BY <1>1, <1>5
<1>7. ASSUME NEW j \in (e - 1 - k + 1)..(e - 1), s[j] = LF
      PROVE  FALSE
  <2>1. e - 1 - j \in 0..(e - 1) /\ e - 1 - (e - 1 - j) = j /\ e - 1 - j < k
    BY <1>1, <1>5, <1>7
  <2>2. e - 1 - j \in S
    BY <1>7, <2>1 DEF Begins
  <2>3. k <= e - 1 - j
    BY <1>4, <2>2
  <2>. HIDE DEF S
  <2>4. e \in Int /\ j \in Int /\ k \in Int
    BY <1>1, <1>5, <1>7
  <2>. QED BY <2>1, <2>3, <2>4
<1>8. Open(s, e - 1 - k + 1, e - 1)
  BY <1>7 DEF Open
<1>. QED BY <1>5, <1>6, <1>8

\* A stripped line is a sequence of bytes.
LEMMA StrippedType ==
  ASSUME NEW raw \in Seq(Byte)
  PROVE  Stripped(raw) \in Seq(Byte)
<1>1. Len(raw) \in Nat
  BY LenType
<1>2. Len(raw) - 1 \in Int /\ Len(raw) - 1 <= Len(raw)
  BY <1>1
<1>3. SubSeq(raw, 1, Len(raw) - 1) \in Seq(Byte)
  BY <1>2, PrefixType
<1>. QED BY <1>3 DEF Stripped

\* So is every line.
LEMMA LineAtType ==
  ASSUME NEW s \in Seq(Byte), NEW e \in 1..Len(s)
  PROVE  LineAt(s, e) \in Seq(Byte) /\ Len(LineAt(s, e)) \in Nat
<1>1. PICK p \in 0..(e - 1) : Begins(s, p) /\ Open(s, p + 1, e - 1)
  BY LineBegins
<1>2. Len(s) \in Nat
  BY LenType
<1>3. p + 1 \in Nat /\ p + 1 > 0 /\ e - 1 \in Int /\ e - 1 <= Len(s)
  BY <1>2
<1>4. SubSeq(s, p + 1, e - 1) \in Seq(Byte)
  BY <1>3, PartType
<1>5. LineAt(s, e) = Stripped(SubSeq(s, p + 1, e - 1))
  BY <1>1, LineIs
<1>6. LineAt(s, e) \in Seq(Byte)
  BY <1>4, <1>5, StrippedType
<1>. QED BY <1>6, LenType

\* The part of a sequence that follows position m.
LEMMA PartIs ==
  ASSUME NEW s, NEW m \in Int, NEW n \in Int
  PROVE  SubSeq(s, m + 1, n) = [i \in 1..(n - m) |-> s[m + i]]
<1>1. SubSeq(s, m + 1, n) = [i \in 1..(n - (m + 1) + 1) |-> s[i + (m + 1) - 1]]
  BY SMTT(30) DEF SubSeq
<1>2. n - (m + 1) + 1 = n - m
  OBVIOUS
<1>3. \A i \in 1..(n - m) : i + (m + 1) - 1 = m + i
  OBVIOUS
<1>. QED BY <1>1, <1>2, <1>3, SMTT(30)

\* Two sequences that agree between m and n have the same part there.
LEMMA SamePart ==
  ASSUME NEW s \in Seq(Byte), NEW t \in Seq(Byte),
         NEW k \in Nat, NEW m \in Nat, NEW n \in Nat,
         m <= n + 1,
         \A i \in 1..(n - m) : s[m + i] = t[k + i]
  PROVE  SubSeq(s, m + 1, n) = SubSeq(t, k + 1, k + n - m)
<1>1. SubSeq(s, m + 1, n) = [i \in 1..(n - m) |-> s[m + i]]
  BY PartIs
<1>2. SubSeq(t, k + 1, k + n - m) = [i \in 1..(n - m) |-> t[k + i]]
  <2>1. (k + n - m) - k = n - m /\ k + n - m \in Int
    OBVIOUS
  <2>. QED BY <2>1, PartIs
<1>. QED BY <1>1, <1>2

\* What is appended to a stream changes none of its lines.
LEMMA LinesStay ==
  ASSUME NEW s \in Seq(Byte), NEW t \in Seq(Byte), NEW e \in 1..Len(s)
  PROVE  LineAt(s \o t, e) = LineAt(s, e)
<1>1. PICK p \in 0..(e - 1) : Begins(s, p) /\ Open(s, p + 1, e - 1)
  BY LineBegins
<1>2. s \o t \in Seq(Byte) /\ Len(s \o t) = Len(s) + Len(t)
  BY ConcatType
<1>3. Len(s) \in Nat /\ Len(t) \in Nat
  BY LenType
<1>4. \A i \in 1..Len(s) : (s \o t)[i] = s[i]
  OBVIOUS
<1>5. Begins(s \o t, p) /\ Open(s \o t, p + 1, e - 1)
  <2>1. p = 0 \/ p \in 1..Len(s)
    BY <1>3
  <2>2. (p + 1)..(e - 1) \subseteq 1..Len(s)
    BY <1>3
  <2>. QED BY <1>1, <1>4, <2>1, <2>2 DEF Begins, Open
<1>6. e \in 1..Len(s \o t)
  BY <1>2, <1>3
<1>7. /\ LineAt(s, e) = Stripped(SubSeq(s, p + 1, e - 1))
      /\ LineAt(s \o t, e) = Stripped(SubSeq(s \o t, p + 1, e - 1))
  BY <1>1, <1>2, <1>5, <1>6, LineIs
<1>8. SubSeq(s, p + 1, e - 1) = SubSeq(s \o t, p + 1, p + (e - 1) - p)
  <2>1. p \in Nat /\ e - 1 \in Nat /\ p <= e - 1 + 1
    BY <1>3
  <2>2. \A i \in 1..(e - 1 - p) : s[p + i] = (s \o t)[p + i]
    BY <1>3, <1>4
  <2>. QED BY <1>2, <2>1, <2>2, SamePart
<1>9. p + (e - 1) - p = e - 1
  OBVIOUS
<1>. QED BY <1>7, <1>8, <1>9

\* The counts of the lines up to a position.
LEMMA UptoFinite ==
  ASSUME NEW s \in Seq(Byte), NEW p \in Nat
  PROVE  IsFiniteSet(Upto(s, p)) /\ Cardinality(Upto(s, p)) \in Nat
<1>1. Len(s) \in Nat
  BY LenType
<1>2. IsFiniteSet(1..Len(s))
  BY <1>1, FS_Interval
<1>3. Upto(s, p) \in SUBSET (1..Len(s))
  BY DEF Upto, Terminators
<1>4. IsFiniteSet(Upto(s, p))
  BY <1>2, <1>3, FS_Subset
<1>. QED BY <1>4, FS_CardinalityType

\* The next line is one line more.
LEMMA OneLineMore ==
  ASSUME NEW s \in Seq(Byte), NEW p \in Nat, NEW e \in Terminators(s),
         p < e, Open(s, p + 1, e - 1)
  PROVE  /\ Upto(s, e) = Upto(s, p) \cup {e}
         /\ Cardinality(Upto(s, e)) = Cardinality(Upto(s, p)) + 1
<1>1. Len(s) \in Nat /\ e \in 1..Len(s) /\ s[e] = LF
  BY LenType DEF Terminators
<1>2. \A d \in Terminators(s) : d <= e => d <= p \/ d = e
  <2>1. SUFFICES ASSUME NEW d \in Terminators(s), d <= e, ~(d <= p), d # e
                 PROVE  FALSE
    OBVIOUS
  <2>2. d \in (p + 1)..(e - 1) /\ s[d] = LF
    BY <1>1, <2>1 DEF Terminators
  <2>. QED BY <2>2 DEF Open
<1>3. Upto(s, e) = Upto(s, p) \cup {e}
  <2>1. \A d \in Terminators(s) : d <= p => d <= e
    BY <1>1 DEF Terminators
  <2>2. e <= e
    BY <1>1
  <2>. QED BY <1>2, <2>1, <2>2 DEF Upto
<1>4. e \notin Upto(s, p)
  BY <1>1 DEF Upto
<1>5. IsFiniteSet(Upto(s, p))
  BY UptoFinite
<1>. QED BY <1>3, <1>4, <1>5, FS_AddElement

\* What is appended to a stream ends no line of what was there.
LEMMA UptoStays ==
  ASSUME NEW s \in Seq(Byte), NEW t \in Seq(Byte), NEW p \in 0..Len(s)
  PROVE  Upto(s \o t, p) = Upto(s, p)
<1>1. Len(s) \in Nat /\ Len(t) \in Nat /\ Len(s \o t) = Len(s) + Len(t)
  BY LenType, ConcatType
<1>2. \A i \in 1..Len(s) : (s \o t)[i] = s[i]
  OBVIOUS
<1>3. ASSUME NEW d PROVE d \in Upto(s \o t, p) <=> d \in Upto(s, p)
  BY <1>1, <1>2 DEF Upto, Terminators
<1>. QED BY <1>3

\* What follows the last LF.
LEMMA UnfinishedIs ==
  ASSUME NEW s \in Seq(Byte), NEW p \in 0..Len(s), Begins(s, p),
         Open(s, p + 1, Len(s))
  PROVE  Unfinished(s) = Len(s) - p
<1> DEFINE rest == {i \in 1..Len(s) : \A j \in i..Len(s) : s[j] # LF}
<1>1. Len(s) \in Nat
  BY LenType
<1>2. ASSUME NEW i PROVE i \in rest <=> i \in (p + 1)..Len(s)
  <2>1. CASE i \in (p + 1)..Len(s)
    <3>1. i \in 1..Len(s) /\ i..Len(s) \subseteq (p + 1)..Len(s)
      BY <1>1, <2>1
    <3>. QED BY <2>1, <3>1 DEF Open
  <2>2. CASE i \in 1..Len(s) /\ i \notin (p + 1)..Len(s)
    <3>1. p \in i..Len(s) /\ p # 0
      BY <1>1, <2>2
    <3>. QED BY <2>2, <3>1 DEF Begins
  <2>3. CASE i \notin 1..Len(s) /\ i \notin (p + 1)..Len(s)
    BY <2>3
  <2>. QED BY <2>1, <2>2, <2>3
<1>3. rest = (p + 1)..Len(s)
  BY <1>2
<1>4. Cardinality((p + 1)..Len(s)) = IF p + 1 > Len(s) THEN 0
                                     ELSE Len(s) - (p + 1) + 1
  <2>1. p + 1 \in Int /\ Len(s) \in Int
    BY <1>1
  <2>. QED BY <2>1, FS_Interval
<1>5. Cardinality((p + 1)..Len(s)) = Len(s) - p
  BY <1>1, <1>4
<1>6. Unfinished(s) = Cardinality(rest)
  BY DEF Unfinished
<1>. HIDE DEF rest
<1>. QED BY <1>3, <1>5, <1>6

\* The fields of a result of findLine.
LEMMA FoundFields ==
  ASSUME NEW st, NEW l, NEW n, NEW r, r = Found(st, l, n)
  PROVE  r.status = st /\ r.line = l /\ r.consumed = n
BY DEF Found

\* A result without a line.
LEMMA NoLineFields ==
  ASSUME NEW st, NEW n, NEW r, r = Found(st, <<>>, n)
  PROVE  r.status = st /\ r.consumed = n
<1>1. PICK none : none = <<>>
  OBVIOUS
<1>2. r = Found(st, none, n)
  BY <1>1
<1>. QED BY <1>2, FoundFields

\* What findLine tells of the buffer.
LEMMA FindLineTells ==
  ASSUME NEW s \in Seq(Byte), NEW r, r = FindLine(s)
  PROVE  /\ r.status = "incomplete" =>
              Terminators(s) = {} /\ Len(s) < MaxLine
         /\ r.status # "incomplete" /\ Terminators(s) # {} =>
              /\ r.consumed \in 1..Len(s)
              /\ s[r.consumed] = LF
              /\ Open(s, 1, r.consumed - 1)
         /\ r.status = "extracted" =>
              /\ Terminators(s) # {}
              /\ r.line = Stripped(SubSeq(s, 1, r.consumed - 1))
              /\ Len(r.line) <= MaxContent
         /\ r.status = "too long" =>
              \/ Terminators(s) = {} /\ Len(s) >= MaxLine
              \/ /\ Terminators(s) # {}
                 /\ Len(Stripped(SubSeq(s, 1, r.consumed - 1))) > MaxContent
<1>1. Len(s) \in Nat
  BY LenType
<1>2. CASE Terminators(s) = {}
  <2>1. \/ Len(s) >= MaxLine /\ r = Found("too long", <<>>, Len(s))
        \/ Len(s) < MaxLine /\ r = Found("incomplete", <<>>, 0)
    <3>1. r = IF Len(s) >= MaxLine THEN Found("too long", <<>>, Len(s))
              ELSE Found("incomplete", <<>>, 0)
      BY <1>2 DEF FindLine
    <3>2. Len(s) >= MaxLine \/ Len(s) < MaxLine
      BY <1>1
    <3>3. CASE Len(s) >= MaxLine
      BY <3>1, <3>3
    <3>4. CASE ~(Len(s) >= MaxLine)
      BY <3>1, <3>2, <3>4
    <3>. QED BY <3>3, <3>4
  <2>2. \/ Len(s) >= MaxLine /\ r.status = "too long"
        \/ Len(s) < MaxLine /\ r.status = "incomplete"
    <3>1. ASSUME r = Found("too long", <<>>, Len(s)) PROVE r.status = "too long"
      BY <3>1, NoLineFields
    <3>2. ASSUME r = Found("incomplete", <<>>, 0) PROVE r.status = "incomplete"
      BY <3>2, NoLineFields
    <3>. QED BY <2>1, <3>1, <3>2
  <2>. QED BY <1>2, <2>2
<1>3. CASE Terminators(s) # {}
  <2>1. \E i \in Terminators(s) : \A j \in Terminators(s) : i <= j
    <3>1. Terminators(s) \in SUBSET Nat
      BY DEF Terminators
    <3>. QED BY <1>3, <3>1, SmallestOf
  <2>2. PICK pos : pos = CHOOSE i \in Terminators(s) : \A j \in Terminators(s) : i <= j
    OBVIOUS
  <2>3. pos \in Terminators(s) /\ \A j \in Terminators(s) : pos <= j
    BY <2>1, <2>2
  <2>4. pos \in 1..Len(s) /\ s[pos] = LF /\ Open(s, 1, pos - 1)
    <3>1. pos \in 1..Len(s) /\ s[pos] = LF
      BY <2>3 DEF Terminators
    <3>2. ASSUME NEW j \in 1..(pos - 1), s[j] = LF PROVE FALSE
      <4>1. j \in Terminators(s) /\ j < pos /\ j \in Nat /\ pos \in Nat
        BY <1>1, <3>1, <3>2 DEF Terminators
      <4>. QED BY <2>3, <4>1
    <3>. QED BY <3>1, <3>2 DEF Open
  <2>5. PICK line : line = Stripped(SubSeq(s, 1, pos - 1))
    OBVIOUS
  <2>6. r = IF Len(line) > MaxContent THEN Found("too long", <<>>, pos)
                ELSE Found("extracted", line, pos)
    <3> DEFINE first == CHOOSE i \in Terminators(s) : \A j \in Terminators(s) : i <= j
               text == Stripped(SubSeq(s, 1, first - 1))
    <3>1. FindLine(s) = IF Len(text) > MaxContent THEN Found("too long", <<>>, first)
                        ELSE Found("extracted", text, first)
      BY <1>3 DEF FindLine
    <3>2. first = pos /\ text = line
      BY <2>2, <2>5
    <3>. HIDE DEF first, text
    <3>. QED BY <3>1, <3>2
  <2>7. Len(line) \in Nat
    <3>1. pos - 1 \in Int /\ pos - 1 <= Len(s)
      BY <1>1, <2>4
    <3>2. SubSeq(s, 1, pos - 1) \in Seq(Byte)
      BY <3>1, PrefixType
    <3>. QED BY <2>5, <3>2, StrippedType, LenType
  <2>8. CASE Len(line) > MaxContent
    <3>1. r.status = "too long" /\ r.consumed = pos
      <4>1. r = Found("too long", <<>>, pos)
        BY <2>6, <2>8
      <4>. QED BY ONLY <4>1, NoLineFields, Zenon
    <3>. QED BY <1>3, <2>4, <2>5, <2>8, <3>1
  <2>9. CASE ~(Len(line) > MaxContent)
    <3>1. /\ r.status = "extracted" /\ r.consumed = pos
          /\ r.line = line
      <4>1. r = Found("extracted", line, pos)
        BY <2>6, <2>9
      <4>. QED BY <4>1, FoundFields
    <3>2. Len(line) <= MaxContent
      <4>1. MaxContent \in Int
        BY DEF MaxContent
      <4>. QED BY <2>7, <2>9, <4>1
    <3>. QED BY <1>3, <2>4, <2>5, <3>1, <3>2
  <2>. QED BY <2>8, <2>9
<1>. QED BY <1>2, <1>3

-----------------------------------------------------------------------------
\* The position up to which the stream has been processed.
Done == Len(delivered) - Len(buffer)

\* What the loop knows of the stream s after the lines ls, with rest in the
\* buffer: rest is what follows position p of the stream, a line begins
\* there, and ls are the lines before it, none of which ended the connection.
Progress(s, p, rest, ls) ==
  /\ p \in Nat /\ Len(rest) = Len(s) - p
  /\ \A i \in 1..Len(rest) : rest[i] = s[p + i]
  /\ Begins(s, p)
  /\ Len(ls) = Cardinality(Upto(s, p))
  /\ \A e \in Upto(s, p) :
       ~Fatal(s, e) /\ ls[Cardinality(Upto(s, e))] = LineAt(s, e)

\* What SegmentationIndependent says of a finished loop.
Accounted(s, ls) ==
  /\ Len(ls) = Cardinality(Processed(s))
  /\ \A e \in Processed(s) : ls[Cardinality(Upto(s, e))] = LineAt(s, e)

Ends(s) ==
  \/ \E e \in Terminators(s) : Fatal(s, e)
  \/ Unfinished(s) >= MaxLine

\* Between two recv() calls, during the loop, and after the last line.
SplitInv ==
  /\ scheduled = "no" =>
       /\ Progress(delivered, Done, buffer, lines)
       /\ running \/ (Terminators(buffer) = {} /\ Len(buffer) < MaxLine)
  /\ scheduled # "no" =>
       ~running /\ Accounted(delivered, lines) /\ Ends(delivered)

\* The lines before p are the processed ones if the next one is not.
LEMMA ProcessedAre ==
  ASSUME NEW s \in Seq(Byte), NEW p \in Nat,
         \A e \in Upto(s, p) : Len(LineAt(s, e)) <= MaxContent,
         \A e \in Upto(s, p) : \A d \in Terminators(s) : d < e => ~Fatal(s, d),
         \A e \in Terminators(s) \ Upto(s, p) :
            \/ ~(Len(LineAt(s, e)) <= MaxContent)
            \/ \E d \in Terminators(s) : d < e /\ Fatal(s, d)
  PROVE  Processed(s) = Upto(s, p)
<1>1. ASSUME NEW e PROVE e \in Processed(s) <=> e \in Upto(s, p)
  BY DEF Processed, Upto
<1>. QED BY <1>1

\* A line that ends nothing is not too long.
LEMMA HarmlessIsShort ==
  ASSUME NEW s \in Seq(Byte), NEW e \in Terminators(s), ~Fatal(s, e)
  PROVE  Len(LineAt(s, e)) <= MaxContent
<1>1. Len(LineAt(s, e)) \in Nat
  BY LineAtType DEF Terminators
<1>2. ~(Len(LineAt(s, e)) > MaxContent)
  BY DEF Fatal
<1>3. MaxContent \in Int
  BY DEF MaxContent
<1>. QED BY <1>1, <1>2, <1>3

\* If the buffer holds no complete line, every line has been processed.
LEMMA NothingLeft ==
  ASSUME NEW s \in Seq(Byte), NEW rest \in Seq(Byte), NEW p, NEW ls,
         Progress(s, p, rest, ls), Terminators(rest) = {}
  PROVE  /\ Accounted(s, ls)
         /\ \A e \in Terminators(s) : ~Fatal(s, e)
         /\ Unfinished(s) = Len(rest)
<1>1. /\ p \in Nat /\ Len(rest) = Len(s) - p /\ Begins(s, p)
      /\ \A i \in 1..Len(rest) : rest[i] = s[p + i]
      /\ Len(ls) = Cardinality(Upto(s, p))
      /\ \A e \in Upto(s, p) :
           ~Fatal(s, e) /\ ls[Cardinality(Upto(s, e))] = LineAt(s, e)
  BY DEF Progress
<1>2. Len(s) \in Nat /\ Len(rest) \in Nat
  BY LenType
<1>3. \A j \in (p + 1)..Len(s) : s[j] # LF
  <2>1. SUFFICES ASSUME NEW j \in (p + 1)..Len(s), s[j] = LF PROVE FALSE
    OBVIOUS
  <2>2. j - p \in 1..Len(rest) /\ p + (j - p) = j
    BY <1>1, <1>2
  <2>3. rest[j - p] = LF
    BY <1>1, <2>1, <2>2
  <2>. QED BY <2>2, <2>3 DEF Terminators
<1>4. Terminators(s) = Upto(s, p)
  <2>1. \A e \in Terminators(s) : e <= p
    BY <1>1, <1>2, <1>3 DEF Terminators
  <2>. QED BY <2>1 DEF Upto
<1>5. \A e \in Terminators(s) : ~Fatal(s, e)
  BY <1>1, <1>4
<1>6. \A e \in Upto(s, p) : Len(LineAt(s, e)) <= MaxContent
  BY <1>4, <1>5, HarmlessIsShort
<1>7. Processed(s) = Upto(s, p)
  BY <1>1, <1>4, <1>5, <1>6, ProcessedAre
<1>8. Accounted(s, ls)
  BY <1>1, <1>7 DEF Accounted
<1>9. Unfinished(s) = Len(rest)
  <2>1. p \in 0..Len(s) /\ Open(s, p + 1, Len(s))
    BY <1>1, <1>2, <1>3 DEF Open
  <2>2. Unfinished(s) = Len(s) - p
    BY <1>1, <2>1, UnfinishedIs
  <2>. QED BY <1>1, <2>2
<1>. QED BY <1>5, <1>8, <1>9

\* The first line of the buffer is the next line of the stream.
LEMMA NextLine ==
  ASSUME NEW s \in Seq(Byte), NEW rest \in Seq(Byte), NEW p, NEW ls,
         Progress(s, p, rest, ls),
         NEW n \in 1..Len(rest), rest[n] = LF, Open(rest, 1, n - 1)
  PROVE  /\ p + n \in Terminators(s) /\ p < p + n /\ Open(s, p + 1, p + n - 1)
         /\ LineAt(s, p + n) = Stripped(SubSeq(rest, 1, n - 1))
<1>1. /\ p \in Nat /\ Len(rest) = Len(s) - p /\ Begins(s, p)
      /\ \A i \in 1..Len(rest) : rest[i] = s[p + i]
  BY DEF Progress
<1>2. Len(s) \in Nat /\ Len(rest) \in Nat
  BY LenType
<1>3. p + n \in 1..Len(s) /\ s[p + n] = LF /\ p < p + n
  BY <1>1, <1>2
<1>4. Open(s, p + 1, p + n - 1)
  <2>1. SUFFICES ASSUME NEW j \in (p + 1)..(p + n - 1), s[j] = LF PROVE FALSE
    BY DEF Open
  <2>2. /\ j - p \in 1..Len(rest) /\ j - p \in 1..(n - 1)
        /\ p + (j - p) = j
    BY <1>1, <1>2
  <2>3. rest[j - p] = LF
    BY <1>1, <2>1, <2>2
  <2>. QED BY <2>2, <2>3 DEF Open
<1>5. LineAt(s, p + n) = Stripped(SubSeq(s, p + 1, p + n - 1))
  <2>1. p \in 0..(p + n - 1)
    BY <1>1, <1>2
  <2>. QED BY <1>1, <1>3, <1>4, <2>1, LineIs
<1>6. SubSeq(s, p + 1, p + n - 1) = SubSeq(rest, 1, n - 1)
  <2>1. /\ 0 \in Nat /\ p \in Nat /\ p + n - 1 \in Nat
        /\ p <= (p + n - 1) + 1
    BY <1>1, <1>2
  <2>2. \A i \in 1..((p + n - 1) - p) : s[p + i] = rest[0 + i]
    BY <1>1, <1>2
  <2>3. SubSeq(s, p + 1, p + n - 1) = SubSeq(rest, 0 + 1, 0 + (p + n - 1) - p)
    BY <2>1, <2>2, SamePart
  <2>4. 0 + 1 = 1 /\ 0 + (p + n - 1) - p = n - 1
    BY <1>1
  <2>. QED BY <2>3, <2>4
<1>. QED BY <1>3, <1>4, <1>5, <1>6 DEF Terminators

\* The count of a line up to p is at most the count up to p.
LEMMA CountedBelow ==
  ASSUME NEW s \in Seq(Byte), NEW p \in Nat, NEW e \in Upto(s, p)
  PROVE  Cardinality(Upto(s, e)) \in 1..Cardinality(Upto(s, p))
<1>1. e \in Terminators(s) /\ e \in Nat /\ e <= p /\ e <= e
  <2>1. Len(s) \in Nat
    BY LenType
  <2>. QED BY <2>1 DEF Upto, Terminators
<1>2. /\ IsFiniteSet(Upto(s, p)) /\ Cardinality(Upto(s, p)) \in Nat
      /\ IsFiniteSet(Upto(s, e)) /\ Cardinality(Upto(s, e)) \in Nat
  BY <1>1, UptoFinite
<1>3. Upto(s, e) \in SUBSET Upto(s, p)
  <2>1. \A d \in Terminators(s) : d <= e => d <= p
    <3>1. Len(s) \in Nat
      BY LenType
    <3>. QED BY <1>1, <3>1 DEF Terminators
  <2>. QED BY <2>1 DEF Upto
<1>4. Cardinality(Upto(s, e)) <= Cardinality(Upto(s, p))
  BY <1>2, <1>3, FS_Subset
<1>5. Cardinality(Upto(s, e)) # 0
  <2>1. e \in Upto(s, e)
    BY <1>1 DEF Upto
  <2>2. Upto(s, e) # {}
    BY <2>1
  <2>. QED BY <1>2, <2>2, FS_EmptySet
<1>. QED BY <1>2, <1>4, <1>5

\* The first line of the buffer ends at n and is not too long.
FirstLine(rest, n, line) ==
  /\ n \in 1..Len(rest) /\ rest[n] = LF /\ Open(rest, 1, n - 1)
  /\ line = Stripped(SubSeq(rest, 1, n - 1))
  /\ Len(line) <= MaxContent

\* What the loop leaves of the buffer and makes of the lines.
Leaves(rest, ls, n, line, rest2, ls2) ==
  rest2 = SubSeq(rest, n + 1, Len(rest)) /\ ls2 = Append(ls, line)

\* The line after which the client is disconnected.
IsQuit(line) == line = <<Quit>>

\* A line that is taken from the buffer is the next one of the stream.
LEMMA LineTaken ==
  ASSUME NEW s \in Seq(Byte), NEW rest \in Seq(Byte), NEW p,
         NEW ls \in Seq(Seq(Byte)), Progress(s, p, rest, ls),
         NEW n, NEW line \in Seq(Byte), FirstLine(rest, n, line),
         NEW rest2, NEW ls2, Leaves(rest, ls, n, line, rest2, ls2)
  PROVE  /\ ~IsQuit(line) => Progress(s, p + n, rest2, ls2)
         /\ IsQuit(line) => Accounted(s, ls2) /\ Ends(s)
<1>. /\ n \in 1..Len(rest) /\ rest[n] = LF /\ Open(rest, 1, n - 1)
     /\ line = Stripped(SubSeq(rest, 1, n - 1))
     /\ Len(line) <= MaxContent
     /\ rest2 = SubSeq(rest, n + 1, Len(rest)) /\ ls2 = Append(ls, line)
  BY DEF FirstLine, Leaves
<1>1. /\ p \in Nat /\ Len(rest) = Len(s) - p
      /\ \A i \in 1..Len(rest) : rest[i] = s[p + i]
      /\ Len(ls) = Cardinality(Upto(s, p))
      /\ \A e \in Upto(s, p) :
           ~Fatal(s, e) /\ ls[Cardinality(Upto(s, e))] = LineAt(s, e)
  BY DEF Progress
<1>2. Len(s) \in Nat /\ Len(rest) \in Nat /\ Len(ls) \in Nat
      /\ Len(line) \in Nat /\ MaxContent \in Int
  BY LenType DEF MaxContent
<1>3. PICK e : e = p + n
  OBVIOUS
<1>4. /\ e \in Terminators(s) /\ p < e /\ Open(s, p + 1, e - 1)
      /\ LineAt(s, e) = line
  <2>1. /\ p + n \in Terminators(s) /\ p < p + n
        /\ Open(s, p + 1, p + n - 1)
        /\ LineAt(s, p + n) = Stripped(SubSeq(rest, 1, n - 1))
    BY NextLine
  <2>2. e - 1 = p + n - 1 /\ p < e
    BY <1>1, <1>2, <1>3, <2>1
  <2>. QED BY <1>3, <2>1, <2>2
<1>5. e \in Nat /\ e \in 1..Len(s) /\ s[e] = LF
  BY <1>2, <1>4 DEF Terminators
<1>6. /\ Upto(s, e) = Upto(s, p) \cup {e}
      /\ Cardinality(Upto(s, e)) = Cardinality(Upto(s, p)) + 1
  BY <1>1, <1>4, OneLineMore
<1>7. /\ Len(ls2) = Len(ls) + 1 /\ ls2[Len(ls) + 1] = line
      /\ \A i \in 1..Len(ls) : ls2[i] = ls[i]
  BY <1>2
<1>8. Len(ls2) = Cardinality(Upto(s, e))
  BY <1>1, <1>6, <1>7
<1>9. \A d \in Upto(s, e) : ls2[Cardinality(Upto(s, d))] = LineAt(s, d)
  <2>1. ASSUME NEW d \in Upto(s, p)
        PROVE  ls2[Cardinality(Upto(s, d))] = LineAt(s, d)
    <3>1. Cardinality(Upto(s, d)) \in 1..Len(ls)
      BY <1>1, CountedBelow
    <3>. QED BY <1>1, <1>7, <3>1
  <2>2. ls2[Cardinality(Upto(s, e))] = LineAt(s, e)
    BY <1>1, <1>4, <1>6, <1>7
  <2>. QED BY <1>6, <2>1, <2>2
<1>10. CASE ~IsQuit(line)
  <2>1. ~Fatal(s, e)
    BY <1>2, <1>4, <1>10 DEF Fatal, IsQuit
  <2>2. \A d \in Upto(s, e) :
          ~Fatal(s, d) /\ ls2[Cardinality(Upto(s, d))] = LineAt(s, d)
    BY <1>1, <1>6, <1>9, <2>1
  <2>3. /\ Len(rest2) = Len(rest) - n
        /\ \A i \in 1..(Len(rest) - n) : rest2[i] = rest[n + i]
    <3>1. /\ n + 1 \in Int /\ Len(rest) \in Int /\ n \in Int /\ n <= Len(rest)
          /\ (n + 1)..Len(rest) \subseteq 1..Len(rest)
      BY <1>2
    <3>2. \A i \in (n + 1)..Len(rest) : rest[i] \in Byte
      BY <3>1
    <3>3. Len(rest2) = IF n + 1 <= Len(rest) THEN Len(rest) - (n + 1) + 1 ELSE 0
      BY <3>1, <3>2, SubSeqProperties
    <3>4. Len(rest2) = Len(rest) - n
      BY <3>1, <3>3
    <3>5. rest2 = [i \in 1..(Len(rest) - n) |-> rest[n + i]]
      BY <3>1, PartIs
    <3>6. \A i \in 1..(Len(rest) - n) : rest2[i] = rest[n + i]
      BY <3>5, Zenon
    <3>. QED BY <3>4, <3>6
  <2>4. Len(rest2) = Len(s) - e
    BY <1>1, <1>2, <1>3, <2>3
  <2>5. \A i \in 1..Len(rest2) : rest2[i] = s[e + i]
    <3>1. ASSUME NEW i \in 1..Len(rest2) PROVE rest2[i] = s[e + i]
      <4>1. /\ i \in 1..(Len(rest) - n) /\ n + i \in 1..Len(rest)
            /\ p + (n + i) = e + i
        BY <1>1, <1>2, <1>3, <2>3
      <4>. QED BY <1>1, <2>3, <4>1
    <3>. QED BY <3>1
  <2>6. Begins(s, e)
    BY <1>5 DEF Begins
  <2>7. Progress(s, e, rest2, ls2)
    BY <1>5, <1>8, <2>2, <2>4, <2>5, <2>6 DEF Progress
  <2>. QED BY <1>3, <1>10, <2>7
<1>11. CASE IsQuit(line)
  <2>1. Fatal(s, e)
    BY <1>4, <1>11 DEF Fatal, IsQuit
  <2>2. \A d \in Upto(s, e) : Len(LineAt(s, d)) <= MaxContent
    <3>1. \A d \in Upto(s, p) : Len(LineAt(s, d)) <= MaxContent
      BY <1>1, HarmlessIsShort DEF Upto
    <3>. QED BY <1>4, <1>6, <3>1
  <2>3. \A d \in Upto(s, e) : \A c \in Terminators(s) : c < d => ~Fatal(s, c)
    <3>1. SUFFICES ASSUME NEW d \in Upto(s, e), NEW c \in Terminators(s), c < d
                   PROVE  ~Fatal(s, c)
      OBVIOUS
    <3>2. c \in Upto(s, e) /\ c # e
      BY <1>5, <3>1 DEF Upto, Terminators
    <3>. QED BY <1>1, <1>6, <3>2
  <2>4. \A d \in Terminators(s) \ Upto(s, e) :
          \E c \in Terminators(s) : c < d /\ Fatal(s, c)
    <3>1. SUFFICES ASSUME NEW d \in Terminators(s), d \notin Upto(s, e)
                   PROVE  e < d
      BY <1>4, <2>1
    <3>. QED BY <1>5, <3>1 DEF Upto, Terminators
  <2>5. Processed(s) = Upto(s, e)
    BY <1>5, <2>2, <2>3, <2>4, ProcessedAre
  <2>6. Accounted(s, ls2)
    BY <1>8, <1>9, <2>5 DEF Accounted
  <2>. QED BY <1>4, <1>11, <2>1, <2>6 DEF Ends
<1>. QED BY <1>10, <1>11

\* A complete line that is too long is the next one, and ends the connection.
LEMMA LineRefused ==
  ASSUME NEW s \in Seq(Byte), NEW rest \in Seq(Byte), NEW p,
         NEW ls \in Seq(Seq(Byte)), Progress(s, p, rest, ls),
         NEW n \in 1..Len(rest), rest[n] = LF, Open(rest, 1, n - 1),
         Len(Stripped(SubSeq(rest, 1, n - 1))) > MaxContent
  PROVE  Accounted(s, ls) /\ Ends(s)
<1>1. /\ p \in Nat
      /\ Len(ls) = Cardinality(Upto(s, p))
      /\ \A e \in Upto(s, p) :
           ~Fatal(s, e) /\ ls[Cardinality(Upto(s, e))] = LineAt(s, e)
  BY DEF Progress
<1>2. Len(s) \in Nat /\ MaxContent \in Int
  BY LenType DEF MaxContent
<1>3. PICK e : e = p + n
  OBVIOUS
<1>4. /\ e \in Terminators(s) /\ p < e /\ Open(s, p + 1, e - 1)
      /\ Len(LineAt(s, e)) > MaxContent
  <2>1. /\ p + n \in Terminators(s) /\ p < p + n
        /\ Open(s, p + 1, p + n - 1)
        /\ LineAt(s, p + n) = Stripped(SubSeq(rest, 1, n - 1))
    BY NextLine
  <2>2. e - 1 = p + n - 1 /\ p < e
    BY <1>1, <1>2, <1>3, <2>1
  <2>. QED BY <1>3, <2>1, <2>2
<1>5. Fatal(s, e) /\ e \in 1..Len(s)
  BY <1>4 DEF Fatal, Terminators
<1>6. ~(Len(LineAt(s, e)) <= MaxContent)
  <2>1. Len(LineAt(s, e)) \in Nat
    BY <1>5, LineAtType
  <2>. QED BY <1>2, <1>4, <2>1
<1>7. \A d \in Upto(s, p) : Len(LineAt(s, d)) <= MaxContent
  BY <1>1, HarmlessIsShort DEF Upto
<1>8. \A d \in Upto(s, p) : \A c \in Terminators(s) : c < d => ~Fatal(s, c)
  <2>1. SUFFICES ASSUME NEW d \in Upto(s, p), NEW c \in Terminators(s), c < d
                 PROVE  ~Fatal(s, c)
    OBVIOUS
  <2>2. c \in Upto(s, p)
    BY <1>1, <1>2, <2>1 DEF Upto, Terminators
  <2>. QED BY <1>1, <2>2
<1>9. \A d \in Terminators(s) \ Upto(s, p) :
        \/ ~(Len(LineAt(s, d)) <= MaxContent)
        \/ \E c \in Terminators(s) : c < d /\ Fatal(s, c)
  <2>1. SUFFICES ASSUME NEW d \in Terminators(s), d \notin Upto(s, p), d # e
                 PROVE  e < d
    BY <1>4, <1>5, <1>6
  <2>2. d \in 1..Len(s) /\ s[d] = LF /\ ~(d <= p)
    BY <2>1 DEF Upto, Terminators
  <2>3. d \notin (p + 1)..(e - 1)
    BY <1>4, <2>2 DEF Open
  <2>. QED BY <1>1, <1>2, <1>5, <2>1, <2>2, <2>3
<1>10. Processed(s) = Upto(s, p)
  BY <1>1, <1>7, <1>8, <1>9, ProcessedAre
<1>. QED BY <1>1, <1>4, <1>5, <1>10 DEF Accounted, Ends

\* What arrives comes after what was there.
LEMMA ChunkArrives ==
  ASSUME NEW s \in Seq(Byte), NEW rest \in Seq(Byte), NEW p,
         NEW ls, Progress(s, p, rest, ls), NEW bytes \in Seq(Byte)
  PROVE  Progress(s \o bytes, p, rest \o bytes, ls)
<1>1. /\ p \in Nat /\ Len(rest) = Len(s) - p /\ Begins(s, p)
      /\ \A i \in 1..Len(rest) : rest[i] = s[p + i]
      /\ Len(ls) = Cardinality(Upto(s, p))
      /\ \A e \in Upto(s, p) :
           ~Fatal(s, e) /\ ls[Cardinality(Upto(s, e))] = LineAt(s, e)
  BY DEF Progress
<1>2. Len(s) \in Nat /\ Len(rest) \in Nat /\ Len(bytes) \in Nat
  BY LenType
<1>3. /\ Len(s \o bytes) = Len(s) + Len(bytes)
      /\ Len(rest \o bytes) = Len(rest) + Len(bytes)
  BY ConcatType
<1>4. /\ \A i \in 1..Len(s) : (s \o bytes)[i] = s[i]
      /\ \A i \in 1..Len(rest) : (rest \o bytes)[i] = rest[i]
  OBVIOUS
<1>5. /\ \A i \in 1..Len(bytes) : (s \o bytes)[Len(s) + i] = bytes[i]
      /\ \A i \in 1..Len(bytes) : (rest \o bytes)[Len(rest) + i] = bytes[i]
  OBVIOUS
<1>6. Len(rest \o bytes) = Len(s \o bytes) - p
  BY <1>1, <1>2, <1>3
<1>7. \A i \in 1..Len(rest \o bytes) : (rest \o bytes)[i] = (s \o bytes)[p + i]
  <2>1. ASSUME NEW i \in 1..Len(rest)
        PROVE  (rest \o bytes)[i] = (s \o bytes)[p + i]
    <3>1. p + i \in 1..Len(s)
      BY <1>1, <1>2
    <3>. QED BY <1>1, <1>4, <3>1
  <2>2. ASSUME NEW i \in (Len(rest) + 1)..(Len(rest) + Len(bytes))
        PROVE  (rest \o bytes)[i] = (s \o bytes)[p + i]
    <3>1. PICK k : k = i - Len(rest)
      OBVIOUS
    <3>2. k \in 1..Len(bytes) /\ i = Len(rest) + k /\ p + i = Len(s) + k
      BY <1>1, <1>2, <3>1
    <3>. QED BY <1>5, <3>2
  <2>3. \A i \in 1..Len(rest \o bytes) :
          i \in 1..Len(rest) \/ i \in (Len(rest) + 1)..(Len(rest) + Len(bytes))
    BY <1>2, <1>3
  <2>. QED BY <2>1, <2>2, <2>3
<1>8. p \in 0..Len(s)
  BY <1>1, <1>2
<1>9. Begins(s \o bytes, p)
  BY <1>1, <1>4, <1>8 DEF Begins
<1>10. Upto(s \o bytes, p) = Upto(s, p)
  BY <1>8, UptoStays
<1>11. ASSUME NEW e \in Upto(s, p)
       PROVE  /\ ~Fatal(s \o bytes, e)
              /\ ls[Cardinality(Upto(s \o bytes, e))] = LineAt(s \o bytes, e)
  <2>1. e \in 1..Len(s) /\ e \in 0..Len(s)
    BY <1>2 DEF Upto, Terminators
  <2>2. LineAt(s \o bytes, e) = LineAt(s, e)
    BY <2>1, LinesStay
  <2>3. Upto(s \o bytes, e) = Upto(s, e)
    BY <2>1, UptoStays
  <2>4. Fatal(s \o bytes, e) <=> Fatal(s, e)
    BY <2>2 DEF Fatal
  <2>. QED BY <1>1, <2>2, <2>3, <2>4
<1>. QED BY <1>1, <1>6, <1>7, <1>9, <1>10, <1>11 DEF Progress

\* Every step keeps the account of the stream.
LEMMA NextSplit ==
  ASSUME MaxLine + ChunkSize <= MaxReceive,
         TypeOK, BufferIsShort, BufferIsShort', SplitInv, [Next]_vars
  PROVE  SplitInv'
<1>1. /\ buffer \in Seq(Byte) /\ delivered \in Seq(Byte)
      /\ lines \in Seq(Seq(Byte))
      /\ Len(buffer) \in Nat /\ Len(delivered) \in Nat
  BY LenType DEF TypeOK
<1>2. CASE Receive
  <2>1. scheduled = "no" /\ Progress(delivered, Done, buffer, lines)
    BY <1>2 DEF Receive, SplitInv
  <2>2. PICK n \in 1..ChunkSize : \E bytes \in [1..n -> Byte] :
          buffer' = buffer \o bytes /\ delivered' = delivered \o bytes
    BY <1>2 DEF Receive
  <2>3. PICK bytes \in [1..n -> Byte] :
          buffer' = buffer \o bytes /\ delivered' = delivered \o bytes
    BY <2>2
  <2>4. bytes \in Seq(Byte) /\ Len(bytes) \in Nat
    BY ChunkType
  <2>5. /\ Len(buffer') = Len(buffer) + Len(bytes)
        /\ Len(delivered') = Len(delivered) + Len(bytes)
    BY <1>1, <2>3, <2>4, ConcatType
  <2>6. Done' = Done
    BY <1>1, <2>4, <2>5 DEF Done
  <2>7. Progress(delivered', Done, buffer', lines)
    BY <1>1, <2>1, <2>3, <2>4, ChunkArrives
  <2>8. scheduled' = "no" /\ running' = TRUE /\ lines' = lines
    BY <1>2, <2>1 DEF Receive, BufferIsShort
  <2>9. Progress(delivered', Done', buffer', lines')
    BY <2>6, <2>7, <2>8
  <2>. QED BY <2>8, <2>9 DEF SplitInv
<1>3. CASE ExtractLine
  <2>1. scheduled = "no" /\ Progress(delivered, Done, buffer, lines)
    BY <1>3 DEF ExtractLine, SplitInv
  <2>2. PICK found : found = FindLine(buffer)
    OBVIOUS
  <2>3. /\ found.status = "extracted"
        /\ buffer' = SubSeq(buffer, found.consumed + 1, Len(buffer))
        /\ lines' = Append(lines, found.line)
        /\ delivered' = delivered
        /\ IF found.line = <<Quit>> THEN scheduled' = "quit" /\ running' = FALSE
           ELSE scheduled' = scheduled /\ running' = running
    BY <1>3, <2>2 DEF ExtractLine, EraseReceivePrefix
  <2>4. PICK n : n = found.consumed
    OBVIOUS
  <2>5. PICK line : line = found.line
    OBVIOUS
  <2>6. FirstLine(buffer, n, line)
    BY <1>1, <2>2, <2>3, <2>4, <2>5, FindLineTells DEF FirstLine
  <2>7. line \in Seq(Byte)
    BY <1>1, <2>2, <2>5, FindLineType
  <2>8. buffer' = SubSeq(buffer, n + 1, Len(buffer)) /\ lines' = Append(lines, line)
    BY <2>3, <2>4, <2>5
  <2>9. /\ line # <<Quit>> => Progress(delivered, Done + n, buffer', lines')
        /\ line = <<Quit>> => Accounted(delivered, lines') /\ Ends(delivered)
    <3>1. PICK rest2, ls2 : rest2 = buffer' /\ ls2 = lines'
      OBVIOUS
    <3>2. Leaves(buffer, lines, n, line, rest2, ls2)
      BY <2>8, <3>1 DEF Leaves
    <3>3. /\ ~IsQuit(line) => Progress(delivered, Done + n, rest2, ls2)
          /\ IsQuit(line) => Accounted(delivered, ls2) /\ Ends(delivered)
      BY <1>1, <2>1, <2>6, <2>7, <3>2, LineTaken
    <3>. QED BY <3>1, <3>3 DEF IsQuit
  <2>10. CASE line # <<Quit>>
    <3>1. scheduled' = "no" /\ running' = TRUE
      BY <1>3, <2>1, <2>3, <2>5, <2>10 DEF ExtractLine
    <3>2. Done' = Done + n
      <4>1. /\ Len(buffer') = Len(delivered) - (Done + n)
            /\ Done + n \in Nat
        BY <2>9, <2>10 DEF Progress
      <4>2. Done' = Len(delivered) - Len(buffer')
        BY <2>3 DEF Done
      <4>. QED BY <1>1, <4>1, <4>2
    <3>3. Progress(delivered', Done', buffer', lines')
      BY <2>3, <2>9, <2>10, <3>2
    <3>. QED BY <3>1, <3>3 DEF SplitInv
  <2>11. CASE line = <<Quit>>
    <3>1. scheduled' = "quit" /\ running' = FALSE
      BY <2>3, <2>5, <2>11
    <3>. QED BY <2>3, <2>9, <2>11, <3>1 DEF SplitInv
  <2>. QED BY <2>10, <2>11
<1>4. CASE LineTooLong
  <2>1. scheduled = "no" /\ Progress(delivered, Done, buffer, lines)
    BY <1>4 DEF LineTooLong, SplitInv
  <2>2. PICK found : found = FindLine(buffer)
    OBVIOUS
  <2>3. /\ found.status = "too long"
        /\ scheduled' = "too long" /\ running' = FALSE
        /\ lines' = lines /\ delivered' = delivered
    BY <1>4, <2>2 DEF LineTooLong
  <2>4. CASE Terminators(buffer) = {}
    <3>1. Len(buffer) >= MaxLine
      BY <1>1, <2>2, <2>3, <2>4, FindLineTells
    <3>2. Accounted(delivered, lines) /\ Unfinished(delivered) = Len(buffer)
      BY <1>1, <2>1, <2>4, NothingLeft
    <3>. QED BY <2>3, <3>1, <3>2 DEF SplitInv, Ends
  <2>5. CASE Terminators(buffer) # {}
    <3>1. PICK n : n = found.consumed
      OBVIOUS
    <3>2. /\ n \in 1..Len(buffer) /\ buffer[n] = LF /\ Open(buffer, 1, n - 1)
          /\ Len(Stripped(SubSeq(buffer, 1, n - 1))) > MaxContent
      BY <1>1, <2>2, <2>3, <2>5, <3>1, FindLineTells
    <3>3. Accounted(delivered, lines) /\ Ends(delivered)
      BY <1>1, <2>1, <3>2, LineRefused
    <3>. QED BY <2>3, <3>3 DEF SplitInv
  <2>. QED BY <2>4, <2>5
<1>5. CASE WaitForMore
  <2>1. Terminators(buffer) = {} /\ Len(buffer) < MaxLine
    BY <1>1, <1>5, FindLineTells DEF WaitForMore
  <2>. QED BY <1>5, <2>1 DEF WaitForMore, SplitInv, Done
<1>6. CASE Silent \/ UNCHANGED vars
  BY <1>6 DEF Silent, vars, SplitInv, Done
<1>. QED BY <1>2, <1>3, <1>4, <1>5, <1>6 DEF Next

\* The invariant says what the property does.
LEMMA SplitIsEnough ==
  ASSUME TypeOK, SplitInv
  PROVE  SegmentationIndependent
<1>1. buffer \in Seq(Byte) /\ delivered \in Seq(Byte)
  BY DEF TypeOK
<1>2. CASE running
  BY <1>2 DEF SegmentationIndependent
<1>3. CASE ~running
  <2>1. Accounted(delivered, lines) /\ (scheduled # "no" <=> Ends(delivered))
    <3>1. CASE scheduled # "no"
      BY <3>1 DEF SplitInv
    <3>2. CASE scheduled = "no"
      <4>1. /\ Progress(delivered, Done, buffer, lines)
            /\ Terminators(buffer) = {} /\ Len(buffer) < MaxLine
        BY <1>3, <3>2 DEF SplitInv
      <4>2. /\ Accounted(delivered, lines)
            /\ \A e \in Terminators(delivered) : ~Fatal(delivered, e)
            /\ Unfinished(delivered) = Len(buffer)
        BY <1>1, <4>1, NothingLeft
      <4>3. ~(Unfinished(delivered) >= MaxLine)
        <5>1. Len(buffer) \in Nat
          BY <1>1, LenType
        <5>. QED BY <4>1, <4>2, <5>1
      <4>. QED BY <3>2, <4>2, <4>3 DEF Ends
    <3>. QED BY <3>1, <3>2
  <2>. QED BY <2>1 DEF SegmentationIndependent, Accounted, Upto, Ends
<1>. QED BY <1>2, <1>3

\* It holds when a client has sent nothing.
LEMMA InitSplit ==
  ASSUME Init
  PROVE  SplitInv
<1>1. /\ buffer = <<>> /\ delivered = <<>> /\ lines = <<>>
      /\ scheduled = "no" /\ running = FALSE
  BY DEF Init
<1>2. Len(<<>>) = 0
  OBVIOUS
<1>3. Done = 0
  BY <1>1, <1>2 DEF Done
<1>4. Terminators(<<>>) = {}
  BY <1>2 DEF Terminators
<1>5. Upto(<<>>, 0) = {}
  BY <1>4 DEF Upto
<1>6. Cardinality(Upto(<<>>, 0)) = 0
  BY <1>5, FS_EmptySet
<1>7. Progress(<<>>, 0, <<>>, <<>>)
  BY <1>2, <1>5, <1>6 DEF Progress, Begins
<1>. QED BY <1>1, <1>2, <1>3, <1>4, <1>7 DEF SplitInv

\* With sizes for which the receive limit cannot be reached (512 + 4096 <=
\* 65536 in the code), what receiveFromClient has given to processLine, and
\* whether it has scheduled the client, depends on the bytes alone, not on
\* how recv() cut them.
THEOREM SegmentationIsInvisible ==
  ASSUME MaxLine + ChunkSize <= MaxReceive
  PROVE  Spec => []SegmentationIndependent
<1>1. Init => TypeOK /\ BufferIsShort /\ SplitInv
  <2>1. <<>> \in Seq(Byte) /\ <<>> \in Seq(Seq(Byte)) /\ Len(<<>>) < MaxLine
    BY EmptyType
  <2>. QED BY <2>1, InitSplit DEF Init, TypeOK, BufferIsShort
<1>2. /\ TypeOK /\ BufferIsShort /\ SplitInv /\ [Next]_vars
      => TypeOK' /\ BufferIsShort' /\ SplitInv'
  BY NextShort, NextSplit
<1>3. TypeOK /\ SplitInv => SegmentationIndependent
  BY SplitIsEnough
<1>. QED BY <1>1, <1>2, <1>3, PTL DEF Spec
=============================================================================
