----------------------------- MODULE TextProofs -----------------------------
(***************************************************************************)
(* The functions on text, for every input: the rate limit takes what it    *)
(* should from any sequence of times, parsePositiveSize() reads any number *)
(* or none, and whatever one user types, sends as a line or sets as a key  *)
(* is what the others read.                                                *)
(*                                                                         *)
(* The functions are recursive over the places of a text.  Each is         *)
(* unfolded once (RateStates, Written, ParamsRead, WordsRead,              *)
(* CommaListRead, SanitizedRead): the steps of the recursion are a         *)
(* function, and a set of places that holds the first and with each its    *)
(* successor holds all, because the least one missing would have a         *)
(* predecessor (StepByStep, Downward).  Lines are then described place by  *)
(* place (Relayed, Addressed, Sent, Delivered), which is what the parsers  *)
(* read.                                                                   *)
(***************************************************************************)
EXTENDS MCText, WellFoundedInduction, SequenceTheorems, FiniteSetTheorems, TLAPS

\* A nonempty set of numbers has a smallest element.
LEMMA SmallestNumber ==
  ASSUME NEW S \in SUBSET Nat, S # {}
  PROVE  \E i \in S : \A j \in S : i <= j
<1>1. PICK i \in S : \A j \in S : ~(<<j, i>> \in OpToRel(<, Nat))
  BY NatLessThanWellFounded, WFMin
<1>2. \A j \in S : ~(j < i)
  BY <1>1 DEF OpToRel
<1>. QED BY <1>2

\* Induction over the numbers up to n, for a set.
LEMMA UpTo ==
  ASSUME NEW n \in Nat, NEW K, 0 \in K,
         \A m \in 0..n : m \in K /\ m < n => m + 1 \in K
  PROVE  \A m \in 0..n : m \in K
<1>. SUFFICES ASSUME NEW m \in 0..n, m \notin K PROVE FALSE
  OBVIOUS
<1>1. PICK i \in (0..n) \ K : \A j \in (0..n) \ K : i <= j
  <2>1. (0..n) \ K \in SUBSET Nat /\ (0..n) \ K # {}
    OBVIOUS
  <2>. QED BY <2>1, SmallestNumber
<1>2. i # 0
  BY <1>1
<1>3. i - 1 \in 0..n /\ i - 1 < n /\ i - 1 + 1 = i
  BY <1>1, <1>2
<1>4. i - 1 \in K
  BY <1>1, <1>3
<1>. QED BY <1>1, <1>3, <1>4

\* What is computed in n steps, each from the one before, is computed.
Computes(f, n, base, step) ==
  f[0] = base /\ \A j \in 1..n : f[j] = step[<<j, f[j - 1]>>]

LEMMA StepByStep ==
  ASSUME NEW n \in Nat, NEW S, NEW base \in S, NEW step \in [(1..n) \X S -> S]
  PROVE  \E f \in [0..n -> S] : Computes(f, n, base, step)
<1>. DEFINE Good(m, f) == f[0] = base /\ \A j \in 1..m : f[j] = step[<<j, f[j - 1]>>]
            K == {m \in 0..n : \E f \in [0..m -> S] : Good(m, f)}
<1>1. 0 \in K
  <2>1. PICK f \in [0..0 -> S] : f = [j \in 0..0 |-> base]
    OBVIOUS
  <2>2. Good(0, f)
    BY <2>1
  <2>. QED BY <2>2
<1>2. \A m \in 0..n : m \in K /\ m < n => m + 1 \in K
  <2>. SUFFICES ASSUME NEW m \in 0..n, m \in K, m < n PROVE m + 1 \in K
    OBVIOUS
  <2>1. PICK f \in [0..m -> S] : Good(m, f)
    OBVIOUS
  <2>. DEFINE new == step[<<m + 1, f[m]>>]
              g == [j \in 0..m + 1 |-> IF j <= m THEN f[j] ELSE new]
  <2>2. new \in S
    OBVIOUS
  <2>3. g \in [0..m + 1 -> S]
    BY <2>2
  <2>4. \A j \in 0..m : g[j] = f[j]
    OBVIOUS
  <2>5. g[m + 1] = new
    OBVIOUS
  <2>. HIDE DEF g
  <2>6. Good(m + 1, g)
    <3>1. ASSUME NEW j \in 1..m + 1 PROVE g[j] = step[<<j, g[j - 1]>>]
      <4>1. CASE j \in 1..m
        BY <4>1, <2>1, <2>4
      <4>2. CASE j = m + 1
        BY <4>2, <2>4, <2>5
      <4>. QED BY <4>1, <4>2
    <3>. QED BY <2>1, <2>4, <3>1
  <2>. QED BY <2>3, <2>6
<1>3. n \in K
  <2>. HIDE DEF K
  <2>1. \A m \in 0..n : m \in K
    BY <1>1, <1>2, UpTo
  <2>. QED BY <2>1
<1>4. PICK f \in [0..n -> S] : Good(n, f)
  BY <1>3
<1>. QED BY <1>4 DEF Computes

\* Induction from the end of a text to its begin, for a set of places.
LEMMA Downward ==
  ASSUME NEW n \in Nat, NEW K,
         \A p \in 1..n + 1 : (\A q \in p + 1..n + 1 : q \in K) => p \in K
  PROVE  \A p \in 1..n + 1 : p \in K
<1>. SUFFICES ASSUME NEW p \in 1..n + 1, p \notin K PROVE FALSE
  OBVIOUS
<1>. DEFINE gaps == {m \in 0..n : n + 1 - m \notin K}
<1>1. n + 1 - p \in gaps
  <2>1. n + 1 - p \in 0..n /\ n + 1 - (n + 1 - p) = p
    OBVIOUS
  <2>. QED BY <2>1
<1>2. PICK g \in gaps : \A m \in gaps : g <= m
  <2>1. gaps \in SUBSET Nat
    OBVIOUS
  <2>. HIDE DEF gaps
  <2>. QED BY <1>1, <2>1, SmallestNumber
<1>3. PICK last \in 1..n + 1 : last = n + 1 - g
  BY <1>2
<1>4. last \notin K
  BY <1>2, <1>3
<1>5. ASSUME NEW q \in last + 1..n + 1, q \notin K PROVE FALSE
  <2>1. n + 1 - q \in 0..n /\ n + 1 - (n + 1 - q) = q /\ n + 1 - q < g
    BY <1>3
  <2>2. n + 1 - q \in gaps
    BY <1>5, <2>1
  <2>3. g <= n + 1 - q
    BY <1>2, <2>2
  <2>. QED BY <1>2, <2>1, <2>3
<1>. QED BY <1>3, <1>4, <1>5

\* What is computed of each place from a place further on is computed.
Reaches(f, n, done, base, next, step) ==
  \A p \in 1..n + 1 :
    f[p] = IF p \in done THEN base[p] ELSE step[<<p, f[next[p]]>>]

LEMMA FromTheEnd ==
  ASSUME NEW n \in Nat, NEW S, NEW done, NEW base \in [1..n + 1 -> S],
         NEW next \in [1..n + 1 -> 1..n + 1],
         NEW step \in [(1..n + 1) \X S -> S],
         \A p \in 1..n + 1 : p \notin done => next[p] > p
  PROVE  \E f \in [1..n + 1 -> S] : Reaches(f, n, done, base, next, step)
<1>. DEFINE Value(f, p) == IF p \in done THEN base[p] ELSE step[<<p, f[next[p]]>>]
            Good(m, f) == \A p \in n + 2 - m..n + 1 : f[p] = Value(f, p)
            K == {m \in 0..n + 1 : \E f \in [n + 2 - m..n + 1 -> S] : Good(m, f)}
<1>1. 0 \in K
  <2>1. PICK f : f = [p \in n + 2..n + 1 |-> base[p]]
    OBVIOUS
  <2>2. n + 2 - 0 = n + 2 /\ \A p : p \notin n + 2..n + 1
    OBVIOUS
  <2>3. f \in [n + 2 - 0..n + 1 -> S]
    BY <2>1, <2>2
  <2>4. Good(0, f)
    BY <2>2
  <2>. HIDE DEF Good
  <2>. QED BY <2>3, <2>4
<1>2. ASSUME NEW m \in 0..n + 1, m \in K, m < n + 1 PROVE m + 1 \in K
  <2>1. PICK f \in [n + 2 - m..n + 1 -> S] : Good(m, f)
    BY <1>2
  <2>2. PICK new \in 1..n + 1 : new = n + 1 - m /\ new = n + 2 - (m + 1) /\ new + 1 = n + 2 - m
    BY <1>2
  <2>3. PICK v \in S : v = Value(f, new)
    <3>1. CASE new \in done
      BY <3>1
    <3>2. CASE new \notin done
      <4>1. next[new] \in new + 1..n + 1
        BY <3>2
      <4>2. f[next[new]] \in S
        BY <2>2, <4>1
      <4>3. step[<<new, f[next[new]]>>] \in S
        BY <4>2
      <4>. QED BY <3>2, <4>3
    <3>. QED BY <3>1, <3>2
  <2>4. PICK g : g = [p \in new..n + 1 |-> IF p = new THEN v ELSE f[p]]
    OBVIOUS
  <2>5. \A p \in new..n + 1 : p = new \/ p \in new + 1..n + 1
    OBVIOUS
  <2>6. \A p \in new + 1..n + 1 : p \in new..n + 1 /\ p # new
    OBVIOUS
  <2>7. /\ g \in [new..n + 1 -> S] /\ g[new] = v
        /\ \A p \in new + 1..n + 1 : g[p] = f[p]
    <3>1. ASSUME NEW p \in new + 1..n + 1 PROVE f[p] \in S
      BY <2>2
    <3>. QED BY <2>4, <2>5, <2>6, <3>1
  <2>8. ASSUME NEW p \in new..n + 1 PROVE g[p] = Value(g, p)
    <3>1. p \notin done => next[p] \in new + 1..n + 1
      <4>1. p \in 1..n + 1
        OBVIOUS
      <4>2. p \notin done => next[p] > p /\ next[p] \in 1..n + 1
        BY <4>1
      <4>. QED BY <4>1, <4>2
    <3>2. Value(g, p) = Value(f, p)
      BY <2>7, <3>1
    <3>3. CASE p = new
      <4>. HIDE DEF Value
      <4>. QED BY <2>3, <2>7, <3>2, <3>3
    <3>4. CASE p \in new + 1..n + 1
      <4>1. f[p] = Value(f, p)
        BY <2>1, <2>2, <3>4
      <4>. HIDE DEF Value
      <4>. QED BY <2>7, <3>2, <3>4, <4>1
    <3>. QED BY <2>5, <3>3, <3>4
  <2>9. Good(m + 1, g)
    <3>. HIDE DEF Value
    <3>. QED BY <2>2, <2>8
  <2>10. g \in [n + 2 - (m + 1)..n + 1 -> S]
    BY <2>2, <2>7
  <2>11. m + 1 \in 0..n + 1
    BY <1>2
  <2>. HIDE DEF Good
  <2>. QED BY <2>9, <2>10, <2>11
<1>3. n + 1 \in K
  <2>. HIDE DEF K
  <2>1. PICK l \in Nat : l = n + 1
    OBVIOUS
  <2>2. \A m \in 0..l : m \in K
    BY <1>1, <1>2, <2>1, UpTo
  <2>. QED BY <2>1, <2>2
<1>4. PICK f \in [n + 2 - (n + 1)..n + 1 -> S] : Good(n + 1, f)
  BY <1>3
<1>5. n + 2 - (n + 1) = 1
  OBVIOUS
<1>. QED BY <1>4, <1>5 DEF Reaches

-----------------------------------------------------------------------------
(***************************************************************************)
(* The rate limit                                                          *)
(***************************************************************************)

\* The gateway forgets d of the actions it remembers, and no more.
Forgets(recent, now, window, d) ==
  /\ Unexpired(recent, now, window) = SubSeq(recent, d + 1, Len(recent))
  /\ \A j \in 1..d : recent[j] < now - window
  /\ d < Len(recent) => ~(recent[d + 1] < now - window)

LEMMA Forgotten ==
  ASSUME NEW recent \in Seq(Int), NEW now \in Int, NEW window \in Nat
  PROVE  \E d \in 0..Len(recent) : Forgets(recent, now, window, d)
<1>. DEFINE old == {n \in 0..Len(recent) : \A j \in 1..n : recent[j] < now - window}
<1>1. Len(recent) \in Nat
  OBVIOUS
<1>2. \E n \in old : \A other \in old : n >= other
  <2>. DEFINE gaps == {Len(recent) - n : n \in old}
  <2>1. 0 \in old
    BY <1>1
  <2>2. gaps \in SUBSET Nat /\ gaps # {}
    BY <1>1, <2>1
  <2>3. PICK g \in gaps : \A other \in gaps : g <= other
    BY <2>2, SmallestNumber
  <2>4. PICK n \in old : g = Len(recent) - n
    BY <2>3
  <2>5. ASSUME NEW other \in old PROVE n >= other
    <3>1. Len(recent) - other \in gaps
      OBVIOUS
    <3>2. Len(recent) - n <= Len(recent) - other
      BY <2>3, <2>4, <3>1
    <3>3. n \in Nat /\ other \in Nat
      BY <1>1
    <3>. QED BY <1>1, <3>2, <3>3
  <2>. QED BY <2>5
<1>3. PICK d : d = CHOOSE n \in old : \A other \in old : n >= other
  OBVIOUS
<1>4. d \in old /\ \A other \in old : d >= other
  BY <1>2, <1>3
<1>5. d \in 0..Len(recent) /\ \A j \in 1..d : recent[j] < now - window
  BY <1>4
<1>6. ASSUME d < Len(recent), recent[d + 1] < now - window PROVE FALSE
  <2>1. d + 1 \in old
    <3>1. d + 1 \in 0..Len(recent)
      BY <1>1, <1>5, <1>6
    <3>2. ASSUME NEW j \in 1..d + 1 PROVE recent[j] < now - window
      BY <1>5, <1>6, <3>2
    <3>. QED BY <3>1, <3>2
  <2>2. d >= d + 1
    BY <1>4, <2>1
  <2>. QED BY <1>1, <1>5, <2>2
<1>7. Unexpired(recent, now, window) = SubSeq(recent, 1 + d, Len(recent))
  BY <1>3 DEF Unexpired
<1>8. 1 + d = d + 1
  BY <1>1, <1>5
<1>. QED BY <1>5, <1>6, <1>7, <1>8 DEF Forgets

\* The states of the rate limit, one from the other.
IsRateHistory(after, times, burst, window) ==
  /\ after \in [0..Len(times) -> [recent : Seq(Int), taken : BOOLEAN]]
  /\ after[0].recent = <<>>
  /\ \A j \in 1..Len(times) :
       LET kept == Unexpired(after[j - 1].recent, times[j], window)
       IN /\ after[j].taken = Room(kept, burst)
          /\ after[j].recent = IF Room(kept, burst) THEN Append(kept, times[j])
                               ELSE kept

LEMMA RateStates ==
  ASSUME NEW times \in Seq(Int), NEW burst \in Nat, NEW window \in Nat
  PROVE  IsRateHistory(AfterEach(times, burst, window), times, burst, window)
<1>. DEFINE S == [recent : Seq(Int), taken : BOOLEAN]
            base == [recent |-> <<>>, taken |-> FALSE]
            kept(s, j) == Unexpired(s.recent, times[j], window)
            new(s, j) == [recent |-> IF Room(kept(s, j), burst)
                                     THEN Append(kept(s, j), times[j]) ELSE kept(s, j),
                          taken |-> Room(kept(s, j), burst)]
            step == [p \in (1..Len(times)) \X S |-> new(p[2], p[1])]
<1>1. Len(times) \in Nat
  OBVIOUS
<1>2. base \in S
  OBVIOUS
<1>3. ASSUME NEW s \in S, NEW j \in 1..Len(times) PROVE new(s, j) \in S
  <2>1. s.recent \in Seq(Int) /\ times[j] \in Int
    OBVIOUS
  <2>2. kept(s, j) \in Seq(Int)
    <3>1. PICK r \in Seq(Int) : r = s.recent
      BY <2>1
    <3>2. PICK now \in Int : now = times[j]
      BY <2>1
    <3>3. PICK d \in 0..Len(r) : Forgets(r, now, window, d)
      BY Forgotten
    <3>4. SubSeq(r, d + 1, Len(r)) \in Seq(Int)
      OBVIOUS
    <3>. QED BY <3>1, <3>2, <3>3, <3>4 DEF Forgets
  <2>3. Append(kept(s, j), times[j]) \in Seq(Int)
    BY <2>1, <2>2
  <2>4. Room(kept(s, j), burst) \in BOOLEAN
    BY DEF Room
  <2>. HIDE DEF kept
  <2>. QED BY <2>2, <2>3, <2>4
<1>4. step \in [(1..Len(times)) \X S -> S]
  <2>. HIDE DEF new
  <2>. QED BY <1>3
<1>5. PICK f \in [0..Len(times) -> S] :
        f[0] = base /\ \A j \in 1..Len(times) : f[j] = step[<<j, f[j - 1]>>]
  <2>. HIDE DEF S, base, step
  <2>1. PICK n \in Nat : n = Len(times)
    BY <1>1
  <2>2. PICK b \in S : b = base
    BY <1>2
  <2>3. PICK t \in [(1..n) \X S -> S] : t = step
    BY <1>4, <2>1
  <2>4. PICK f \in [0..n -> S] :
          Computes(f, n, b, t)
    BY StepByStep
  <2>. QED BY <2>1, <2>2, <2>3, <2>4 DEF Computes
<1>6. ASSUME NEW j \in 1..Len(times) PROVE step[<<j, f[j - 1]>>] = new(f[j - 1], j)
  <2>1. j - 1 \in 0..Len(times)
    BY <1>1
  <2>2. f[j - 1] \in S
    BY <2>1
  <2>. HIDE DEF new, S
  <2>. QED BY <2>2
<1>7. f = [j \in 0..Len(times) |-> IF j = 0 THEN base ELSE new(f[j - 1], j)]
  <2>. HIDE DEF step, new, base
  <2>1. \A j \in 0..Len(times) : j # 0 => j \in 1..Len(times)
    BY <1>1
  <2>2. \A j \in 0..Len(times) : f[j] = IF j = 0 THEN base ELSE new(f[j - 1], j)
    BY <1>5, <1>6, <2>1
  <2>3. f = [j \in 0..Len(times) |-> f[j]]
    OBVIOUS
  <2>4. [j \in 0..Len(times) |-> f[j]]
          = [j \in 0..Len(times) |-> IF j = 0 THEN base ELSE new(f[j - 1], j)]
    BY <2>2
  <2>. QED BY <2>3, <2>4, Zenon
<1>8. PICK after : after = AfterEach(times, burst, window)
  OBVIOUS
<1>9. after = [j \in 0..Len(times) |-> IF j = 0 THEN base ELSE new(after[j - 1], j)]
  BY <1>7, <1>8 DEF AfterEach
<1>10. ASSUME NEW j \in 0..Len(times)
       PROVE  after[j] = IF j = 0 THEN base ELSE new(after[j - 1], j)
  <2>. HIDE DEF base, new
  <2>. QED BY <1>9
<1>11. DOMAIN after = 0..Len(times)
  <2>. HIDE DEF base, new
  <2>. QED BY <1>9
<1>12. \A j \in 0..Len(times) : after[j] \in S
  <2>. DEFINE K == {j \in 0..Len(times) : after[j] \in S}
  <2>1. 0 \in K
    <3>. HIDE DEF S, new
    <3>. QED BY <1>1, <1>2, <1>10
  <2>2. ASSUME NEW m \in 0..Len(times), m \in K, m < Len(times) PROVE m + 1 \in K
    <3>1. m + 1 \in 1..Len(times) /\ m + 1 - 1 = m
      BY <1>1, <2>2
    <3>2. new(after[m], m + 1) \in S
      <4>. HIDE DEF S, new
      <4>. QED BY <1>3, <2>2, <3>1
    <3>. HIDE DEF S, new
    <3>. QED BY <1>10, <3>1, <3>2
  <2>3. PICK n \in Nat : n = Len(times)
    BY <1>1
  <2>. HIDE DEF K
  <2>4. \A j \in 0..n : j \in K
    BY <2>1, <2>2, <2>3, UpTo
  <2>. QED BY <2>3, <2>4 DEF K
<1>13. after \in [0..Len(times) -> S]
  <2>1. after = [j \in 0..Len(times) |-> after[j]]
    <3>. HIDE DEF base, new
    <3>. QED BY <1>9, <1>11
  <2>. HIDE DEF S
  <2>. QED BY <1>12, <2>1
<1>14. after[0].recent = <<>>
  <2>1. after[0] = base
    <3>. HIDE DEF base, new
    <3>. QED BY <1>1, <1>10
  <2>. QED BY <2>1
<1>15. ASSUME NEW j \in 1..Len(times)
       PROVE  /\ after[j].taken = Room(kept(after[j - 1], j), burst)
              /\ after[j].recent = IF Room(kept(after[j - 1], j), burst)
                                   THEN Append(kept(after[j - 1], j), times[j])
                                   ELSE kept(after[j - 1], j)
  <2>1. after[j] = new(after[j - 1], j)
    <3>1. j \in 0..Len(times) /\ j # 0
      BY <1>1
    <3>. HIDE DEF new, base
    <3>. QED BY <1>10, <3>1
  <2>. HIDE DEF kept
  <2>. QED BY <2>1
<1>16. IsRateHistory(after, times, burst, window)
  BY <1>13, <1>14, <1>15 DEF IsRateHistory
<1>. QED BY <1>8, <1>16

\* The actions remembered are those at the places in S, in their order.
Lists(recent, times, S) ==
  \E e \in [1..Len(recent) -> S] :
    /\ \A k \in 1..Len(recent) : recent[k] = times[e[k]]
    /\ \A k, l \in 1..Len(recent) : k < l => e[k] < e[l]
    /\ \A n \in S : \E k \in 1..Len(recent) : e[k] = n

\* Then there are as many.
LEMMA ListsCount ==
  ASSUME NEW recent \in Seq(Int), NEW times, NEW S \in SUBSET Nat,
         Lists(recent, times, S)
  PROVE  Cardinality(S) = Len(recent)
<1>1. PICK e \in [1..Len(recent) -> S] :
        /\ \A k, l \in 1..Len(recent) : k < l => e[k] < e[l]
        /\ \A n \in S : \E k \in 1..Len(recent) : e[k] = n
  BY DEF Lists
<1>2. PICK m \in Nat : m = Len(recent)
  OBVIOUS
<1>3. e \in Bijection(1..m, S)
  <2>1. ASSUME NEW k \in 1..m, NEW l \in 1..m, e[k] = e[l] PROVE k = l
    <3>1. e[k] \in Nat /\ e[l] \in Nat
      BY <1>2
    <3>2. ~(k < l) /\ ~(l < k)
      BY <1>1, <1>2, <2>1, <3>1
    <3>. QED BY <3>2
  <2>. QED BY <1>1, <1>2, <2>1 DEF Bijection, Injection, Surjection, IsInjective
<1>4. ExistsBijection(1..m, S)
  BY <1>3 DEF ExistsBijection
<1>5. Cardinality(S) = m
  BY <1>4, FS_CountingElements
<1>. QED BY <1>2, <1>5

\* What is forgotten is what is too old, when the clock is not set back.
LEMMA ListsForget ==
  ASSUME NEW recent \in Seq(Int), NEW times \in Seq(Int),
         NEW S \in SUBSET (1..Len(times)),
         NEW now \in Int, NEW window \in Nat, NEW d \in 0..Len(recent),
         \A a, b \in 1..Len(times) : a < b => times[a] <= times[b],
         Lists(recent, times, S), Forgets(recent, now, window, d)
  PROVE  Lists(Unexpired(recent, now, window), times,
               {n \in S : times[n] >= now - window})
<1>1. PICK e \in [1..Len(recent) -> S] :
        /\ \A k \in 1..Len(recent) : recent[k] = times[e[k]]
        /\ \A k, l \in 1..Len(recent) : k < l => e[k] < e[l]
        /\ \A n \in S : \E k \in 1..Len(recent) : e[k] = n
  BY DEF Lists
<1>2. PICK kept : kept = Unexpired(recent, now, window)
  OBVIOUS
<1>3. PICK m \in Nat : m = Len(recent) - d
  <2>1. Len(recent) \in Nat /\ d \in Nat /\ d <= Len(recent)
    OBVIOUS
  <2>2. Len(recent) - d \in Nat
    BY <2>1
  <2>. QED BY <2>2
<1>4. /\ Len(kept) = m
      /\ \A k \in 1..m : kept[k] = recent[d + k]
  <2>1. kept = SubSeq(recent, d + 1, Len(recent))
    BY <1>2 DEF Forgets
  <2>2. Len(kept) = m
    BY <1>3, <2>1
  <2>3. ASSUME NEW k \in 1..m PROVE kept[k] = recent[d + k]
    BY <1>3, <2>1, <2>3
  <2>. QED BY <2>2, <2>3
<1>. DEFINE R == {n \in S : times[n] >= now - window}
<1>5. \A k \in 1..Len(recent) : e[k] \in R <=> k > d
  <2>. SUFFICES ASSUME NEW k \in 1..Len(recent) PROVE e[k] \in R <=> k > d
    OBVIOUS
  <2>1. e[k] \in S /\ recent[k] = times[e[k]] /\ recent[k] \in Int
    <3>1. recent[k] \in Int
      OBVIOUS
    <3>2. recent[k] = times[e[k]]
      BY <1>1
    <3>3. e[k] \in S
      OBVIOUS
    <3>. QED BY <3>1, <3>2, <3>3
  <2>2. CASE k <= d
    <3>1. recent[k] < now - window
      BY <2>2 DEF Forgets
    <3>. QED BY <2>1, <2>2, <3>1
  <2>3. CASE k > d
    <3>1. d + 1 \in 1..Len(recent) /\ d < Len(recent)
      BY <2>3
    <3>2. ~(recent[d + 1] < now - window) /\ recent[d + 1] \in Int
      BY <3>1 DEF Forgets
    <3>3. recent[d + 1] <= recent[k]
      <4>1. CASE d + 1 = k
        BY <4>1, <3>2
      <4>2. CASE d + 1 < k
        <5>1. e[d + 1] < e[k] /\ recent[d + 1] = times[e[d + 1]]
          BY <1>1, <3>1, <4>2
        <5>2. e[d + 1] \in 1..Len(times) /\ e[k] \in 1..Len(times)
          BY <3>1
        <5>. QED BY <2>1, <5>1, <5>2
      <4>. QED BY <2>3, <4>1, <4>2
    <3>4. recent[k] >= now - window
      BY <2>1, <3>2, <3>3
    <3>. QED BY <2>1, <2>3, <3>4
  <2>. QED BY <2>2, <2>3
<1>6. PICK g : g = [k \in 1..m |-> e[d + k]]
  OBVIOUS
<1>7. \A k \in 1..m : d + k \in 1..Len(recent) /\ d + k > d
  BY <1>3
<1>8. g \in [1..m -> R] /\ \A k \in 1..m : g[k] = e[d + k]
  <2>. HIDE DEF R
  <2>. QED BY <1>5, <1>6, <1>7
<1>9. ASSUME NEW k \in 1..m PROVE kept[k] = times[g[k]]
  <2>1. kept[k] = recent[d + k] /\ g[k] = e[d + k]
    BY <1>4, <1>8
  <2>2. d + k \in 1..Len(recent)
    BY <1>7
  <2>3. recent[d + k] = times[e[d + k]]
    BY <1>1, <2>2
  <2>. QED BY <2>1, <2>3
<1>10. \A k, l \in 1..m : k < l => g[k] < g[l]
  <2>. SUFFICES ASSUME NEW k \in 1..m, NEW l \in 1..m, k < l PROVE g[k] < g[l]
    OBVIOUS
  <2>1. d + k < d + l
    OBVIOUS
  <2>. QED BY <1>1, <1>7, <1>8, <2>1
<1>11. ASSUME NEW n \in R PROVE \E k \in 1..m : g[k] = n
  <2>1. PICK k \in 1..Len(recent) : e[k] = n
    BY <1>1
  <2>2. k > d
    <3>. HIDE DEF R
    <3>. QED BY <1>5, <1>11, <2>1
  <2>3. PICK l \in 1..m : l = k - d
    BY <1>3, <2>2
  <2>4. d + l = k
    BY <2>3
  <2>. QED BY <1>8, <2>1, <2>3, <2>4
<1>12. Lists(kept, times, R)
  <2>. HIDE DEF R
  <2>. QED BY <1>4, <1>8, <1>9, <1>10, <1>11 DEF Lists
<1>. QED BY <1>2, <1>12

\* One more action is remembered.
LEMMA ListsAppend ==
  ASSUME NEW recent \in Seq(Int), NEW times \in Seq(Int), NEW j \in 1..Len(times),
         NEW S \in SUBSET (1..j - 1), Lists(recent, times, S)
  PROVE  Lists(Append(recent, times[j]), times, S \cup {j})
<1>1. PICK e \in [1..Len(recent) -> S] :
        /\ \A k \in 1..Len(recent) : recent[k] = times[e[k]]
        /\ \A k, l \in 1..Len(recent) : k < l => e[k] < e[l]
        /\ \A n \in S : \E k \in 1..Len(recent) : e[k] = n
  BY DEF Lists
<1>2. PICK m \in Nat : m = Len(recent)
  OBVIOUS
<1>3. PICK new : new = Append(recent, times[j])
  OBVIOUS
<1>4. /\ Len(new) = m + 1 /\ new[m + 1] = times[j]
      /\ \A k \in 1..m : new[k] = recent[k]
  BY <1>2, <1>3
<1>5. PICK g : g = [k \in 1..m + 1 |-> IF k <= m THEN e[k] ELSE j]
  OBVIOUS
<1>6. /\ g \in [1..m + 1 -> S \cup {j}] /\ g[m + 1] = j
      /\ \A k \in 1..m : g[k] = e[k]
  BY <1>2, <1>5
<1>7. \A k \in 1..m + 1 : k \in 1..m \/ k = m + 1
  OBVIOUS
<1>8. \A k \in 1..m + 1 : new[k] = times[g[k]]
  BY <1>1, <1>2, <1>4, <1>6, <1>7
<1>9. \A k, l \in 1..m + 1 : k < l => g[k] < g[l]
  <2>. SUFFICES ASSUME NEW k \in 1..m + 1, NEW l \in 1..m + 1, k < l PROVE g[k] < g[l]
    OBVIOUS
  <2>1. k \in 1..m
    OBVIOUS
  <2>2. CASE l \in 1..m
    BY <1>1, <1>2, <1>6, <2>1, <2>2
  <2>3. CASE l = m + 1
    <3>1. e[k] \in S
      BY <1>2, <2>1
    <3>2. e[k] < j
      <4>1. e[k] \in 1..j - 1
        <5>1. S \subseteq 1..j - 1
          OBVIOUS
        <5>. HIDE DEF Lists
        <5>. QED BY <3>1, <5>1, Zenon
      <4>2. j \in Int
        OBVIOUS
      <4>. QED BY <4>1, <4>2
    <3>. QED BY <1>6, <2>1, <2>3, <3>2
  <2>. QED BY <1>7, <2>2, <2>3
<1>10. \A n \in S \cup {j} : \E k \in 1..m + 1 : g[k] = n
  <2>1. ASSUME NEW n \in S PROVE \E k \in 1..m + 1 : g[k] = n
    <3>1. PICK k \in 1..m : e[k] = n
      BY <1>1, <1>2
    <3>. QED BY <1>6, <3>1
  <2>. QED BY <1>6, <2>1
<1>11. Lists(new, times, S \cup {j})
  <2>1. 1..m + 1 = 1..Len(new)
    BY <1>4
  <2>2. PICK all : all = S \cup {j}
    OBVIOUS
  <2>3. /\ g \in [1..Len(new) -> all]
        /\ \A k \in 1..Len(new) : new[k] = times[g[k]]
        /\ \A k, l \in 1..Len(new) : k < l => g[k] < g[l]
        /\ \A n \in all : \E k \in 1..Len(new) : g[k] = n
    BY <1>6, <1>8, <1>9, <1>10, <2>1, <2>2, Zenon
  <2>4. Lists(new, times, all)
    BY <2>3, Zenon DEF Lists
  <2>. QED BY <2>2, <2>4
<1>. QED BY <1>3, <1>11

\* A clock that never goes back is at no time behind an earlier one.
LEMMA NeverBack ==
  ASSUME NEW times \in Seq(Int), \A j \in 2..Len(times) : times[j - 1] <= times[j]
  PROVE  \A a, b \in 1..Len(times) : a < b => times[a] <= times[b]
<1>. SUFFICES ASSUME NEW a \in 1..Len(times), NEW b \in 1..Len(times), a < b
              PROVE  times[a] <= times[b]
  OBVIOUS
<1>1. PICK n \in Nat : n = b - a
  OBVIOUS
<1>. DEFINE K == {d \in 0..n : times[a] <= times[a + d]}
<1>2. \A d \in 0..n : a + d \in 1..Len(times) /\ times[a + d] \in Int
  <2>1. ASSUME NEW d \in 0..n PROVE a + d \in 1..Len(times)
    BY <1>1
  <2>2. ASSUME NEW d \in 0..n PROVE times[a + d] \in Int
    <3>1. PICK k \in 1..Len(times) : k = a + d
      BY <2>1
    <3>. QED BY <3>1
  <2>. QED BY <2>1, <2>2
<1>3. 0 \in K
  BY <1>2
<1>4. ASSUME NEW d \in 0..n, d \in K, d < n PROVE d + 1 \in K
  <2>1. a + (d + 1) \in 2..Len(times) /\ a + (d + 1) - 1 = a + d /\ d + 1 \in 0..n
    BY <1>1, <1>4
  <2>2. times[a + d] <= times[a + (d + 1)]
    BY <2>1
  <2>3. times[a] <= times[a + d]
    BY <1>4
  <2>4. times[a] <= times[a + (d + 1)]
    BY <1>2, <2>1, <2>2, <2>3
  <2>. QED BY <2>1, <2>4
<1>5. n \in K
  <2>. HIDE DEF K
  <2>1. \A d \in 0..n : d \in K
    BY <1>3, <1>4, UpTo
  <2>. QED BY <2>1
<1>6. a + n = b
  BY <1>1
<1>. QED BY <1>5, <1>6

\* The limit takes a message exactly when fewer than "burst" of those taken
\* came within the window before it, whatever the three are.
LEMMA TakenWithinBurst ==
  ASSUME NEW times \in Seq(Int), NEW burst \in Nat, NEW window \in Nat
  PROVE  RateIsExact(times, burst, window)
<1>. DEFINE Sorted == \A j \in 2..Len(times) : times[j - 1] <= times[j]
<1>1. PICK after : after = AfterEach(times, burst, window)
  OBVIOUS
<1>2. /\ after \in [0..Len(times) -> [recent : Seq(Int), taken : BOOLEAN]]
      /\ after[0].recent = <<>>
      /\ \A j \in 1..Len(times) :
           LET kept == Unexpired(after[j - 1].recent, times[j], window)
           IN /\ after[j].taken = Room(kept, burst)
              /\ after[j].recent = IF Room(kept, burst) THEN Append(kept, times[j])
                                   ELSE kept
  <2>1. IsRateHistory(after, times, burst, window)
    BY <1>1, RateStates
  <2>. QED BY <2>1, Zenon DEF IsRateHistory
<1>3. PICK len \in Nat : len = Len(times)
  OBVIOUS
<1>4. PICK taken : taken = [j \in 1..len |-> after[j].taken]
  OBVIOUS
<1>5. taken = Limiter(times, burst, window)
  <2>1. DOMAIN times = 1..len
    BY <1>3
  <2>. QED BY <1>1, <1>4, <2>1 DEF Limiter
<1>. DEFINE Before(j) == {n \in 1..j - 1 : taken[n] /\ times[n] >= times[j] - window}
            Within(j) == {n \in 1..j : taken[n] /\ times[n] >= times[j] - window}
            Kept(j) == Unexpired(after[j - 1].recent, times[j], window)
<1>6. ASSUME NEW j \in 0..len PROVE after[j].recent \in Seq(Int)
  BY <1>2, <1>3
<1>7. ASSUME NEW j \in 1..len
      PROVE  /\ times[j] \in Int /\ j - 1 \in 0..len
             /\ taken[j] = Room(Kept(j), burst)
             /\ after[j].recent = IF taken[j] THEN Append(Kept(j), times[j]) ELSE Kept(j)
  <2>1. times[j] \in Int /\ j - 1 \in 0..len
    BY <1>3
  <2>2. taken[j] = after[j].taken
    BY <1>4
  <2>. QED BY <1>2, <1>3, <2>1, <2>2
<1>8. ASSUME NEW j \in 1..len PROVE Kept(j) \in Seq(Int)
  <2>1. PICK r \in Seq(Int) : r = after[j - 1].recent
    BY <1>6, <1>7
  <2>2. PICK now \in Int : now = times[j]
    BY <1>7
  <2>3. PICK d \in 0..Len(r) : Forgets(r, now, window, d)
    BY Forgotten
  <2>4. SubSeq(r, d + 1, Len(r)) \in Seq(Int)
    OBVIOUS
  <2>. QED BY <2>1, <2>2, <2>3, <2>4 DEF Forgets
<1>9. ASSUME Sorted, NEW j \in 1..len,
             Lists(after[j - 1].recent, times, Within(j - 1))
      PROVE  Lists(Kept(j), times, Before(j))
  <2>1. PICK r \in Seq(Int) : r = after[j - 1].recent
    BY <1>6, <1>7
  <2>2. PICK now \in Int : now = times[j]
    BY <1>7
  <2>3. PICK d \in 0..Len(r) : Forgets(r, now, window, d)
    BY Forgotten
  <2>4. PICK S \in SUBSET (1..Len(times)) : S = Within(j - 1)
    <3>1. ASSUME NEW n \in Within(j - 1) PROVE n \in 1..Len(times)
      BY <1>3
    <3>. HIDE DEF Within
    <3>. QED BY <3>1
  <2>5. \A a, b \in 1..Len(times) : a < b => times[a] <= times[b]
    BY <1>9, NeverBack
  <2>6. Lists(r, times, S)
    BY <1>9, <2>1, <2>4
  <2>7. Lists(Unexpired(r, now, window), times, {n \in S : times[n] >= now - window})
    <3>. HIDE DEF Before, Within, Kept
    <3>. QED BY <2>3, <2>5, <2>6, ListsForget
  <2>8. {n \in S : times[n] >= now - window} = Before(j)
    <3>1. ASSUME NEW n \in 1..j - 1, times[n] >= times[j] - window
          PROVE  times[n] >= times[j - 1] - window
      <4>1. j - 1 \in 1..Len(times) /\ j \in 1..Len(times) /\ n \in 1..Len(times) /\ j - 1 < j
        BY <1>3
      <4>2. times[j - 1] <= times[j]
        BY <2>5, <4>1
      <4>3. times[j - 1] \in Int /\ times[j] \in Int /\ times[n] \in Int
        BY <4>1
      <4>. QED BY <3>1, <4>2, <4>3, SMTT(60)
    <3>. QED BY <2>2, <2>4, <3>1
  <2>. QED BY <2>1, <2>2, <2>7, <2>8
<1>10. ASSUME NEW j \in 1..len, Lists(Kept(j), times, Before(j))
       PROVE  Lists(after[j].recent, times, Within(j))
  <2>1. CASE taken[j]
    <3>1. Within(j) = Before(j) \cup {j}
      <4>1. times[j] >= times[j] - window
        BY <1>7
      <4>2. \A n \in 1..j : n = j \/ n \in 1..j - 1
        OBVIOUS
      <4>3. \A n \in 1..j - 1 : n \in 1..j
        OBVIOUS
      <4>. QED BY <2>1, <4>1, <4>2, <4>3
    <3>2. after[j].recent = Append(Kept(j), times[j])
      BY <1>7, <2>1
    <3>3. PICK r \in Seq(Int) : r = Kept(j)
      BY <1>8
    <3>4. PICK S \in SUBSET (1..j - 1) : S = Before(j)
      OBVIOUS
    <3>5. Lists(r, times, S) /\ j \in 1..Len(times)
      BY <1>3, <1>10, <3>3, <3>4
    <3>. HIDE DEF Before, Within, Kept
    <3>6. Lists(Append(r, times[j]), times, S \cup {j})
      BY <3>5, ListsAppend
    <3>. QED BY <3>1, <3>2, <3>3, <3>4, <3>6
  <2>2. CASE ~taken[j]
    <3>1. Within(j) = Before(j)
      <4>1. \A n \in 1..j : n = j \/ n \in 1..j - 1
        OBVIOUS
      <4>2. \A n \in 1..j - 1 : n \in 1..j
        OBVIOUS
      <4>. QED BY <2>2, <4>1, <4>2
    <3>2. after[j].recent = Kept(j)
      BY <1>7, <2>2
    <3>. HIDE DEF Before, Within, Kept
    <3>. QED BY <1>10, <3>1, <3>2
  <2>. QED BY <2>1, <2>2
<1>11. ASSUME Sorted PROVE \A j \in 0..len : Lists(after[j].recent, times, Within(j))
  <2>. DEFINE K == {j \in 0..len : Lists(after[j].recent, times, Within(j))}
  <2>1. 0 \in K
    <3>1. Within(0) = {}
      OBVIOUS
    <3>2. Lists(<<>>, times, {})
      <4>1. \E e \in [1..0 -> {}] : TRUE
        <5>1. [k \in 1..0 |-> k] \in [1..0 -> {}]
          OBVIOUS
        <5>. QED BY <5>1
      <4>2. Len(<<>>) = 0
        OBVIOUS
      <4>. QED BY <4>1, <4>2 DEF Lists
    <3>. HIDE DEF Within
    <3>3. Lists(after[0].recent, times, Within(0))
      BY <1>2, <3>1, <3>2
    <3>. QED BY <3>3
  <2>2. ASSUME NEW m \in 0..len, m \in K, m < len PROVE m + 1 \in K
    <3>1. PICK j \in 1..len : j = m + 1 /\ j - 1 = m
      BY <2>2
    <3>. HIDE DEF Within, Before, Kept
    <3>2. Lists(after[j - 1].recent, times, Within(j - 1))
      BY <2>2, <3>1
    <3>3. Lists(after[j].recent, times, Within(j))
      <4>. HIDE DEF Sorted
      <4>. QED BY <1>9, <1>10, <1>11, <3>2
    <3>. QED BY <2>2, <3>1, <3>3
  <2>. HIDE DEF K
  <2>3. \A j \in 0..len : j \in K
    BY <2>1, <2>2, UpTo
  <2>. QED BY <2>3 DEF K
<1>12. ASSUME Sorted, NEW j \in 1..len
       PROVE  taken[j] <=> Cardinality(Before(j)) < burst
  <2>1. Lists(Kept(j), times, Before(j))
    <3>1. Lists(after[j - 1].recent, times, Within(j - 1))
      <4>. HIDE DEF Within, Sorted
      <4>. QED BY <1>7, <1>11, <1>12
    <3>. HIDE DEF Within, Before, Kept, Sorted
    <3>. QED BY <1>9, <1>12, <3>1
  <2>2. PICK r \in Seq(Int) : r = Kept(j)
    BY <1>8
  <2>3. PICK S \in SUBSET Nat : S = Before(j)
    <3>1. ASSUME NEW n \in Before(j) PROVE n \in Nat
      OBVIOUS
    <3>. HIDE DEF Before
    <3>. QED BY <3>1
  <2>. HIDE DEF Before, Kept
  <2>4. Lists(r, times, S)
    BY <2>1, <2>2, <2>3
  <2>5. Cardinality(S) = Len(r)
    BY <2>4, ListsCount
  <2>6. taken[j] = Room(r, burst)
    BY <1>7, <2>2
  <2>. QED BY <2>3, <2>5, <2>6 DEF Room
<1>13. DOMAIN times = 1..len
  BY <1>3
<1>. QED BY <1>5, <1>12, <1>13 DEF RateIsExact

\* A message is taken when the clock is a window past all that it has shown.
LEMMA TakenAfterAll ==
  ASSUME NEW times \in Seq(Int), NEW burst \in Nat \ {0}, NEW window \in Nat
  PROVE  NobodyIsShutOut(times, burst, window)
<1>1. PICK after : after = AfterEach(times, burst, window)
  OBVIOUS
<1>2. /\ after \in [0..Len(times) -> [recent : Seq(Int), taken : BOOLEAN]]
      /\ after[0].recent = <<>>
      /\ \A j \in 1..Len(times) :
           LET kept == Unexpired(after[j - 1].recent, times[j], window)
           IN /\ after[j].taken = Room(kept, burst)
              /\ after[j].recent = IF Room(kept, burst) THEN Append(kept, times[j])
                                   ELSE kept
  <2>1. IsRateHistory(after, times, burst, window)
    BY <1>1, RateStates
  <2>. QED BY <2>1, Zenon DEF IsRateHistory
<1>3. PICK len \in Nat : len = Len(times)
  OBVIOUS
<1>. DEFINE Shown(j) == \A k \in 1..Len(after[j].recent) :
                          \E n \in 1..j : after[j].recent[k] = times[n]
            K == {j \in 0..len : Shown(j)}
<1>4. 0 \in K
  <2>1. Len(<<>>) = 0
    OBVIOUS
  <2>. QED BY <1>2, <2>1
<1>5. ASSUME NEW m \in 0..len, m \in K, m < len PROVE m + 1 \in K
  <2>1. PICK j \in 1..len : j = m + 1 /\ j - 1 = m
    BY <1>5
  <2>2. PICK r \in Seq(Int) : r = after[m].recent
    BY <1>2, <1>3
  <2>3. PICK now \in Int : now = times[j]
    BY <1>3
  <2>4. PICK d \in 0..Len(r) : Forgets(r, now, window, d)
    BY Forgotten
  <2>5. PICK kept : kept = Unexpired(r, now, window)
    OBVIOUS
  <2>6. /\ kept \in Seq(Int)
        /\ \A k \in 1..Len(kept) : \E n \in 1..m : kept[k] = times[n]
    <3>1. kept = SubSeq(r, d + 1, Len(r))
      BY <2>4, <2>5 DEF Forgets
    <3>2. kept \in Seq(Int) /\ Len(kept) = Len(r) - d
      BY <3>1
    <3>3. \A k \in 1..Len(r) : \E n \in 1..m : r[k] = times[n]
      BY <1>5, <2>2
    <3>4. ASSUME NEW k \in 1..Len(kept) PROVE \E n \in 1..m : kept[k] = times[n]
      <4>1. kept[k] = r[k + d] /\ k + d \in 1..Len(r)
        BY <3>1, <3>2
      <4>. QED BY <3>3, <4>1
    <3>. QED BY <3>2, <3>4
  <2>7. after[j].recent = kept \/ after[j].recent = Append(kept, now)
    BY <1>2, <1>3, <2>1, <2>2, <2>3, <2>5
  <2>8. \A n \in 1..m : n \in 1..j
    BY <2>1
  <2>9. Shown(j)
    <3>1. CASE after[j].recent = kept
      BY <2>6, <2>8, <3>1
    <3>2. CASE after[j].recent = Append(kept, now)
      <4>1. PICK new : new = Append(kept, now)
        OBVIOUS
      <4>2. /\ Len(new) = Len(kept) + 1 /\ new[Len(kept) + 1] = now
            /\ \A k \in 1..Len(kept) : new[k] = kept[k]
        BY <2>6, <4>1
      <4>3. Len(kept) \in Nat
        BY <2>6
      <4>4. ASSUME NEW k \in 1..Len(new) PROVE \E n \in 1..j : new[k] = times[n]
        <5>1. CASE k \in 1..Len(kept)
          BY <2>6, <2>8, <4>2, <5>1
        <5>2. CASE k = Len(kept) + 1
          BY <2>1, <2>3, <4>2, <5>2
        <5>. QED BY <4>2, <4>3, <5>1, <5>2
      <4>. QED BY <3>2, <4>1, <4>4
    <3>. QED BY <2>7, <3>1, <3>2
  <2>. HIDE DEF Shown
  <2>. QED BY <2>1, <2>9
<1>6. \A j \in 0..len : Shown(j)
  <2>. HIDE DEF K
  <2>1. \A j \in 0..len : j \in K
    BY <1>4, <1>5, UpTo
  <2>. HIDE DEF Shown
  <2>. QED BY <2>1 DEF K
<1>7. ASSUME NEW j \in 1..len, \A n \in 1..j - 1 : times[n] + window < times[j]
      PROVE  after[j].taken
  <2>1. PICK m \in 0..len : m = j - 1
    OBVIOUS
  <2>2. PICK r \in Seq(Int) : r = after[m].recent
    BY <1>2, <1>3
  <2>3. PICK now \in Int : now = times[j]
    BY <1>3
  <2>4. PICK d \in 0..Len(r) : Forgets(r, now, window, d)
    BY Forgotten
  <2>5. d = Len(r)
    <3>1. SUFFICES ASSUME d < Len(r) PROVE FALSE
      OBVIOUS
    <3>2. d + 1 \in 1..Len(r)
      BY <3>1
    <3>3. PICK n \in 1..m : r[d + 1] = times[n]
      BY <1>6, <2>2, <3>2
    <3>4. times[n] + window < now /\ times[n] \in Int
      BY <1>3, <1>7, <2>1, <2>3
    <3>5. ~(r[d + 1] < now - window)
      BY <2>4, <3>1 DEF Forgets
    <3>. QED BY <3>3, <3>4, <3>5
  <2>6. Len(Unexpired(r, now, window)) = 0
    <3>1. Len(SubSeq(r, Len(r) + 1, Len(r))) = 0
      OBVIOUS
    <3>. QED BY <2>4, <2>5, <3>1 DEF Forgets
  <2>7. after[j].taken = Room(Unexpired(r, now, window), burst)
    BY <1>2, <1>3, <2>1, <2>2, <2>3
  <2>8. Room(Unexpired(r, now, window), burst)
    BY <2>6 DEF Room
  <2>. QED BY <2>7, <2>8
<1>8. DOMAIN times = 1..len
  BY <1>3
<1>. QED BY <1>1, <1>7, <1>8 DEF NobodyIsShutOut, Limiter

\* Of the messages from a browser the gateway takes those that the limit
\* allows and no others, and none that keeps trying is shut out, whatever the
\* times, the burst and the window are: the run's short lists included.
THEOREM RatesAreAlwaysExact ==
  /\ \A times \in Seq(Int), burst \in Nat, window \in Nat :
       /\ RateIsExact(times, burst, window)
       /\ burst # 0 => NobodyIsShutOut(times, burst, window)
  /\ MCSpec => []RatesAreExact
<1>1. ASSUME NEW times \in Seq(Int), NEW burst \in Nat, NEW window \in Nat
      PROVE  /\ RateIsExact(times, burst, window)
             /\ burst # 0 => NobodyIsShutOut(times, burst, window)
  BY TakenWithinBurst, TakenAfterAll
<1>2. EveryRate
  <2>1. ASSUME NEW times \in MCTimes PROVE times \in Seq(Int)
    <3>1. PICK n \in 0..5 : times \in [1..n -> 0..5]
      BY DEF MCTimes
    <3>. QED BY <3>1
  <2>2. 1..2 \subseteq Nat /\ 0 \notin 1..2 /\ 2 \in Nat
    OBVIOUS
  <2>. QED BY <1>1, <2>1, <2>2 DEF EveryRate
<1>3. RatesAreExact
  BY <1>2 DEF RatesAreExact
<1>4. MCSpec => []RatesAreExact
  BY <1>3, PTL
<1>. QED BY <1>1, <1>4

-----------------------------------------------------------------------------
(***************************************************************************)
(* Numbers and names                                                       *)
(***************************************************************************)

\* The test for overflow is exact.
LEMMA OverflowTest ==
  ASSUME NEW maximum \in Nat, maximum >= 9, NEW p \in Nat, NEW d \in Digits
  PROVE  /\ ~TooLarge(p, d, maximum) <=> 10 * p + d <= maximum
         /\ ~TooLarge(p, d, maximum) => (10 * p + d) % (maximum + 1) = 10 * p + d
<1>1. d \in 0..9
  BY DEF Digits
<1>2. PICK room \in Nat : room = maximum - d
  BY <1>1
<1>3. PICK q \in Int : q = room \div 10
  BY <1>2
<1>4. 10 * q <= room /\ room < 10 * q + 10
  BY <1>2, <1>3
<1>5. ~(p > q) <=> 10 * p <= room
  BY <1>2, <1>3, <1>4
<1>6. ~TooLarge(p, d, maximum) <=> 10 * p + d <= maximum
  BY <1>1, <1>2, <1>3, <1>5 DEF TooLarge
<1>7. PICK v \in Nat : v = 10 * p + d
  BY <1>1
<1>8. v <= maximum => v % (maximum + 1) = v
  BY <1>7
<1>. QED BY <1>6, <1>7, <1>8

\* The values of a number's first digits.
LEMMA Written ==
  ASSUME NEW text \in Seq(Nat)
  PROVE  \E w \in [0..Len(text) -> Nat] :
           /\ w = CHOOSE written :
                    written = [j \in 0..Len(text) |->
                                IF j = 0 THEN 0 ELSE 10 * written[j - 1] + text[j]]
           /\ w[0] = 0 /\ \A j \in 1..Len(text) : w[j] = 10 * w[j - 1] + text[j]
<1>1. PICK n \in Nat : n = Len(text)
  OBVIOUS
<1>. DEFINE step == [q \in (1..n) \X Nat |-> 10 * q[2] + text[q[1]]]
<1>2. step \in [(1..n) \X Nat -> Nat]
  <2>1. ASSUME NEW q \in (1..n) \X Nat PROVE 10 * q[2] + text[q[1]] \in Nat
    <3>1. q[1] \in 1..n /\ q[2] \in Nat
      OBVIOUS
    <3>2. text[q[1]] \in Nat
      BY <1>1, <3>1
    <3>. QED BY <3>1, <3>2
  <2>. QED BY <2>1
<1>3. PICK t \in [(1..n) \X Nat -> Nat] : t = step
  BY <1>2
<1>4. PICK f \in [0..n -> Nat] : Computes(f, n, 0, t)
  BY StepByStep
<1>5. ASSUME NEW j \in 1..n PROVE f[j] = 10 * f[j - 1] + text[j]
  <2>1. f[j] = t[<<j, f[j - 1]>>]
    BY <1>4 DEF Computes
  <2>2. f[j - 1] \in Nat
    OBVIOUS
  <2>3. <<j, f[j - 1]>> \in (1..n) \X Nat
    BY <2>2
  <2>. QED BY <1>3, <2>1, <2>3
<1>6. f[0] = 0
  BY <1>4 DEF Computes
<1>7. f = [j \in 0..n |-> IF j = 0 THEN 0 ELSE 10 * f[j - 1] + text[j]]
  <2>1. \A j \in 0..n : f[j] = IF j = 0 THEN 0 ELSE 10 * f[j - 1] + text[j]
    BY <1>5, <1>6
  <2>2. f = [j \in 0..n |-> f[j]]
    OBVIOUS
  <2>3. [j \in 0..n |-> f[j]]
          = [j \in 0..n |-> IF j = 0 THEN 0 ELSE 10 * f[j - 1] + text[j]]
    BY <2>1
  <2>. QED BY <2>2, <2>3, Zenon
<1>8. PICK w : w = CHOOSE written : written = [j \in 0..n |->
                       IF j = 0 THEN 0 ELSE 10 * written[j - 1] + text[j]]
  OBVIOUS
<1>9. w = [j \in 0..n |-> IF j = 0 THEN 0 ELSE 10 * w[j - 1] + text[j]]
  BY <1>7, <1>8, Zenon
<1>10. w[0] = 0 /\ \A j \in 1..n : w[j] = 10 * w[j - 1] + text[j]
  BY <1>9
<1>11. \A j \in 0..n : w[j] \in Nat
  <2>. DEFINE K == {j \in 0..n : w[j] \in Nat}
  <2>1. 0 \in K
    BY <1>10
  <2>2. ASSUME NEW m \in 0..n, m \in K, m < n PROVE m + 1 \in K
    <3>1. m + 1 \in 1..n /\ m + 1 - 1 = m /\ w[m] \in Nat
      BY <2>2
    <3>2. text[m + 1] \in Nat
      BY <1>1, <3>1
    <3>3. w[m + 1] = 10 * w[m] + text[m + 1]
      BY <1>10, <3>1
    <3>4. PICK a \in Nat : a = w[m]
      BY <3>1
    <3>5. PICK b \in Nat : b = text[m + 1]
      BY <3>2
    <3>6. 10 * a + b \in Nat
      OBVIOUS
    <3>7. w[m + 1] \in Nat
      BY <3>3, <3>4, <3>5, <3>6
    <3>8. m + 1 \in 0..n
      BY <3>1
    <3>. QED BY <3>7, <3>8
  <2>. HIDE DEF K
  <2>3. \A j \in 0..n : j \in K
    BY <2>1, <2>2, UpTo
  <2>. QED BY <2>3 DEF K
<1>12. w \in [0..n -> Nat]
  <2>1. DOMAIN w = 0..n /\ w = [j \in 0..n |-> w[j]]
    BY <1>9
  <2>. QED BY <1>11, <2>1
<1>. QED BY <1>1, <1>8, <1>10, <1>12

\* One more digit of a number, as parsePositiveSize() takes it.
OneDigit(found, digit, maximum) ==
  {(10 * parsed + digit) % (maximum + 1) :
     parsed \in {p \in found : digit \in Digits /\ ~TooLarge(p, digit, maximum)}}

\* What the function has found after each digit.
LEMMA FoundSoFar ==
  ASSUME NEW text \in Seq(Nat), NEW maximum \in Nat, text # <<>>
  PROVE  \E r \in [0..Len(text) -> SUBSET Nat] :
           /\ ParsePositiveSize(text, maximum) = r[Len(text)] \ {0}
           /\ r[0] = {0}
           /\ \A j \in 1..Len(text) : r[j] = OneDigit(r[j - 1], text[j], maximum)
<1>1. PICK n \in Nat : n = Len(text)
  OBVIOUS
<1>. DEFINE S == SUBSET Nat
            step == [q \in (1..n) \X S |-> OneDigit(q[2], text[q[1]], maximum)]
<1>2. ASSUME NEW j \in 1..n, NEW found \in S PROVE OneDigit(found, text[j], maximum) \in S
  <2>1. text[j] \in Nat
    BY <1>1
  <2>2. ASSUME NEW p \in Nat PROVE (10 * p + text[j]) % (maximum + 1) \in Nat
    <3>1. PICK v \in Nat : v = 10 * p + text[j]
      BY <2>1
    <3>2. PICK m \in Nat : m = maximum + 1 /\ m > 0
      OBVIOUS
    <3>3. v % m \in Nat
      BY <3>2
    <3>. QED BY <3>1, <3>2, <3>3
  <2>3. \A p \in found : p \in Nat
    OBVIOUS
  <2>. QED BY <2>2, <2>3 DEF OneDigit
<1>3. step \in [(1..n) \X S -> S]
  <2>. HIDE DEF S
  <2>. QED BY <1>2
<1>4. {0} \in S
  OBVIOUS
<1>5. PICK f \in [0..n -> S] : Computes(f, n, {0}, step)
  <2>. HIDE DEF S, step
  <2>1. PICK b \in S : b = {0}
    BY <1>4
  <2>2. PICK t \in [(1..n) \X S -> S] : t = step
    BY <1>3
  <2>3. PICK f \in [0..n -> S] : Computes(f, n, b, t)
    BY StepByStep
  <2>. QED BY <2>1, <2>2, <2>3
<1>6. ASSUME NEW j \in 1..n PROVE f[j] = OneDigit(f[j - 1], text[j], maximum)
  <2>. HIDE DEF S
  <2>1. f[j] = step[<<j, f[j - 1]>>]
    <3>. HIDE DEF step
    <3>. QED BY <1>5 DEF Computes
  <2>2. f[j - 1] \in S
    OBVIOUS
  <2>3. <<j, f[j - 1]>> \in (1..n) \X S
    BY <2>2
  <2>. QED BY <2>1, <2>3
<1>7. f[0] = {0}
  BY <1>5 DEF Computes
<1>8. f = [j \in 0..n |-> IF j = 0 THEN {0} ELSE OneDigit(f[j - 1], text[j], maximum)]
  <2>1. \A j \in 0..n : f[j] = IF j = 0 THEN {0} ELSE OneDigit(f[j - 1], text[j], maximum)
    BY <1>6, <1>7
  <2>2. f = [j \in 0..n |-> f[j]]
    OBVIOUS
  <2>3. [j \in 0..n |-> f[j]]
          = [j \in 0..n |-> IF j = 0 THEN {0} ELSE OneDigit(f[j - 1], text[j], maximum)]
    BY <2>1
  <2>. QED BY <2>2, <2>3, Zenon
<1>9. PICK r : r = CHOOSE rest : rest = [j \in 0..n |->
                       IF j = 0 THEN {0} ELSE OneDigit(rest[j - 1], text[j], maximum)]
  OBVIOUS
<1>10. r = [j \in 0..n |-> IF j = 0 THEN {0} ELSE OneDigit(r[j - 1], text[j], maximum)]
  BY <1>8, <1>9, Zenon
<1>11. r[0] = {0} /\ \A j \in 1..n : r[j] = OneDigit(r[j - 1], text[j], maximum)
  <2>1. PICK z : z = {0}
    OBVIOUS
  <2>2. ASSUME NEW j \in 0..n
        PROVE  r[j] = IF j = 0 THEN z ELSE OneDigit(r[j - 1], text[j], maximum)
    BY <1>10, <2>1, Zenon
  <2>3. r[0] = z
    BY <2>2
  <2>4. ASSUME NEW j \in 1..n PROVE r[j] = OneDigit(r[j - 1], text[j], maximum)
    <3>1. j \in 0..n /\ j # 0
      OBVIOUS
    <3>. QED BY <2>2, <3>1
  <2>. QED BY <2>1, <2>3, <2>4
<1>12. \A j \in 0..n : r[j] \in S
  <2>. DEFINE K == {j \in 0..n : r[j] \in S}
  <2>. HIDE DEF S
  <2>1. 0 \in K
    <3>1. r[0] \in S
      BY <1>4, <1>11
    <3>. QED BY <3>1
  <2>2. ASSUME NEW m \in 0..n, m \in K, m < n PROVE m + 1 \in K
    <3>1. m + 1 \in 1..n /\ m + 1 - 1 = m /\ r[m] \in S
      BY <2>2
    <3>2. PICK j \in 1..n : j = m + 1 /\ j - 1 = m
      BY <3>1
    <3>3. r[j] = OneDigit(r[m], text[j], maximum)
      BY <1>11, <3>2
    <3>4. OneDigit(r[m], text[j], maximum) \in S
      BY <1>2, <3>1
    <3>. QED BY <3>2, <3>3, <3>4
  <2>. HIDE DEF K
  <2>3. \A j \in 0..n : j \in K
    BY <2>1, <2>2, UpTo
  <2>. QED BY <2>3 DEF K
<1>13. r \in [0..n -> SUBSET Nat]
  <2>1. DOMAIN r = 0..n /\ r = [j \in 0..n |-> r[j]]
    BY <1>10
  <2>. QED BY <1>12, <2>1
<1>14. ParsePositiveSize(text, maximum) = r[n] \ {0}
  BY <1>1, <1>9, Zenon DEF ParsePositiveSize, OneDigit
<1>. QED BY <1>1, <1>11, <1>13, <1>14

\* parsePositiveSize() finds the number written or none, for every size_t.
LEMMA SizesAreExact ==
  ASSUME NEW text \in Seq(Nat), NEW maximum \in Nat, maximum >= 9
  PROVE  SizeIsExact(text, maximum)
<1>1. PICK n \in Nat : n = Len(text)
  OBVIOUS
<1>2. PICK w \in [0..n -> Nat] :
        /\ w = CHOOSE written :
                 written = [j \in 0..Len(text) |->
                             IF j = 0 THEN 0 ELSE 10 * written[j - 1] + text[j]]
        /\ w[0] = 0 /\ \A j \in 1..n : w[j] = 10 * w[j - 1] + text[j]
  BY <1>1, Written
<1>. DEFINE Numeric(j) == \A k \in 1..j : text[k] \in Digits
            Right == IF Numeric(n) /\ w[n] \in 1..maximum THEN {w[n]} ELSE {}
<1>3. ParsePositiveSize(text, maximum) = Right
  <2>1. CASE text = <<>>
    <3>1. n = 0 /\ w[n] = 0
      BY <1>1, <1>2, <2>1
    <3>2. Right = {}
      BY <3>1
    <3>. QED BY <2>1, <3>2 DEF ParsePositiveSize
  <2>2. CASE text # <<>>
    <3>1. PICK r \in [0..n -> SUBSET Nat] :
            /\ ParsePositiveSize(text, maximum) = r[n] \ {0}
            /\ r[0] = {0}
            /\ \A j \in 1..n : r[j] = OneDigit(r[j - 1], text[j], maximum)
      BY <1>1, <2>2, FoundSoFar
    <3>. DEFINE Exact(j) == r[j] = IF Numeric(j) /\ w[j] <= maximum THEN {w[j]} ELSE {}
                K == {j \in 0..n : Exact(j)}
    <3>2. 0 \in K
      <4>1. Numeric(0) /\ w[0] <= maximum
        BY <1>2
      <4>2. Exact(0)
        <5>. HIDE DEF Numeric
        <5>. QED BY <1>2, <3>1, <4>1
      <4>. HIDE DEF Exact
      <4>. QED BY <4>2
    <3>3. ASSUME NEW m \in 0..n, m \in K, m < n PROVE m + 1 \in K
      <4>1. PICK j \in 1..n : j = m + 1 /\ j - 1 = m
        BY <3>3
      <4>. SUFFICES Exact(j)
        <5>. HIDE DEF Exact
        <5>. QED BY <4>1
      <4>2. /\ r[j] = OneDigit(r[m], text[j], maximum)
            /\ w[j] = 10 * w[m] + text[j] /\ w[m] \in Nat /\ w[j] \in Nat
            /\ text[j] \in Nat
        <5>1. r[j] = OneDigit(r[m], text[j], maximum)
          BY <3>1, <4>1
        <5>2. w[j] = 10 * w[m] + text[j]
          BY <1>2, <4>1
        <5>3. w[m] \in Nat /\ w[j] \in Nat
          OBVIOUS
        <5>4. text[j] \in Nat
          BY <1>1
        <5>. QED BY <5>1, <5>2, <5>3, <5>4
      <4>3. Numeric(j) <=> Numeric(m) /\ text[j] \in Digits
        <5>1. \A k \in 1..j : k \in 1..m \/ k = j
          BY <4>1
        <5>2. \A k \in 1..m : k \in 1..j
          BY <4>1
        <5>3. j \in 1..j
          OBVIOUS
        <5>. QED BY <5>1, <5>2, <5>3, Zenon
      <4>4. CASE text[j] \notin Digits
        <5>1. r[j] = {}
          BY <4>2, <4>4 DEF OneDigit
        <5>. QED BY <4>1, <4>3, <4>4, <5>1
      <4>5. CASE text[j] \in Digits /\ ~(Numeric(m) /\ w[m] <= maximum)
        <5>1. r[m] = {}
          BY <3>3, <4>5
        <5>2. r[j] = {}
          BY <4>2, <5>1 DEF OneDigit
        <5>3. w[m] > maximum => ~(w[j] <= maximum)
          BY <4>2
        <5>4. ~(Numeric(j) /\ w[j] <= maximum)
          <6>. HIDE DEF Numeric
          <6>. QED BY <4>2, <4>3, <4>5, <5>3
        <5>. HIDE DEF Numeric
        <5>. QED BY <4>1, <5>2, <5>4
      <4>6. CASE text[j] \in Digits /\ Numeric(m) /\ w[m] <= maximum
        <5>1. r[m] = {w[m]}
          BY <3>3, <4>6
        <5>2. PICK p \in Nat : p = w[m]
          BY <4>2
        <5>3. PICK d \in Digits : d = text[j]
          BY <4>6
        <5>4. /\ ~TooLarge(p, d, maximum) <=> 10 * p + d <= maximum
              /\ ~TooLarge(p, d, maximum) => (10 * p + d) % (maximum + 1) = 10 * p + d
          BY OverflowTest
        <5>5. PICK v \in Nat : v = 10 * p + d /\ v = w[j]
          BY <4>2, <5>2, <5>3
        <5>6. r[j] = OneDigit({p}, d, maximum)
          BY <4>2, <5>1, <5>2, <5>3
        <5>7. CASE TooLarge(p, d, maximum)
          <6>1. r[j] = {}
            BY <5>6, <5>7 DEF OneDigit
          <6>2. ~(w[j] <= maximum)
            BY <5>4, <5>5, <5>7
          <6>. HIDE DEF Numeric
          <6>. QED BY <4>1, <6>1, <6>2
        <5>8. CASE ~TooLarge(p, d, maximum)
          <6>1. {q \in {p} : d \in Digits /\ ~TooLarge(q, d, maximum)} = {p}
            BY <5>8
          <6>2. r[j] = {(10 * p + d) % (maximum + 1)}
            BY <5>6, <6>1 DEF OneDigit
          <6>3. r[j] = {w[j]} /\ w[j] <= maximum
            BY <5>4, <5>5, <5>8, <6>2
          <6>4. Numeric(j)
            BY <4>3, <4>6
          <6>. HIDE DEF Numeric
          <6>. QED BY <4>1, <6>3, <6>4
        <5>. QED BY <5>7, <5>8
      <4>. QED BY <4>4, <4>5, <4>6
    <3>4. Exact(n)
      <4>. HIDE DEF K
      <4>1. \A j \in 0..n : j \in K
        BY <3>2, <3>3, UpTo
      <4>. HIDE DEF Exact
      <4>. QED BY <4>1 DEF K
    <3>5. w[n] \in 1..maximum <=> w[n] <= maximum /\ w[n] # 0
      <4>1. w[n] \in Nat
        OBVIOUS
      <4>. QED BY <4>1
    <3>6. CASE Numeric(n) /\ w[n] <= maximum
      <4>1. r[n] = {w[n]}
        BY <3>4, <3>6
      <4>. HIDE DEF Numeric
      <4>. QED BY <3>1, <3>5, <3>6, <4>1
    <3>7. CASE ~(Numeric(n) /\ w[n] <= maximum)
      <4>1. r[n] = {}
        BY <3>4, <3>7
      <4>. HIDE DEF Numeric
      <4>. QED BY <3>1, <3>5, <3>7, <4>1
    <3>. QED BY <3>6, <3>7
  <2>. QED BY <2>1, <2>2
<1>4. DOMAIN text = 1..n /\ w[n] = w[Len(text)]
  BY <1>1
<1>. QED BY <1>2, <1>3, <1>4 DEF SizeIsExact

\* Case folding is stable on all characters.
LEMMA FoldingIsStable == FoldIsStable
<1>1. ASSUME NEW c \in 0..127
      PROVE  Fold(c) = IF c \in 65..93 THEN c + 32 ELSE IF c = 94 THEN 126 ELSE c
  BY DEF Fold
<1>2. ASSUME NEW c \in 0..127 PROVE Fold(c) \in 0..127
  BY <1>1
<1>3. ASSUME NEW c \in 0..127 PROVE Fold(Fold(c)) = Fold(c)
  <2>1. PICK f \in 0..127 : f = Fold(c)
    BY <1>2
  <2>2. f \notin 65..93 /\ f # 94
    BY <1>1, <2>1
  <2>. QED BY <1>1, <2>1, <2>2
<1>4. ASSUME NEW c \in 0..127 PROVE InChannelName(c) <=> InChannelName(Fold(c))
  BY <1>1 DEF InChannelName
<1>5. ASSUME NEW c \in 0..127, NEW d \in 0..127,
             InNickname(c), InNickname(d), c < d, Fold(c) = Fold(d)
      PROVE  d = c + 32 /\ c \in 65..93
  <2>1. d # 126
    BY <1>5 DEF InNickname, NicknameSpecial
  <2>. QED BY <1>1, <1>5, <2>1
<1>. QED BY <1>3, <1>4, <1>5 DEF FoldIsStable

-----------------------------------------------------------------------------
(***************************************************************************)
(* Places in a text                                                        *)
(***************************************************************************)

\* What NextOf and NextWord choose.
IsNextOf(text, from, symbol, j) ==
  /\ j \in from..Len(text) + 1
  /\ j = Len(text) + 1 \/ text[j] = symbol
  /\ \A earlier \in from..j - 1 : text[earlier] # symbol
IsNextOther(text, from, symbol, j) ==
  /\ j \in from..Len(text) + 1
  /\ j = Len(text) + 1 \/ text[j] # symbol
  /\ \A earlier \in from..j - 1 : text[earlier] = symbol
IsNextWord(text, from, j) == IsNextOther(text, from, " ", j)

\* There is one such place.
LEMMA NextOfFound ==
  ASSUME NEW Symbol, NEW text \in Seq(Symbol), NEW from \in 1..Len(text) + 1, NEW symbol
  PROVE  IsNextOf(text, from, symbol, NextOf(text, from, symbol))
<1>1. PICK n \in Nat : n = Len(text)
  OBVIOUS
<1>. DEFINE ends == {j \in from..n + 1 : j = n + 1 \/ text[j] = symbol}
<1>2. n + 1 \in ends /\ ends \in SUBSET Nat
  <2>1. from \in Nat /\ from <= n + 1
    BY <1>1
  <2>2. n + 1 \in ends
    BY <2>1
  <2>3. ends \in SUBSET Nat
    BY <2>1
  <2>. QED BY <2>2, <2>3
<1>3. PICK j \in ends : \A other \in ends : j <= other
  <2>. HIDE DEF ends
  <2>. QED BY <1>2, SmallestNumber
<1>4. j \in from..n + 1 /\ (j = n + 1 \/ text[j] = symbol)
  BY <1>3
<1>5. ASSUME NEW earlier \in from..j - 1 PROVE text[earlier] # symbol
  <2>1. earlier \in from..n + 1 /\ earlier < j
    BY <1>1, <1>4
  <2>2. earlier \notin ends
    <3>. HIDE DEF ends
    <3>. QED BY <1>1, <1>3, <1>4, <2>1
  <2>. QED BY <2>1, <2>2
<1>6. \E k \in from..Len(text) + 1 :
        /\ k = Len(text) + 1 \/ text[k] = symbol
        /\ \A earlier \in from..k - 1 : text[earlier] # symbol
  BY <1>1, <1>4, <1>5
<1>. QED BY <1>6 DEF NextOf, IsNextOf

\* And no other.
LEMMA NextOfIs ==
  ASSUME NEW Symbol, NEW text \in Seq(Symbol), NEW from \in 1..Len(text) + 1, NEW symbol,
         NEW j, IsNextOf(text, from, symbol, j)
  PROVE  NextOf(text, from, symbol) = j
<1>1. PICK k : k = NextOf(text, from, symbol)
  OBVIOUS
<1>2. IsNextOf(text, from, symbol, k)
  BY <1>1, NextOfFound
<1>3. PICK n \in Nat : n = Len(text)
  OBVIOUS
<1>4. j \in from..n + 1 /\ k \in from..n + 1 /\ from \in Nat
  BY <1>2, <1>3 DEF IsNextOf
<1>5. ~(j < k)
  <2>1. j < k => j \in from..k - 1 /\ j # n + 1
    BY <1>4
  <2>. QED BY <1>2, <1>3, <2>1 DEF IsNextOf
<1>6. ~(k < j)
  <2>1. k < j => k \in from..j - 1 /\ k # n + 1
    BY <1>4
  <2>. QED BY <1>2, <1>3, <2>1 DEF IsNextOf
<1>. QED BY <1>1, <1>4, <1>5, <1>6

\* The same with the first place of another symbol.
NextOther(text, from, symbol) ==
  CHOOSE j \in from..Len(text) + 1 :
    /\ j = Len(text) + 1 \/ text[j] # symbol
    /\ \A earlier \in from..j - 1 : text[earlier] = symbol

LEMMA NextOtherFound ==
  ASSUME NEW Symbol, NEW text \in Seq(Symbol), NEW from \in 1..Len(text) + 1, NEW symbol
  PROVE  IsNextOther(text, from, symbol, NextOther(text, from, symbol))
<1>1. PICK n \in Nat : n = Len(text)
  OBVIOUS
<1>. DEFINE ends == {j \in from..n + 1 : j = n + 1 \/ text[j] # symbol}
<1>2. n + 1 \in ends /\ ends \in SUBSET Nat
  <2>1. from \in Nat /\ from <= n + 1
    BY <1>1
  <2>2. n + 1 \in ends
    BY <2>1
  <2>3. ends \in SUBSET Nat
    BY <2>1
  <2>. QED BY <2>2, <2>3
<1>3. PICK j \in ends : \A other \in ends : j <= other
  <2>. HIDE DEF ends
  <2>. QED BY <1>2, SmallestNumber
<1>4. j \in from..n + 1 /\ (j = n + 1 \/ text[j] # symbol)
  BY <1>3
<1>5. ASSUME NEW earlier \in from..j - 1 PROVE text[earlier] = symbol
  <2>1. earlier \in from..n + 1 /\ earlier < j
    BY <1>1, <1>4
  <2>2. earlier \notin ends
    <3>. HIDE DEF ends
    <3>. QED BY <1>1, <1>3, <1>4, <2>1
  <2>. QED BY <2>1, <2>2
<1>6. \E k \in from..Len(text) + 1 :
        /\ k = Len(text) + 1 \/ text[k] # symbol
        /\ \A earlier \in from..k - 1 : text[earlier] = symbol
  BY <1>1, <1>4, <1>5
<1>. QED BY <1>6 DEF NextOther, IsNextOther

LEMMA NextOtherIs ==
  ASSUME NEW Symbol, NEW text \in Seq(Symbol), NEW from \in 1..Len(text) + 1, NEW symbol,
         NEW j, IsNextOther(text, from, symbol, j)
  PROVE  NextOther(text, from, symbol) = j
<1>1. PICK k : k = NextOther(text, from, symbol)
  OBVIOUS
<1>2. IsNextOther(text, from, symbol, k)
  BY <1>1, NextOtherFound
<1>3. PICK n \in Nat : n = Len(text)
  OBVIOUS
<1>4. j \in from..n + 1 /\ k \in from..n + 1 /\ from \in Nat
  BY <1>2, <1>3 DEF IsNextOther
<1>5. ~(j < k)
  <2>1. j < k => j \in from..k - 1 /\ j # n + 1
    BY <1>4
  <2>. QED BY <1>2, <1>3, <2>1 DEF IsNextOther
<1>6. ~(k < j)
  <2>1. k < j => k \in from..j - 1 /\ k # n + 1
    BY <1>4
  <2>. QED BY <1>2, <1>3, <2>1 DEF IsNextOther
<1>. QED BY <1>1, <1>4, <1>5, <1>6

LEMMA NextWordFound ==
  ASSUME NEW Symbol, NEW text \in Seq(Symbol), NEW from \in 1..Len(text) + 1
  PROVE  IsNextWord(text, from, NextWord(text, from))
<1>1. PICK blank : blank = " "
  OBVIOUS
<1>2. NextWord(text, from) = NextOther(text, from, blank)
  BY <1>1, Zenon DEF NextWord, NextOther
<1>3. IsNextOther(text, from, blank, NextOther(text, from, blank))
  BY NextOtherFound
<1>. QED BY <1>1, <1>2, <1>3, Zenon DEF IsNextWord

LEMMA NextWordIs ==
  ASSUME NEW Symbol, NEW text \in Seq(Symbol), NEW from \in 1..Len(text) + 1,
         NEW j, IsNextWord(text, from, j)
  PROVE  NextWord(text, from) = j
<1>1. PICK blank : blank = " "
  OBVIOUS
<1>2. NextWord(text, from) = NextOther(text, from, blank)
  BY <1>1, Zenon DEF NextWord, NextOther
<1>3. IsNextOther(text, from, blank, j)
  BY <1>1, Zenon DEF IsNextWord
<1>. QED BY <1>2, <1>3, NextOtherIs

\* What is read from each place on: something that is known, or what is there
\* and what is read from a place further on.
IsRead(f, n, done, known, here, next) ==
  /\ f = [p \in 1..n + 1 |-> f[p]]
  /\ \A p \in 1..n + 1 :
       f[p] = IF p \in done THEN known[p] ELSE here[p] \o f[next[p]]

\* There is such a reading.
LEMMA ReadingExists ==
  ASSUME NEW n \in Nat, NEW T, NEW done, NEW known \in [1..n + 1 -> Seq(T)],
         NEW here \in [1..n + 1 -> Seq(T)], NEW next \in [1..n + 1 -> 1..n + 1],
         \A p \in 1..n + 1 : p \notin done => next[p] > p
  PROVE  \E f : IsRead(f, n, done, known, here, next)
<1>1. PICK S : S = Seq(T)
  OBVIOUS
<1>2. PICK step : step = [q \in (1..n + 1) \X S |-> here[q[1]] \o q[2]]
  OBVIOUS
<1>3. step \in [(1..n + 1) \X S -> S]
  <2>1. ASSUME NEW q \in (1..n + 1) \X S PROVE here[q[1]] \o q[2] \in S
    <3>1. PICK a \in Seq(T) : a = here[q[1]]
      OBVIOUS
    <3>2. PICK b \in Seq(T) : b = q[2]
      BY <1>1
    <3>3. a \o b \in Seq(T)
      OBVIOUS
    <3>. QED BY <1>1, <3>1, <3>2, <3>3
  <2>. QED BY <1>2, <2>1
<1>4. known \in [1..n + 1 -> S]
  BY <1>1
<1>5. PICK f \in [1..n + 1 -> S] : Reaches(f, n, done, known, next, step)
  BY <1>3, <1>4, FromTheEnd
<1>6. ASSUME NEW p \in 1..n + 1, p \notin done PROVE f[p] = here[p] \o f[next[p]]
  <2>1. PICK q \in 1..n + 1 : q = next[p]
    OBVIOUS
  <2>2. f[p] = step[<<p, f[q]>>]
    BY <1>5, <1>6, <2>1 DEF Reaches
  <2>3. <<p, f[q]>> \in (1..n + 1) \X S
    OBVIOUS
  <2>4. step[<<p, f[q]>>] = here[p] \o f[q]
    BY <1>2, <2>3
  <2>. QED BY <2>1, <2>2, <2>4
<1>7. ASSUME NEW p \in 1..n + 1, p \in done PROVE f[p] = known[p]
  BY <1>5, <1>7 DEF Reaches
<1>8. f = [p \in 1..n + 1 |-> f[p]]
  OBVIOUS
<1>. QED BY <1>6, <1>7, <1>8 DEF IsRead

\* And each one reads sequences.
LEMMA ReadingType ==
  ASSUME NEW n \in Nat, NEW T, NEW done, NEW known \in [1..n + 1 -> Seq(T)],
         NEW here \in [1..n + 1 -> Seq(T)], NEW next \in [1..n + 1 -> 1..n + 1],
         \A p \in 1..n + 1 : p \notin done => next[p] > p,
         NEW f, IsRead(f, n, done, known, here, next)
  PROVE  \A p \in 1..n + 1 : f[p] \in Seq(T)
<1>. DEFINE K == {p \in 1..n + 1 : f[p] \in Seq(T)}
<1>1. ASSUME NEW p \in 1..n + 1, \A q \in p + 1..n + 1 : q \in K PROVE p \in K
  <2>1. CASE p \in done
    <3>1. f[p] = known[p]
      BY <2>1 DEF IsRead
    <3>. QED BY <3>1
  <2>2. CASE p \notin done
    <3>1. PICK q \in p + 1..n + 1 : q = next[p]
      BY <2>2
    <3>2. PICK b \in Seq(T) : b = f[q]
      BY <1>1, <3>1
    <3>3. PICK a \in Seq(T) : a = here[p]
      OBVIOUS
    <3>4. a \o b \in Seq(T)
      OBVIOUS
    <3>5. f[p] = a \o b
      BY <2>2, <3>1, <3>2, <3>3 DEF IsRead
    <3>. QED BY <3>4, <3>5
  <2>. QED BY <2>1, <2>2
<1>. HIDE DEF K
<1>2. \A p \in 1..n + 1 : p \in K
  BY <1>1, Downward
<1>. QED BY <1>2 DEF K

\* Parts of a text.
LEMMA PartType ==
  ASSUME NEW Symbol, NEW text \in Seq(Symbol), NEW a \in 1..Len(text) + 1,
         NEW b \in a - 1..Len(text)
  PROVE  /\ SubSeq(text, a, b) \in Seq(Symbol)
         /\ Len(SubSeq(text, a, b)) = b + 1 - a
         /\ \A k \in 1..b + 1 - a : SubSeq(text, a, b)[k] = text[a + k - 1]
<1>1. a \in Nat /\ b \in Int /\ Len(text) \in Nat
  OBVIOUS
<1>. QED BY <1>1

\* Where the words of a text begin and end, seen from each of its places.
WordPlaces(text, startAt, next) ==
  \A p \in 1..Len(text) + 1 :
    /\ startAt[p] = NextWord(text, p) /\ IsNextWord(text, p, startAt[p])
    /\ next[p] = NextSpace(text, startAt[p]) /\ IsNextOf(text, startAt[p], " ", next[p])
    /\ startAt[p] \in 1..Len(text) + 1 /\ p <= startAt[p] /\ startAt[p] <= next[p]
    /\ startAt[p] # Len(text) + 1 => text[startAt[p]] # " " /\ p < next[p]

LEMMA WordsHavePlaces ==
  ASSUME NEW Symbol, NEW line \in Seq(Symbol)
  PROVE  \E startAt, next \in [1..Len(line) + 1 -> 1..Len(line) + 1] :
           WordPlaces(line, startAt, next)
<1>1. PICK n \in Nat : n = Len(line)
  OBVIOUS
<1>2. PICK startAt : startAt = [p \in 1..n + 1 |-> NextWord(line, p)]
  OBVIOUS
<1>3. ASSUME NEW p \in 1..n + 1
      PROVE  /\ startAt[p] = NextWord(line, p) /\ IsNextWord(line, p, startAt[p])
             /\ startAt[p] \in p..n + 1
  <2>1. IsNextWord(line, p, NextWord(line, p))
    BY <1>1, NextWordFound
  <2>2. startAt[p] = NextWord(line, p)
    BY <1>2
  <2>3. startAt[p] \in p..n + 1
    BY <1>1, <2>1, <2>2 DEF IsNextWord, IsNextOther
  <2>. QED BY <2>1, <2>2, <2>3
<1>4. PICK next : next = [p \in 1..n + 1 |-> NextSpace(line, startAt[p])]
  OBVIOUS
<1>5. ASSUME NEW p \in 1..n + 1
      PROVE  /\ next[p] = NextSpace(line, startAt[p]) /\ next[p] \in startAt[p]..n + 1
             /\ IsNextOf(line, startAt[p], " ", next[p])
  <2>1. startAt[p] \in 1..Len(line) + 1
    BY <1>1, <1>3
  <2>2. IsNextOf(line, startAt[p], " ", NextOf(line, startAt[p], " "))
    BY <2>1, NextOfFound
  <2>3. next[p] = NextOf(line, startAt[p], " ")
    BY <1>4 DEF NextSpace
  <2>4. next[p] \in startAt[p]..n + 1
    BY <1>1, <2>2, <2>3 DEF IsNextOf
  <2>. QED BY <2>2, <2>3, <2>4 DEF NextSpace
<1>9. ASSUME NEW p \in 1..n + 1
       PROVE  /\ startAt[p] \in 1..n + 1 /\ next[p] \in 1..n + 1
              /\ p <= startAt[p] /\ startAt[p] <= next[p]
  <2>1. startAt[p] \in p..n + 1
    BY <1>3
  <2>2. next[p] \in startAt[p]..n + 1
    BY <1>5
  <2>. QED BY <2>1, <2>2
<1>6. ASSUME NEW p \in 1..n + 1, startAt[p] # n + 1
      PROVE  line[startAt[p]] # " " /\ p < next[p]
  <2>1. /\ startAt[p] \in 1..n + 1 /\ next[p] \in 1..n + 1
        /\ p <= startAt[p] /\ startAt[p] <= next[p]
    BY <1>9
  <2>2. line[startAt[p]] # " "
    <3>1. IsNextWord(line, p, startAt[p])
      BY <1>3
    <3>. QED BY <1>1, <1>6, <3>1, Zenon DEF IsNextWord, IsNextOther
  <2>3. next[p] # n + 1 => line[next[p]] = " "
    <3>1. IsNextOf(line, startAt[p], " ", next[p])
      BY <1>5
    <3>. QED BY <1>1, <3>1, Zenon DEF IsNextOf
  <2>4. next[p] # startAt[p]
    BY <1>6, <2>2, <2>3
  <2>5. p < next[p]
    BY <2>1, <2>4
  <2>. QED BY <2>2, <2>5
<1>7. startAt \in [1..n + 1 -> 1..n + 1] /\ next \in [1..n + 1 -> 1..n + 1]
  <2>1. startAt = [p \in 1..n + 1 |-> startAt[p]] /\ next = [p \in 1..n + 1 |-> next[p]]
    BY <1>2, <1>4
  <2>. QED BY <1>9, <2>1
<1>8. WordPlaces(line, startAt, next)
  <2>1. ASSUME NEW p \in 1..n + 1
        PROVE  /\ startAt[p] = NextWord(line, p) /\ IsNextWord(line, p, startAt[p])
               /\ next[p] = NextSpace(line, startAt[p])
               /\ IsNextOf(line, startAt[p], " ", next[p])
               /\ startAt[p] \in 1..n + 1 /\ p <= startAt[p] /\ startAt[p] <= next[p]
               /\ startAt[p] # n + 1 => line[startAt[p]] # " " /\ p < next[p]
    BY <1>3, <1>5, <1>6, <1>9
  <2>. QED BY <1>1, <2>1, Zenon DEF WordPlaces
<1>. QED BY <1>1, <1>7, <1>8

\* The parameters from a place on.
LEMMA ParamsRead ==
  ASSUME NEW Symbol, NEW line \in Seq(Symbol), NEW from \in 1..Len(line) + 1,
         NEW start, IsNextWord(line, from, start)
  PROVE  /\ Params(line, from) \in Seq(Seq(Symbol))
         /\ start > Len(line) => Params(line, from) = <<>>
         /\ start <= Len(line) /\ line[start] = ":" =>
              Params(line, from) = <<From(line, start + 1)>>
         /\ start <= Len(line) /\ line[start] # ":" =>
              Params(line, from) =
                <<SubSeq(line, start, NextSpace(line, start) - 1)>>
                  \o Params(line, NextSpace(line, start))
<1>1. PICK n \in Nat : n = Len(line)
  OBVIOUS
<1>2. PICK startAt, next \in [1..n + 1 -> 1..n + 1] : WordPlaces(line, startAt, next)
  BY <1>1, WordsHavePlaces
<1>3. ASSUME NEW p \in 1..n + 1
      PROVE  /\ startAt[p] = NextWord(line, p) /\ next[p] = NextSpace(line, startAt[p])
             /\ startAt[p] \in 1..n + 1 /\ next[p] \in 1..n + 1
             /\ p <= startAt[p] /\ startAt[p] <= next[p]
             /\ startAt[p] # n + 1 => p < next[p]
  <2>1. next[p] \in 1..n + 1
    OBVIOUS
  <2>. QED BY <1>1, <1>2, <2>1, Zenon DEF WordPlaces
<1>. DEFINE D == {p \in 1..n + 1 : startAt[p] > n \/ line[startAt[p]] = ":"}
            B == [p \in 1..n + 1 |-> IF startAt[p] > n THEN <<>>
                                      ELSE <<From(line, startAt[p] + 1)>>]
            H == [p \in 1..n + 1 |-> <<SubSeq(line, startAt[p], next[p] - 1)>>]
<1>6. PICK T : T = Seq(Symbol)
  OBVIOUS
<1>7. PICK done : done = D
  OBVIOUS
<1>8. PICK known : known = B
  OBVIOUS
<1>9. PICK here : here = H
  OBVIOUS
<1>10. known \in [1..n + 1 -> Seq(T)]
  <2>1. ASSUME NEW p \in 1..n + 1, ~(startAt[p] > n) PROVE From(line, startAt[p] + 1) \in T
    <3>1. startAt[p] + 1 \in 1..Len(line) + 1 /\ Len(line) \in startAt[p] + 1 - 1..Len(line)
      <4>1. startAt[p] \in 1..n + 1
        BY <1>3
      <4>. QED BY <1>1, <2>1, <4>1
    <3>. QED BY <1>6, <3>1, PartType DEF From
  <2>2. <<>> \in Seq(T)
    OBVIOUS
  <2>3. ASSUME NEW p \in 1..n + 1 PROVE B[p] \in Seq(T)
    <3>1. CASE startAt[p] > n
      BY <2>2, <3>1
    <3>2. CASE ~(startAt[p] > n)
      <4>1. PICK x \in T : x = From(line, startAt[p] + 1)
        BY <2>1, <3>2
      <4>2. <<x>> \in Seq(T)
        OBVIOUS
      <4>3. B[p] = <<x>>
        BY <3>2, <4>1
      <4>. HIDE DEF B
      <4>. QED BY <4>2, <4>3
    <3>. QED BY <3>1, <3>2
  <2>4. B = [p \in 1..n + 1 |-> B[p]]
    OBVIOUS
  <2>. HIDE DEF B
  <2>. QED BY <1>8, <2>3, <2>4
<1>12. here \in [1..n + 1 -> Seq(T)]
  <2>1. ASSUME NEW p \in 1..n + 1 PROVE SubSeq(line, startAt[p], next[p] - 1) \in T
    <3>1. startAt[p] \in 1..Len(line) + 1 /\ next[p] - 1 \in startAt[p] - 1..Len(line)
      <4>1. /\ startAt[p] \in 1..n + 1 /\ next[p] \in 1..n + 1
            /\ startAt[p] <= next[p]
        BY <1>3
      <4>. QED BY <1>1, <4>1
    <3>. QED BY <1>6, <3>1, PartType
  <2>2. ASSUME NEW p \in 1..n + 1 PROVE H[p] \in Seq(T)
    <3>1. PICK x \in T : x = SubSeq(line, startAt[p], next[p] - 1)
      BY <2>1
    <3>2. <<x>> \in Seq(T)
      OBVIOUS
    <3>3. H[p] = <<x>>
      BY <3>1
    <3>. HIDE DEF H
    <3>. QED BY <3>2, <3>3
  <2>3. H = [p \in 1..n + 1 |-> H[p]]
    OBVIOUS
  <2>. HIDE DEF H
  <2>. QED BY <1>9, <2>2, <2>3
<1>13. ASSUME NEW p \in 1..n + 1, p \notin done PROVE next[p] > p
  <2>1. ~(startAt[p] > n)
    BY <1>7, <1>13
  <2>. QED BY <1>3, <2>1
<1>14. PICK f : IsRead(f, n, done, known, here, next)
  BY <1>10, <1>12, <1>13, ReadingExists
<1>. DEFINE Body(g, place) ==
       LET first == NextWord(line, place)
           last == NextSpace(line, first)
       IN IF first > Len(line) THEN <<>>
          ELSE IF line[first] = ":" THEN <<From(line, first + 1)>>
          ELSE <<SubSeq(line, first, last - 1)>> \o g[last]
<1>15. ASSUME NEW g, NEW p \in 1..n + 1
       PROVE  Body(g, p) = IF p \in done THEN known[p] ELSE here[p] \o g[next[p]]
  <2>1. CASE startAt[p] > n
    <3>1. Body(g, p) = <<>>
      BY <1>1, <1>3, <2>1
    <3>2. p \in done /\ known[p] = <<>>
      BY <1>7, <1>8, <2>1
    <3>. HIDE DEF Body
    <3>. QED BY <3>1, <3>2
  <2>2. CASE ~(startAt[p] > n) /\ line[startAt[p]] = ":"
    <3>1. Body(g, p) = <<From(line, startAt[p] + 1)>>
      BY <1>1, <1>3, <2>2
    <3>2. p \in done /\ known[p] = <<From(line, startAt[p] + 1)>>
      BY <1>7, <1>8, <2>2
    <3>. HIDE DEF Body
    <3>. QED BY <3>1, <3>2
  <2>3. CASE ~(startAt[p] > n) /\ line[startAt[p]] # ":"
    <3>1. Body(g, p) = <<SubSeq(line, startAt[p], next[p] - 1)>> \o g[next[p]]
      BY <1>1, <1>3, <2>3
    <3>2. p \notin done /\ here[p] = <<SubSeq(line, startAt[p], next[p] - 1)>>
      BY <1>7, <1>9, <2>3
    <3>. HIDE DEF Body
    <3>. QED BY <3>1, <3>2
  <2>. QED BY <2>1, <2>2, <2>3
<1>16. f = [place \in 1..n + 1 |-> Body(f, place)]
  <2>. HIDE DEF Body
  <2>1. \A p \in 1..n + 1 : f[p] = Body(f, p)
    BY <1>14, <1>15 DEF IsRead
  <2>2. f = [p \in 1..n + 1 |-> f[p]]
    BY <1>14 DEF IsRead
  <2>3. [p \in 1..n + 1 |-> f[p]] = [place \in 1..n + 1 |-> Body(f, place)]
    BY <2>1
  <2>. QED BY <2>2, <2>3, Zenon
<1>17. PICK w : w = CHOOSE params : params = [place \in 1..n + 1 |-> Body(params, place)]
  OBVIOUS
<1>18. w = [place \in 1..n + 1 |-> Body(w, place)]
  <2>. HIDE DEF Body
  <2>. QED BY <1>16, <1>17, Zenon
<1>19. IsRead(w, n, done, known, here, next)
  <2>. HIDE DEF Body
  <2>1. ASSUME NEW p \in 1..n + 1 PROVE w[p] = Body(w, p)
    BY <1>18, Zenon
  <2>2. w = [p \in 1..n + 1 |-> w[p]]
    <3>1. [p \in 1..n + 1 |-> w[p]] = [place \in 1..n + 1 |-> Body(w, place)]
      BY <2>1
    <3>. QED BY <1>18, <3>1, Zenon
  <2>. QED BY <1>15, <2>1, <2>2 DEF IsRead
<1>20. ASSUME NEW p PROVE Params(line, p) = w[p]
  BY <1>1, <1>17, Zenon DEF Params
<1>21. \A p \in 1..n + 1 : w[p] \in Seq(T)
  BY <1>10, <1>12, <1>13, <1>19, ReadingType
<1>22. from \in 1..n + 1 /\ start = startAt[from]
  <2>1. from \in 1..n + 1
    BY <1>1
  <2>2. NextWord(line, from) = start
    BY NextWordIs
  <2>. QED BY <1>3, <2>1, <2>2
<1>23. Params(line, from) = Body(w, from)
  <2>. HIDE DEF Body
  <2>. QED BY <1>18, <1>20, <1>22, Zenon
<1>24. Params(line, from) = IF start > Len(line) THEN <<>>
                            ELSE IF line[start] = ":" THEN <<From(line, start + 1)>>
                            ELSE <<SubSeq(line, start, NextSpace(line, start) - 1)>>
                                   \o Params(line, NextSpace(line, start))
  BY <1>3, <1>20, <1>22, <1>23
<1>26. start \in Nat
  BY <1>22, <1>3
<1>27. Params(line, from) \in Seq(Seq(Symbol))
  BY <1>6, <1>20, <1>21, <1>22
<1>28. ~(start <= Len(line)) <=> start > Len(line)
  BY <1>1, <1>26
<1>29. /\ start > Len(line) => Params(line, from) = <<>>
       /\ start <= Len(line) /\ line[start] = ":" =>
            Params(line, from) = <<From(line, start + 1)>>
       /\ start <= Len(line) /\ line[start] # ":" =>
            Params(line, from) =
              <<SubSeq(line, start, NextSpace(line, start) - 1)>>
                \o Params(line, NextSpace(line, start))
  BY <1>24, <1>28, Zenon
<1>. QED BY <1>27, <1>29

\* The words of a text, read on from each place.
LEMMA WordsRead ==
  ASSUME NEW Symbol, NEW line \in Seq(Symbol)
  PROVE  \E w :
           /\ Words(line) = w[1]
           /\ \A p \in 1..Len(line) + 1 : w[p] \in Seq(Seq(Symbol))
           /\ \A from \in 1..Len(line) + 1 : \A start :
                IsNextWord(line, from, start) =>
                  w[from] = IF start > Len(line) THEN <<>>
                            ELSE <<SubSeq(line, start, NextSpace(line, start) - 1)>>
                                   \o w[NextSpace(line, start)]
<1>1. PICK n \in Nat : n = Len(line)
  OBVIOUS
<1>2. PICK startAt, next \in [1..n + 1 -> 1..n + 1] : WordPlaces(line, startAt, next)
  BY <1>1, WordsHavePlaces
<1>3. ASSUME NEW p \in 1..n + 1
      PROVE  /\ startAt[p] = NextWord(line, p) /\ next[p] = NextSpace(line, startAt[p])
             /\ startAt[p] \in 1..n + 1 /\ next[p] \in 1..n + 1
             /\ p <= startAt[p] /\ startAt[p] <= next[p]
             /\ startAt[p] # n + 1 => p < next[p]
  <2>1. next[p] \in 1..n + 1
    OBVIOUS
  <2>. QED BY <1>1, <1>2, <2>1, Zenon DEF WordPlaces
<1>. DEFINE D == {p \in 1..n + 1 : startAt[p] > n}
            B == [p \in 1..n + 1 |-> <<>>]
            H == [p \in 1..n + 1 |-> <<SubSeq(line, startAt[p], next[p] - 1)>>]
<1>6. PICK T : T = Seq(Symbol)
  OBVIOUS
<1>7. PICK done : done = D
  OBVIOUS
<1>8. PICK known : known = B
  OBVIOUS
<1>9. PICK here : here = H
  OBVIOUS
<1>10. known \in [1..n + 1 -> Seq(T)]
  <2>1. <<>> \in Seq(T)
    OBVIOUS
  <2>. QED BY <1>8, <2>1
<1>12. here \in [1..n + 1 -> Seq(T)]
  <2>1. ASSUME NEW p \in 1..n + 1 PROVE SubSeq(line, startAt[p], next[p] - 1) \in T
    <3>1. startAt[p] \in 1..Len(line) + 1 /\ next[p] - 1 \in startAt[p] - 1..Len(line)
      <4>1. /\ startAt[p] \in 1..n + 1 /\ next[p] \in 1..n + 1
            /\ startAt[p] <= next[p]
        BY <1>3
      <4>. QED BY <1>1, <4>1
    <3>. QED BY <1>6, <3>1, PartType
  <2>2. ASSUME NEW p \in 1..n + 1 PROVE H[p] \in Seq(T)
    <3>1. PICK x \in T : x = SubSeq(line, startAt[p], next[p] - 1)
      BY <2>1
    <3>2. <<x>> \in Seq(T)
      OBVIOUS
    <3>3. H[p] = <<x>>
      BY <3>1
    <3>. HIDE DEF H
    <3>. QED BY <3>2, <3>3
  <2>3. H = [p \in 1..n + 1 |-> H[p]]
    OBVIOUS
  <2>. HIDE DEF H
  <2>. QED BY <1>9, <2>2, <2>3
<1>13. ASSUME NEW p \in 1..n + 1, p \notin done PROVE next[p] > p
  <2>1. ~(startAt[p] > n)
    BY <1>7, <1>13
  <2>. QED BY <1>3, <2>1
<1>14. PICK f : IsRead(f, n, done, known, here, next)
  BY <1>10, <1>12, <1>13, ReadingExists
<1>. DEFINE Body(g, place) ==
       LET first == NextWord(line, place)
           last == NextSpace(line, first)
       IN IF first > Len(line) THEN <<>>
          ELSE <<SubSeq(line, first, last - 1)>> \o g[last]
<1>15. ASSUME NEW g, NEW p \in 1..n + 1
       PROVE  Body(g, p) = IF p \in done THEN known[p] ELSE here[p] \o g[next[p]]
  <2>1. CASE startAt[p] > n
    <3>1. Body(g, p) = <<>>
      BY <1>1, <1>3, <2>1
    <3>2. p \in done /\ known[p] = <<>>
      BY <1>7, <1>8, <2>1
    <3>. HIDE DEF Body
    <3>. QED BY <3>1, <3>2
  <2>2. CASE ~(startAt[p] > n)
    <3>1. Body(g, p) = <<SubSeq(line, startAt[p], next[p] - 1)>> \o g[next[p]]
      BY <1>1, <1>3, <2>2
    <3>2. p \notin done /\ here[p] = <<SubSeq(line, startAt[p], next[p] - 1)>>
      BY <1>7, <1>9, <2>2
    <3>. HIDE DEF Body
    <3>. QED BY <3>1, <3>2
  <2>. QED BY <2>1, <2>2
<1>16. f = [place \in 1..n + 1 |-> Body(f, place)]
  <2>. HIDE DEF Body
  <2>1. \A p \in 1..n + 1 : f[p] = Body(f, p)
    BY <1>14, <1>15 DEF IsRead
  <2>2. f = [p \in 1..n + 1 |-> f[p]]
    BY <1>14 DEF IsRead
  <2>3. [p \in 1..n + 1 |-> f[p]] = [place \in 1..n + 1 |-> Body(f, place)]
    BY <2>1
  <2>. QED BY <2>2, <2>3, Zenon
<1>17. PICK w : w = CHOOSE words : words = [place \in 1..n + 1 |-> Body(words, place)]
  OBVIOUS
<1>18. w = [place \in 1..n + 1 |-> Body(w, place)]
  <2>. HIDE DEF Body
  <2>. QED BY <1>16, <1>17, Zenon
<1>19. IsRead(w, n, done, known, here, next)
  <2>. HIDE DEF Body
  <2>1. ASSUME NEW p \in 1..n + 1 PROVE w[p] = Body(w, p)
    BY <1>18, Zenon
  <2>2. w = [p \in 1..n + 1 |-> w[p]]
    <3>1. [p \in 1..n + 1 |-> w[p]] = [place \in 1..n + 1 |-> Body(w, place)]
      BY <2>1
    <3>. QED BY <1>18, <3>1, Zenon
  <2>. QED BY <1>15, <2>1, <2>2 DEF IsRead
<1>20. Words(line) = w[1]
  BY <1>1, <1>17, Zenon DEF Words
<1>21. \A p \in 1..n + 1 : w[p] \in Seq(T)
  BY <1>10, <1>12, <1>13, <1>19, ReadingType
<1>22. ASSUME NEW from \in 1..n + 1, NEW start, IsNextWord(line, from, start)
       PROVE  w[from] = IF start > Len(line) THEN <<>>
                        ELSE <<SubSeq(line, start, NextSpace(line, start) - 1)>>
                               \o w[NextSpace(line, start)]
  <2>1. NextWord(line, from) = start
    BY <1>1, <1>22, NextWordIs
  <2>2. w[from] = Body(w, from)
    <3>. HIDE DEF Body
    <3>. QED BY <1>18, Zenon
  <2>. QED BY <2>1, <2>2
<1>. QED BY <1>1, <1>20, <1>21, <1>22, <1>6

\* The first piece of a comma list, and the rest.
LEMMA CommaListRead ==
  ASSUME NEW Symbol, NEW line \in Seq(Symbol), line # <<>>
  PROVE  LET at == NextOf(line, 1, ",") IN
         IF at > Len(line) THEN SplitCommaList(line) = <<SubSeq(line, 1, at - 1)>>
         ELSE \E rest \in Seq(Seq(Symbol)) :
                SplitCommaList(line) = <<SubSeq(line, 1, at - 1)>> \o rest
<1>1. PICK n \in Nat : n = Len(line)
  OBVIOUS
<1>2. PICK comma : comma = ","
  OBVIOUS
<1>3. PICK pos : pos = [p \in 1..n + 1 |-> NextOf(line, p, comma)]
  OBVIOUS
<1>4. ASSUME NEW p \in 1..n + 1
      PROVE  /\ pos[p] = NextOf(line, p, comma) /\ pos[p] \in 1..n + 1 /\ p <= pos[p]
  <2>1. IsNextOf(line, p, comma, NextOf(line, p, comma))
    BY <1>1, NextOfFound
  <2>2. pos[p] = NextOf(line, p, comma)
    BY <1>3
  <2>3. pos[p] \in p..n + 1
    BY <1>1, <2>1, <2>2 DEF IsNextOf
  <2>. QED BY <2>2, <2>3
<1>5. PICK next : next = [p \in 1..n + 1 |-> IF pos[p] > n THEN 1 ELSE pos[p] + 1]
  OBVIOUS
<1>11. next \in [1..n + 1 -> 1..n + 1]
  BY <1>4, <1>5
<1>. DEFINE D == {p \in 1..n + 1 : pos[p] > n}
            B == [p \in 1..n + 1 |-> <<SubSeq(line, p, pos[p] - 1)>>]
<1>6. PICK T : T = Seq(Symbol)
  OBVIOUS
<1>7. PICK done : done = D
  OBVIOUS
<1>8. PICK here : here = B
  OBVIOUS
<1>12. here \in [1..n + 1 -> Seq(T)]
  <2>1. ASSUME NEW p \in 1..n + 1 PROVE SubSeq(line, p, pos[p] - 1) \in T
    <3>1. p \in 1..Len(line) + 1 /\ pos[p] - 1 \in p - 1..Len(line)
      <4>1. pos[p] \in 1..n + 1 /\ p <= pos[p]
        BY <1>4
      <4>. QED BY <1>1, <4>1
    <3>. QED BY <1>6, <3>1, PartType
  <2>2. ASSUME NEW p \in 1..n + 1 PROVE B[p] \in Seq(T)
    <3>1. PICK x \in T : x = SubSeq(line, p, pos[p] - 1)
      BY <2>1
    <3>2. <<x>> \in Seq(T)
      OBVIOUS
    <3>3. B[p] = <<x>>
      BY <3>1
    <3>. HIDE DEF B
    <3>. QED BY <3>2, <3>3
  <2>3. B = [p \in 1..n + 1 |-> B[p]]
    OBVIOUS
  <2>. HIDE DEF B
  <2>. QED BY <1>8, <2>2, <2>3
<1>13. ASSUME NEW p \in 1..n + 1, p \notin done PROVE next[p] > p
  <2>1. ~(pos[p] > n)
    BY <1>7, <1>13
  <2>2. next[p] = pos[p] + 1
    BY <1>5, <2>1
  <2>. QED BY <1>4, <2>2
<1>14. PICK f : IsRead(f, n, done, here, here, next)
  BY <1>11, <1>12, <1>13, ReadingExists
<1>. DEFINE Body(g, place) ==
       LET at == NextOf(line, place, comma)
       IN <<SubSeq(line, place, at - 1)>> \o
            IF at > Len(line) THEN <<>> ELSE g[at + 1]
<1>15. ASSUME NEW g, NEW p \in 1..n + 1
       PROVE  Body(g, p) = IF p \in done THEN here[p] ELSE here[p] \o g[next[p]]
  <2>1. CASE pos[p] > n
    <3>1. Body(g, p) = <<SubSeq(line, p, pos[p] - 1)>> \o <<>>
      BY <1>1, <1>4, <2>1
    <3>2. \A x : <<x>> \o <<>> = <<x>>
      OBVIOUS
    <3>3. p \in done /\ here[p] = <<SubSeq(line, p, pos[p] - 1)>>
      BY <1>7, <1>8, <2>1
    <3>. HIDE DEF Body
    <3>. QED BY <3>1, <3>2, <3>3
  <2>2. CASE ~(pos[p] > n)
    <3>1. Body(g, p) = <<SubSeq(line, p, pos[p] - 1)>> \o g[next[p]]
      BY <1>1, <1>4, <1>5, <2>2
    <3>2. p \notin done /\ here[p] = <<SubSeq(line, p, pos[p] - 1)>>
      BY <1>7, <1>8, <2>2
    <3>. HIDE DEF Body
    <3>. QED BY <3>1, <3>2
  <2>. QED BY <2>1, <2>2
<1>16. f = [place \in 1..n + 1 |-> Body(f, place)]
  <2>. HIDE DEF Body
  <2>1. \A p \in 1..n + 1 : f[p] = Body(f, p)
    BY <1>14, <1>15 DEF IsRead
  <2>2. f = [p \in 1..n + 1 |-> f[p]]
    BY <1>14 DEF IsRead
  <2>3. [p \in 1..n + 1 |-> f[p]] = [place \in 1..n + 1 |-> Body(f, place)]
    BY <2>1
  <2>. QED BY <2>2, <2>3, Zenon
<1>17. PICK w : w = CHOOSE pieces : pieces = [place \in 1..n + 1 |-> Body(pieces, place)]
  OBVIOUS
<1>18. w = [place \in 1..n + 1 |-> Body(w, place)]
  <2>. HIDE DEF Body
  <2>. QED BY <1>16, <1>17, Zenon
<1>19. IsRead(w, n, done, here, here, next)
  <2>. HIDE DEF Body
  <2>1. ASSUME NEW p \in 1..n + 1 PROVE w[p] = Body(w, p)
    BY <1>18, Zenon
  <2>2. w = [p \in 1..n + 1 |-> w[p]]
    <3>1. [p \in 1..n + 1 |-> w[p]] = [place \in 1..n + 1 |-> Body(w, place)]
      BY <2>1
    <3>. QED BY <1>18, <3>1, Zenon
  <2>. QED BY <1>15, <2>1, <2>2 DEF IsRead
<1>20. SplitCommaList(line) = w[1]
  BY <1>1, <1>2, <1>17, Zenon DEF SplitCommaList
<1>21. \A p \in 1..n + 1 : w[p] \in Seq(T)
  BY <1>11, <1>12, <1>13, <1>19, ReadingType
<1>22. 1 \in 1..n + 1
  OBVIOUS
<1>23. w[1] = Body(w, 1)
  <2>. HIDE DEF Body
  <2>. QED BY <1>18, <1>22, Zenon
<1>24. PICK at : at = NextOf(line, 1, comma)
  OBVIOUS
<1>25. at \in 1..n + 1
  BY <1>4, <1>22, <1>24
<1>26. IF at > n THEN w[1] = <<SubSeq(line, 1, at - 1)>>
       ELSE w[1] = <<SubSeq(line, 1, at - 1)>> \o w[at + 1]
  <2>1. \A x : <<x>> \o <<>> = <<x>>
    OBVIOUS
  <2>. QED BY <1>1, <1>23, <1>24, <2>1
<1>27. CASE at > n
  BY <1>1, <1>2, <1>20, <1>24, <1>26, <1>27
<1>28. CASE ~(at > n)
  <2>1. PICK rest \in Seq(T) : rest = w[at + 1]
    BY <1>21, <1>25, <1>28
  <2>2. w[1] = <<SubSeq(line, 1, at - 1)>> \o rest
    BY <1>26, <1>28, <2>1
  <2>. QED BY <1>1, <1>2, <1>6, <1>20, <1>24, <1>28, <2>2
<1>. QED BY <1>27, <1>28

-----------------------------------------------------------------------------
(***************************************************************************)
(* What sanitizing leaves of a text                                        *)
(***************************************************************************)

\* Sequences: one more element, concatenation, equality.
LEMMA Appended ==
  ASSUME NEW T, NEW t \in Seq(T), NEW x \in T, NEW u, u = Append(t, x)
  PROVE  /\ u \in Seq(T) /\ Len(u) = Len(t) + 1 /\ u[Len(t) + 1] = x
         /\ \A k \in 1..Len(t) : u[k] = t[k]
OBVIOUS

LEMMA Joined ==
  ASSUME NEW T, NEW t \in Seq(T), NEW u \in Seq(T), NEW v, v = t \o u
  PROVE  /\ v \in Seq(T) /\ Len(v) = Len(t) + Len(u)
         /\ \A k \in 1..Len(t) : v[k] = t[k]
         /\ \A k \in 1..Len(u) : v[Len(t) + k] = u[k]
OBVIOUS

LEMMA SameText ==
  ASSUME NEW T, NEW t \in Seq(T), NEW u \in Seq(T), Len(t) = Len(u),
         \A k \in 1..Len(t) : t[k] = u[k]
  PROVE  t = u
OBVIOUS

IsJoined(v, t, u) == v = t \o u
IsAppended(v, t, x) == v = Append(t, x)

LEMMA JoinedAndAppended ==
  ASSUME NEW T, NEW t \in Seq(T), NEW u \in Seq(T), NEW x \in T,
         NEW tu, IsJoined(tu, t, u), NEW ux, IsAppended(ux, u, x),
         NEW lhs, IsAppended(lhs, tu, x), NEW rhs, IsJoined(rhs, t, ux)
  PROVE  lhs = rhs
<1>5. PICK m \in Nat : m = Len(t)
  OBVIOUS
<1>6. PICK n \in Nat : n = Len(u)
  OBVIOUS
<1>7. /\ tu \in Seq(T) /\ Len(tu) = m + n
      /\ \A k \in 1..m : tu[k] = t[k]
      /\ \A k \in 1..n : tu[m + k] = u[k]
  BY <1>5, <1>6, Joined DEF IsJoined
<1>8. /\ ux \in Seq(T) /\ Len(ux) = n + 1 /\ ux[n + 1] = x
      /\ \A k \in 1..n : ux[k] = u[k]
  BY <1>6, Appended DEF IsAppended
<1>9. /\ lhs \in Seq(T) /\ Len(lhs) = m + n + 1 /\ lhs[m + n + 1] = x
      /\ \A k \in 1..m + n : lhs[k] = tu[k]
  BY <1>7, Appended DEF IsAppended
<1>10. /\ rhs \in Seq(T) /\ Len(rhs) = m + (n + 1)
       /\ \A k \in 1..m : rhs[k] = t[k]
       /\ \A k \in 1..n + 1 : rhs[m + k] = ux[k]
  <2>1. ux \in Seq(T)
    BY <1>8
  <2>2. /\ rhs \in Seq(T) /\ Len(rhs) = Len(t) + Len(ux)
        /\ \A k \in 1..Len(t) : rhs[k] = t[k]
        /\ \A k \in 1..Len(ux) : rhs[Len(t) + k] = ux[k]
    BY <2>1, Joined DEF IsJoined
  <2>. QED BY <1>5, <1>8, <2>2
<1>11. ASSUME NEW k \in 1..m + n + 1 PROVE lhs[k] = rhs[k]
  <2>1. CASE k \in 1..m
    <3>1. k \in 1..m + n
      BY <2>1
    <3>. QED BY <1>7, <1>9, <1>10, <2>1, <3>1
  <2>2. CASE k = m + n + 1
    <3>1. n + 1 \in 1..n + 1 /\ m + (n + 1) = m + n + 1
      OBVIOUS
    <3>2. rhs[m + (n + 1)] = ux[n + 1]
      BY <1>10, <3>1
    <3>. QED BY <1>8, <1>9, <2>2, <3>1, <3>2
  <2>3. CASE k \in m + 1..m + n
    <3>1. PICK j \in 1..n : k = m + j
      <4>1. k - m \in 1..n /\ k = m + (k - m)
        BY <2>3
      <4>. QED BY <4>1
    <3>2. k \in 1..m + n /\ j \in 1..n + 1
      BY <2>3
    <3>3. lhs[k] = tu[k] /\ tu[m + j] = u[j] /\ rhs[m + j] = ux[j] /\ ux[j] = u[j]
      BY <1>7, <1>8, <1>9, <1>10, <3>2
    <3>. QED BY <3>1, <3>3
  <2>4. k \in 1..m \/ k = m + n + 1 \/ k \in m + 1..m + n
    OBVIOUS
  <2>. QED BY <2>1, <2>2, <2>3, <2>4
<1>12. Len(lhs) = Len(rhs)
  BY <1>9, <1>10
<1>13. \A k \in 1..Len(lhs) : lhs[k] = rhs[k]
  BY <1>9, <1>11
<1>. QED BY <1>9, <1>10, <1>12, <1>13, SameText

\* What is left of the first j symbols.
IsSanitized(text, symbols, r) ==
  /\ Without(text, symbols) = r[Len(text)] /\ r[0] = <<>>
  /\ \A j \in 1..Len(text) :
       r[j] = IF text[j] \in symbols THEN r[j - 1] ELSE Append(r[j - 1], text[j])

LEMMA SanitizedRead ==
  ASSUME NEW Symbol, NEW text \in Seq(Symbol), NEW symbols
  PROVE  \E r \in [0..Len(text) -> Seq(Symbol)] : IsSanitized(text, symbols, r)
<1>1. PICK n \in Nat : n = Len(text)
  OBVIOUS
<1>2. PICK S : S = Seq(Symbol)
  OBVIOUS
<1>3. PICK empty \in S : empty = <<>>
  <2>1. <<>> \in Seq(Symbol)
    OBVIOUS
  <2>. QED BY <1>2, <2>1
<1>. DEFINE new(s, j) == IF text[j] \in symbols THEN s ELSE Append(s, text[j])
<1>4. ASSUME NEW s \in S, NEW j \in 1..n PROVE new(s, j) \in S
  <2>1. text[j] \in Symbol
    BY <1>1
  <2>2. Append(s, text[j]) \in S
    BY <1>2, <2>1
  <2>. QED BY <2>2
<1>5. PICK step : step = [q \in (1..n) \X S |-> new(q[2], q[1])]
  OBVIOUS
<1>6. step \in [(1..n) \X S -> S]
  <2>. HIDE DEF new
  <2>. QED BY <1>4, <1>5
<1>7. PICK f \in [0..n -> S] : Computes(f, n, empty, step)
  BY <1>6, StepByStep
<1>8. ASSUME NEW j \in 1..n PROVE f[j] = new(f[j - 1], j)
  <2>. HIDE DEF new
  <2>1. f[j] = step[<<j, f[j - 1]>>]
    BY <1>7 DEF Computes
  <2>2. <<j, f[j - 1]>> \in (1..n) \X S
    OBVIOUS
  <2>. QED BY <1>5, <2>1, <2>2
<1>9. f[0] = empty
  BY <1>7 DEF Computes
<1>10. f = [j \in 0..n |-> IF j = 0 THEN empty ELSE new(f[j - 1], j)]
  <2>. HIDE DEF new
  <2>1. \A j \in 0..n : f[j] = IF j = 0 THEN empty ELSE new(f[j - 1], j)
    BY <1>8, <1>9
  <2>2. f = [j \in 0..n |-> f[j]]
    OBVIOUS
  <2>3. [j \in 0..n |-> f[j]]
          = [j \in 0..n |-> IF j = 0 THEN empty ELSE new(f[j - 1], j)]
    BY <2>1
  <2>. QED BY <2>2, <2>3, Zenon
<1>11. PICK r : r = CHOOSE result : result = [j \in 0..n |->
                        IF j = 0 THEN empty ELSE new(result[j - 1], j)]
  OBVIOUS
<1>12. r = [j \in 0..n |-> IF j = 0 THEN empty ELSE new(r[j - 1], j)]
  <2>. HIDE DEF new
  <2>. QED BY <1>10, <1>11, Zenon
<1>13. ASSUME NEW j \in 0..n PROVE r[j] = IF j = 0 THEN empty ELSE new(r[j - 1], j)
  <2>. HIDE DEF new
  <2>. QED BY <1>12, Zenon
<1>14. r[0] = empty
  BY <1>13
<1>15. ASSUME NEW j \in 1..n PROVE r[j] = new(r[j - 1], j)
  <2>. HIDE DEF new
  <2>1. j \in 0..n /\ j # 0
    OBVIOUS
  <2>. QED BY <1>13, <2>1
<1>16. \A j \in 0..n : r[j] \in S
  <2>. HIDE DEF new
  <2>. DEFINE K == {j \in 0..n : r[j] \in S}
  <2>1. 0 \in K
    BY <1>14
  <2>2. ASSUME NEW m \in 0..n, m \in K, m < n PROVE m + 1 \in K
    <3>1. PICK j \in 1..n : j = m + 1 /\ j - 1 = m
      BY <2>2
    <3>2. r[j] = new(r[m], j)
      BY <1>15, <3>1
    <3>3. new(r[m], j) \in S
      BY <1>4, <2>2
    <3>. QED BY <3>1, <3>2, <3>3
  <2>. HIDE DEF K
  <2>3. \A j \in 0..n : j \in K
    BY <2>1, <2>2, UpTo
  <2>. QED BY <2>3 DEF K
<1>17. r \in [0..n -> S]
  <2>. HIDE DEF new
  <2>1. r = [j \in 0..n |-> r[j]]
    <3>1. [j \in 0..n |-> r[j]]
            = [j \in 0..n |-> IF j = 0 THEN empty ELSE new(r[j - 1], j)]
      BY <1>13
    <3>. QED BY <1>12, <3>1, Zenon
  <2>. QED BY <1>16, <2>1
<1>18. Without(text, symbols) = r[n]
  BY <1>1, <1>3, <1>11, Zenon DEF Without
<1>19. IsSanitized(text, symbols, r)
  BY <1>1, <1>3, <1>14, <1>15, <1>18 DEF IsSanitized
<1>. QED BY <1>1, <1>2, <1>17, <1>19

\* Nothing that had to go is left, and nothing is made up.
LEMMA SanitizedType ==
  ASSUME NEW Symbol, NEW text \in Seq(Symbol), NEW symbols
  PROVE  /\ Without(text, symbols) \in Seq(Symbol)
         /\ \A c \in symbols : ~Has(Without(text, symbols), c)
<1>1. PICK n \in Nat : n = Len(text)
  OBVIOUS
<1>2. PICK r \in [0..n -> Seq(Symbol)] : IsSanitized(text, symbols, r)
  BY <1>1, SanitizedRead
<1>. DEFINE Clean(t) == \A k \in 1..Len(t) : t[k] \notin symbols
            K == {j \in 0..n : Clean(r[j])}
<1>3. 0 \in K
  <2>1. Len(<<>>) = 0 /\ r[0] = <<>>
    BY <1>2 DEF IsSanitized
  <2>. QED BY <2>1
<1>4. ASSUME NEW m \in 0..n, m \in K, m < n PROVE m + 1 \in K
  <2>1. PICK j \in 1..n : j = m + 1 /\ j - 1 = m
    BY <1>4
  <2>2. PICK before \in Seq(Symbol) : before = r[m]
    OBVIOUS
  <2>3. r[j] = IF text[j] \in symbols THEN before ELSE Append(before, text[j])
    BY <1>1, <1>2, <2>1, <2>2 DEF IsSanitized
  <2>4. Clean(before)
    BY <1>4, <2>2
  <2>5. Clean(r[j])
    <3>1. CASE text[j] \in symbols
      <4>. HIDE DEF Clean
      <4>. QED BY <2>3, <2>4, <3>1
    <3>2. CASE text[j] \notin symbols
      <4>1. PICK after : after = Append(before, text[j])
        OBVIOUS
      <4>2. /\ Len(after) = Len(before) + 1 /\ after[Len(before) + 1] = text[j]
            /\ \A k \in 1..Len(before) : after[k] = before[k]
        <5>1. text[j] \in Symbol
          BY <1>1
        <5>. QED BY <4>1, <5>1, Appended
      <4>3. \A k \in 1..Len(after) : k \in 1..Len(before) \/ k = Len(before) + 1
        <5>1. Len(before) \in Nat
          OBVIOUS
        <5>. QED BY <4>2, <5>1
      <4>4. Clean(after)
        BY <2>4, <3>2, <4>2, <4>3
      <4>. HIDE DEF Clean
      <4>. QED BY <2>3, <3>2, <4>1, <4>4
    <3>. QED BY <3>1, <3>2
  <2>. HIDE DEF Clean
  <2>. QED BY <2>1, <2>5
<1>5. n \in K
  <2>. HIDE DEF K
  <2>1. \A j \in 0..n : j \in K
    BY <1>3, <1>4, UpTo
  <2>. QED BY <2>1
<1>6. Without(text, symbols) = r[n] /\ r[n] \in Seq(Symbol)
  BY <1>1, <1>2 DEF IsSanitized
<1>7. PICK t \in Seq(Symbol) : t = r[n]
  BY <1>6
<1>8. Clean(t)
  BY <1>5, <1>7
<1>9. DOMAIN t = 1..Len(t)
  OBVIOUS
<1>. QED BY <1>6, <1>7, <1>8, <1>9 DEF Has

\* What is clean stays as it is.
LEMMA SanitizedClean ==
  ASSUME NEW Symbol, NEW text \in Seq(Symbol), NEW symbols,
         \A j \in 1..Len(text) : text[j] \notin symbols
  PROVE  Without(text, symbols) = text
<1>1. PICK n \in Nat : n = Len(text)
  OBVIOUS
<1>2. PICK r \in [0..n -> Seq(Symbol)] : IsSanitized(text, symbols, r)
  BY <1>1, SanitizedRead
<1>. DEFINE Same(j) == Len(r[j]) = j /\ \A k \in 1..j : r[j][k] = text[k]
            K == {j \in 0..n : Same(j)}
<1>3. 0 \in K
  <2>1. Len(<<>>) = 0 /\ r[0] = <<>>
    BY <1>2 DEF IsSanitized
  <2>. QED BY <2>1
<1>4. ASSUME NEW m \in 0..n, m \in K, m < n PROVE m + 1 \in K
  <2>1. PICK j \in 1..n : j = m + 1 /\ j - 1 = m
    BY <1>4
  <2>2. PICK before \in Seq(Symbol) : before = r[m]
    OBVIOUS
  <2>3. r[j] = Append(before, text[j])
    BY <1>1, <1>2, <2>1, <2>2 DEF IsSanitized
  <2>4. PICK after : after = Append(before, text[j])
    OBVIOUS
  <2>5. Len(before) = m /\ \A k \in 1..m : before[k] = text[k]
    BY <1>4, <2>2
  <2>6. /\ Len(after) = m + 1 /\ after[m + 1] = text[j]
        /\ \A k \in 1..m : after[k] = before[k]
    <3>1. text[j] \in Symbol
      BY <1>1
    <3>2. /\ Len(after) = Len(before) + 1 /\ after[Len(before) + 1] = text[j]
          /\ \A k \in 1..Len(before) : after[k] = before[k]
      BY <2>4, <3>1, Appended
    <3>. QED BY <2>5, <3>2
  <2>7. \A k \in 1..j : k \in 1..m \/ k = j
    BY <2>1
  <2>8. Same(j)
    BY <2>1, <2>3, <2>4, <2>5, <2>6, <2>7
  <2>. HIDE DEF Same
  <2>. QED BY <2>1, <2>8
<1>5. n \in K
  <2>. HIDE DEF K
  <2>1. \A j \in 0..n : j \in K
    BY <1>3, <1>4, UpTo
  <2>. QED BY <2>1
<1>6. PICK t \in Seq(Symbol) : t = r[n]
  OBVIOUS
<1>7. Len(t) = Len(text) /\ \A k \in 1..Len(text) : t[k] = text[k]
  BY <1>1, <1>5, <1>6
<1>8. t = text
  BY <1>7
<1>. QED BY <1>1, <1>2, <1>6, <1>8 DEF IsSanitized

\* Two texts are sanitized one after the other.
LEMMA SanitizedConcat ==
  ASSUME NEW Symbol, NEW a \in Seq(Symbol), NEW b \in Seq(Symbol), NEW symbols
  PROVE  Without(a \o b, symbols) = Without(a, symbols) \o Without(b, symbols)
<1>1. PICK m \in Nat : m = Len(a)
  OBVIOUS
<1>2. PICK n \in Nat : n = Len(b)
  OBVIOUS
<1>3. PICK c : c = a \o b
  OBVIOUS
<1>4. /\ c \in Seq(Symbol) /\ Len(c) = m + n /\ \A j \in 1..m : c[j] = a[j]
      /\ \A j \in 1..n : c[m + j] = b[j]
  BY <1>1, <1>2, <1>3, Joined
<1>5. PICK ra \in [0..m -> Seq(Symbol)] : IsSanitized(a, symbols, ra)
  BY <1>1, SanitizedRead
<1>6. PICK rb \in [0..n -> Seq(Symbol)] : IsSanitized(b, symbols, rb)
  BY <1>2, SanitizedRead
<1>7. PICK rc \in [0..m + n -> Seq(Symbol)] : IsSanitized(c, symbols, rc)
  BY <1>4, SanitizedRead
<1>8. \A j \in 0..m : rc[j] = ra[j]
  <2>. DEFINE K == {j \in 0..m : rc[j] = ra[j]}
  <2>1. 0 \in K
    BY <1>5, <1>7 DEF IsSanitized
  <2>2. ASSUME NEW i \in 0..m, i \in K, i < m PROVE i + 1 \in K
    <3>1. PICK j \in 1..m : j = i + 1 /\ j - 1 = i
      BY <2>2
    <3>2. ra[j] = IF a[j] \in symbols THEN ra[i] ELSE Append(ra[i], a[j])
      BY <1>1, <1>5, <3>1 DEF IsSanitized
    <3>3. rc[j] = IF c[j] \in symbols THEN rc[i] ELSE Append(rc[i], c[j])
      <4>1. j \in 1..Len(c)
        BY <1>4
      <4>. QED BY <1>7, <3>1, <4>1 DEF IsSanitized
    <3>4. c[j] = a[j]
      BY <1>4
    <3>. QED BY <2>2, <3>1, <3>2, <3>3, <3>4
  <2>. HIDE DEF K
  <2>3. \A j \in 0..m : j \in K
    BY <2>1, <2>2, UpTo
  <2>. QED BY <2>3 DEF K
<1>9. PICK left \in Seq(Symbol) : left = ra[m]
  OBVIOUS
<1>. DEFINE K == {j \in 0..n : rc[m + j] = left \o rb[j]}
<1>10. 0 \in K
  <2>1. rc[m] = left /\ rb[0] = <<>>
    BY <1>6, <1>8, <1>9 DEF IsSanitized
  <2>2. left \o <<>> = left
    OBVIOUS
  <2>3. rc[m + 0] = left \o rb[0]
    BY <2>1, <2>2
  <2>. QED BY <2>3
<1>11. ASSUME NEW i \in 0..n, i \in K, i < n PROVE i + 1 \in K
  <2>1. PICK j \in 1..n : j = i + 1 /\ j - 1 = i
    BY <1>11
  <2>2. PICK before \in Seq(Symbol) : before = rb[i]
    OBVIOUS
  <2>3. rb[j] = IF b[j] \in symbols THEN before ELSE Append(before, b[j])
    BY <1>2, <1>6, <2>1, <2>2 DEF IsSanitized
  <2>4. rc[m + j] = IF c[m + j] \in symbols THEN rc[m + i] ELSE Append(rc[m + i], c[m + j])
    <3>1. m + j \in 1..Len(c) /\ m + j - 1 = m + i
      BY <1>4, <2>1
    <3>2. PICK q \in 1..Len(c) : q = m + j /\ q - 1 = m + i
      BY <3>1
    <3>3. rc[q] = IF c[q] \in symbols THEN rc[q - 1] ELSE Append(rc[q - 1], c[q])
      BY <1>7 DEF IsSanitized
    <3>. QED BY <3>2, <3>3
  <2>5. c[m + j] = b[j] /\ rc[m + i] = left \o before
    BY <1>4, <1>11, <2>2
  <2>6. b[j] \in Symbol
    BY <1>2
  <2>7. Append(left \o before, b[j]) = left \o Append(before, b[j])
    <3>1. PICK x \in Symbol : x = b[j]
      BY <2>6
    <3>2. PICK joined : joined = left \o before
      OBVIOUS
    <3>3. PICK more : more = Append(before, x)
      OBVIOUS
    <3>4. PICK lhs : lhs = Append(joined, x)
      OBVIOUS
    <3>5. PICK rhs : rhs = left \o more
      OBVIOUS
    <3>6. lhs = rhs
      <4>1. /\ IsJoined(joined, left, before) /\ IsAppended(more, before, x)
            /\ IsAppended(lhs, joined, x) /\ IsJoined(rhs, left, more)
        BY <3>2, <3>3, <3>4, <3>5 DEF IsJoined, IsAppended
      <4>. QED BY <4>1, JoinedAndAppended
    <3>. QED BY <3>1, <3>2, <3>3, <3>4, <3>5, <3>6
  <2>8. rc[m + j] = left \o rb[j]
    BY <2>3, <2>4, <2>5, <2>7
  <2>9. j \in 0..n
    OBVIOUS
  <2>. QED BY <2>1, <2>8, <2>9
<1>12. n \in K
  <2>. HIDE DEF K
  <2>1. \A j \in 0..n : j \in K
    BY <1>10, <1>11, UpTo
  <2>. QED BY <2>1
<1>13. /\ Without(a, symbols) = left /\ Without(b, symbols) = rb[n]
       /\ Without(c, symbols) = rc[m + n]
  BY <1>1, <1>2, <1>4, <1>5, <1>6, <1>7, <1>9 DEF IsSanitized
<1>. QED BY <1>3, <1>12, <1>13

-----------------------------------------------------------------------------
(***************************************************************************)
(* What the server's parser makes of a line                                *)
(***************************************************************************)

\* A word without blanks stands in a line behind a blank, and a blank or the
\* end of the line behind it.
Stands(line, n, from, word, m, start, e) ==
  /\ n = Len(line) /\ m = Len(word) /\ start = from + 1 /\ e = from + m + 1
  /\ from \in 1..n /\ line[from] = " "
  /\ m # 0 /\ \A k \in 1..m : word[k] # " " /\ line[from + k] = word[k]
  /\ from + m <= n
  /\ from + m + 1 <= n => line[from + m + 1] = " "

\* Where it begins and ends.
IsFound(line, n, from, word, start, e) ==
  /\ start \in 1..n /\ e \in 1..n + 1
  /\ IsNextWord(line, from, start) /\ line[start] = word[1]
  /\ NextSpace(line, start) = e
  /\ SubSeq(line, start, e - 1) = word

LEMMA WordStands ==
  ASSUME NEW Symbol, NEW line \in Seq(Symbol), NEW word \in Seq(Symbol),
         NEW n \in Nat, NEW m \in Nat, NEW from \in Nat,
         NEW start, NEW e, Stands(line, n, from, word, m, start, e)
  PROVE  IsFound(line, n, from, word, start, e)
<1>3. PICK blank : blank = " "
  OBVIOUS
<1>4. /\ from \in 1..n /\ line[from] = blank /\ from + m <= n /\ m # 0
      /\ \A k \in 1..m : word[k] # blank /\ line[from + k] = word[k]
      /\ from + m + 1 <= n => line[from + m + 1] = blank
      /\ n = Len(line) /\ m = Len(word) /\ start = from + 1 /\ e = from + m + 1
  BY <1>3 DEF Stands
<1>5. start \in 1..n /\ e \in 1..n + 1 /\ start \in 1..n + 1 /\ e - 1 \in start - 1..n
  BY <1>4
<1>6. line[start] = word[1] /\ word[1] # blank
  BY <1>4
<1>7. IsNextWord(line, from, start)
  <2>1. start \in from..n + 1
    BY <1>4
  <2>2. \A earlier \in from..start - 1 : earlier = from
    BY <1>4
  <2>3. \A earlier \in from..start - 1 : line[earlier] = blank
    BY <1>4, <2>2
  <2>4. IsNextOther(line, from, blank, start)
    BY <1>4, <1>6, <2>1, <2>3 DEF IsNextOther
  <2>. QED BY <1>3, <2>4 DEF IsNextWord
<1>9. IsNextOf(line, start, blank, e)
  <2>1. e \in start..n + 1
    BY <1>4
  <2>2. e = n + 1 \/ line[e] = blank
    <3>1. e = n + 1 \/ from + m + 1 <= n
      <4>1. from + m <= n /\ e = from + m + 1
        BY <1>4
      <4>. QED BY <4>1
    <3>. QED BY <1>4, <3>1, Zenon
  <2>3. ASSUME NEW earlier \in start..e - 1 PROVE line[earlier] # blank
    <3>1. PICK k \in 1..m : earlier = from + k
      <4>1. earlier - from \in 1..m /\ earlier = from + (earlier - from)
        BY <1>4
      <4>. QED BY <4>1
    <3>. QED BY <1>4, <3>1
  <2>. QED BY <1>4, <2>1, <2>2, <2>3 DEF IsNextOf
<1>10. NextSpace(line, start) = e
  <2>1. start \in 1..Len(line) + 1
    BY <1>4, <1>5
  <2>2. NextOf(line, start, blank) = e
    BY <1>9, <2>1, NextOfIs
  <2>. QED BY <1>3, <2>2 DEF NextSpace
<1>11. SubSeq(line, start, e - 1) = word
  <2>1. PICK a \in 1..Len(line) + 1 : a = start
    BY <1>4, <1>5
  <2>2. PICK z \in a - 1..Len(line) : z = e - 1
    BY <1>4, <1>5, <2>1
  <2>3. PICK part : part = SubSeq(line, a, z)
    OBVIOUS
  <2>4. /\ part \in Seq(Symbol) /\ Len(part) = z + 1 - a
        /\ \A k \in 1..z + 1 - a : part[k] = line[a + k - 1]
    BY <2>3, PartType
  <2>5. z + 1 - a = m
    BY <1>4, <2>1, <2>2
  <2>6. ASSUME NEW k \in 1..m PROVE part[k] = word[k]
    <3>1. a + k - 1 = from + k
      BY <1>4, <2>1
    <3>. QED BY <1>4, <2>4, <2>5, <3>1
  <2>7. part = word
    BY <1>4, <2>4, <2>5, <2>6, SameText
  <2>. QED BY <2>1, <2>2, <2>3, <2>7
<1>. QED BY <1>5, <1>6, <1>7, <1>10, <1>11 DEF IsFound

\* Such a word is a parameter, unless it begins with a colon.
IsParam(line, from, word, e) == Params(line, from) = <<word>> \o Params(line, e)

LEMMA WordParam ==
  ASSUME NEW Symbol, NEW line \in Seq(Symbol), NEW word \in Seq(Symbol),
         NEW n \in Nat, NEW m \in Nat, NEW from \in Nat,
         NEW start, NEW e, Stands(line, n, from, word, m, start, e), word[1] # ":"
  PROVE  IsParam(line, from, word, e)
<1>2. /\ start \in 1..n /\ e \in 1..n + 1
      /\ IsNextWord(line, from, start) /\ line[start] = word[1]
      /\ NextSpace(line, start) = e
      /\ SubSeq(line, start, e - 1) = word
  <2>1. IsFound(line, n, from, word, start, e)
    BY WordStands
  <2>. QED BY <2>1 DEF IsFound
<1>3. n = Len(line) /\ from \in 1..n + 1
  <2>1. n = Len(line) /\ from \in 1..n
    BY DEF Stands
  <2>. QED BY <2>1
<1>4. start <= Len(line) /\ line[start] # ":" /\ from \in 1..Len(line) + 1
  BY <1>2, <1>3
<1>5. Params(line, from) = <<SubSeq(line, start, NextSpace(line, start) - 1)>>
                             \o Params(line, NextSpace(line, start))
  <2>1. PICK place \in 1..Len(line) + 1 : place = from
    BY <1>4
  <2>2. IsNextWord(line, place, start)
    BY <1>2, <2>1
  <2>. QED BY <1>4, <2>1, <2>2, ParamsRead, Zenon
<1>. QED BY <1>2, <1>5 DEF IsParam

LEMMA JustBehind ==
  ASSUME NEW n \in Nat, NEW from \in 1..n, NEW start \in 1..n, start = from + 1
  PROVE  /\ start \in from..n + 1 /\ start <= n /\ from \in 1..n + 1
         /\ \A earlier \in from..start - 1 : earlier = from
OBVIOUS

\* Behind a blank and a colon, what follows is the last one.
Trails(line, n, from, start, rest) ==
  /\ n = Len(line) /\ from \in 1..n /\ start \in 1..n /\ start = from + 1 /\ rest = start + 1
  /\ line[from] = " " /\ line[start] = ":"
IsLast(line, n, from, rest) == Params(line, from) = <<SubSeq(line, rest, n)>>

LEMMA LastParam ==
  ASSUME NEW Symbol, NEW line \in Seq(Symbol), NEW n \in Nat,
         NEW from \in Nat, NEW start \in Nat, NEW rest \in Nat,
         Trails(line, n, from, start, rest)
  PROVE  IsLast(line, n, from, rest)
<1>1. /\ n = Len(line) /\ from \in 1..n /\ start \in 1..n /\ start = from + 1 /\ rest = start + 1
      /\ line[from] = " " /\ line[start] = ":"
  BY Zenon DEF Trails
<1>2. PICK blank : blank = " "
  OBVIOUS
<1>3. PICK colon : colon = ":"
  OBVIOUS
<1>4. line[from] = blank /\ line[start] = colon /\ blank # colon
  <2>1. blank # colon
    BY <1>2, <1>3
  <2>2. line[start] = colon
    BY <1>1, <1>3, Zenon
  <2>. QED BY <1>1, <1>2, <2>1, <2>2, Zenon
<1>5. start \in from..n + 1 /\ start \in 1..n /\ start <= n /\ from \in 1..n + 1
      /\ \A earlier \in from..start - 1 : earlier = from
  BY <1>1, JustBehind, Zenon
<1>6. IsNextWord(line, from, start)
  <2>1. IsNextOther(line, from, blank, start)
    <3>1. \A earlier \in from..start - 1 : line[earlier] = blank
      BY <1>4, <1>5, Zenon
    <3>2. line[start] # blank
      BY <1>4, Zenon
    <3>. QED BY <1>1, <1>5, <3>1, <3>2, Zenon DEF IsNextOther
  <2>. QED BY <1>2, <2>1, Zenon DEF IsNextWord
<1>7. Params(line, from) = <<From(line, start + 1)>>
  <2>1. from \in 1..Len(line) + 1 /\ start <= Len(line) /\ line[start] = ":"
    BY <1>1, <1>3, <1>4, <1>5, Zenon
  <2>. QED BY <1>6, <2>1, ParamsRead, Zenon
<1>. QED BY <1>1, <1>7, Zenon DEF From, IsLast

\* At the end of the line there is none.
LEMMA NoParam ==
  ASSUME NEW Symbol, NEW line \in Seq(Symbol), NEW n \in Nat, n = Len(line)
  PROVE  Params(line, n + 1) = <<>>
<1>1. PICK from \in 1..Len(line) + 1 : from = n + 1
  OBVIOUS
<1>2. IsNextWord(line, from, from)
  <2>1. from \in from..Len(line) + 1 /\ \A earlier : earlier \notin from..from - 1
    OBVIOUS
  <2>. QED BY <1>1, <2>1 DEF IsNextWord, IsNextOther
<1>3. from > Len(line)
  BY <1>1
<1>. QED BY <1>1, <1>2, <1>3, ParamsRead

\* The pieces of a line between two users: ":", a prefix, a blank, a command,
\* a blank, and the parameters.
Relayed(line, n, colon, prefix, m, blank, command, safe, l) ==
  /\ n = Len(line) /\ m = Len(prefix) /\ l = Len(safe) /\ n = m + 4 + l
  /\ line[1] = colon /\ \A k \in 1..m : line[1 + k] = prefix[k]
  /\ line[m + 2] = blank /\ line[m + 3] = command /\ line[m + 4] = blank
  /\ \A k \in 1..l : line[m + 4 + k] = safe[k]

\* One symbol is a text.
LEMMA OneSymbol ==
  ASSUME NEW T, NEW x \in T, NEW t, t = <<x>>
  PROVE  t \in Seq(T) /\ Len(t) = 1 /\ t[1] = x
OBVIOUS

\* Two texts, one behind the other.
IsLaid(T, v, t, u) ==
  /\ v \in Seq(T) /\ Len(v) = Len(t) + Len(u)
  /\ \A k \in 1..Len(t) : v[k] = t[k]
  /\ \A k \in 1..Len(u) : v[Len(t) + k] = u[k]

LEMMA Laid ==
  ASSUME NEW T, NEW t \in Seq(T), NEW u \in Seq(T), NEW v, IsJoined(v, t, u)
  PROVE  IsLaid(T, v, t, u)
BY Joined DEF IsJoined, IsLaid

LEMMA RelayedLine ==
  ASSUME NEW T, NEW colon \in T, NEW blank \in T, NEW prefix \in Seq(T), NEW command \in T,
         NEW safe \in Seq(T), NEW line,
         line = <<colon>> \o prefix \o <<blank>> \o <<command>> \o (<<blank>> \o safe)
  PROVE  /\ line \in Seq(T)
         /\ \E n, m, l \in Nat : Relayed(line, n, colon, prefix, m, blank, command, safe, l)
<1>1. PICK m \in Nat : m = Len(prefix)
  OBVIOUS
<1>2. PICK l \in Nat : l = Len(safe)
  OBVIOUS
<1>3. PICK c : c = <<colon>>
  OBVIOUS
<1>4. PICK b : b = <<blank>>
  OBVIOUS
<1>5. PICK w : w = <<command>>
  OBVIOUS
<1>6. c \in Seq(T) /\ Len(c) = 1 /\ c[1] = colon
  BY <1>3, OneSymbol
<1>7. b \in Seq(T) /\ Len(b) = 1 /\ b[1] = blank
  BY <1>4, OneSymbol
<1>8. w \in Seq(T) /\ Len(w) = 1 /\ w[1] = command
  BY <1>5, OneSymbol
<1>9. PICK a1 : IsJoined(a1, c, prefix)
  BY DEF IsJoined
<1>10. PICK a2 : IsJoined(a2, a1, b)
  BY DEF IsJoined
<1>11. PICK a3 : IsJoined(a3, a2, w)
  BY DEF IsJoined
<1>12. PICK a4 : IsJoined(a4, b, safe)
  BY DEF IsJoined
<1>13. IsJoined(line, a3, a4)
  BY <1>3, <1>4, <1>5, <1>9, <1>10, <1>11, <1>12 DEF IsJoined
<1>14. /\ a1 \in Seq(T) /\ Len(a1) = 1 + m /\ a1[1] = colon
       /\ \A k \in 1..m : a1[1 + k] = prefix[k]
  <2>1. /\ a1 \in Seq(T) /\ Len(a1) = Len(c) + Len(prefix)
        /\ \A k \in 1..Len(c) : a1[k] = c[k]
        /\ \A k \in 1..Len(prefix) : a1[Len(c) + k] = prefix[k]
    <3>1. IsLaid(T, a1, c, prefix)
      BY <1>6, <1>9, Laid
    <3>. QED BY <3>1 DEF IsLaid
  <2>. QED BY <1>1, <1>6, <2>1
<1>15. /\ a2 \in Seq(T) /\ Len(a2) = m + 2 /\ a2[m + 2] = blank
       /\ \A k \in 1..m + 1 : a2[k] = a1[k]
  <2>1. /\ a2 \in Seq(T) /\ Len(a2) = Len(a1) + Len(b)
        /\ \A k \in 1..Len(a1) : a2[k] = a1[k]
        /\ \A k \in 1..Len(b) : a2[Len(a1) + k] = b[k]
    <3>1. IsLaid(T, a2, a1, b)
      BY <1>7, <1>10, <1>14, Laid
    <3>. QED BY <3>1 DEF IsLaid
  <2>2. Len(a1) + 1 = m + 2 /\ Len(a1) = m + 1
    BY <1>14
  <2>3. a2[Len(a1) + 1] = b[1]
    BY <1>7, <2>1
  <2>. QED BY <1>7, <2>1, <2>2, <2>3
<1>16. /\ a3 \in Seq(T) /\ Len(a3) = m + 3 /\ a3[m + 3] = command
       /\ \A k \in 1..m + 2 : a3[k] = a2[k]
  <2>1. /\ a3 \in Seq(T) /\ Len(a3) = Len(a2) + Len(w)
        /\ \A k \in 1..Len(a2) : a3[k] = a2[k]
        /\ \A k \in 1..Len(w) : a3[Len(a2) + k] = w[k]
    <3>1. IsLaid(T, a3, a2, w)
      BY <1>8, <1>11, <1>15, Laid
    <3>. QED BY <3>1 DEF IsLaid
  <2>2. Len(a2) + 1 = m + 3 /\ Len(a2) = m + 2
    BY <1>15
  <2>3. a3[Len(a2) + 1] = w[1]
    BY <1>8, <2>1
  <2>. QED BY <1>8, <2>1, <2>2, <2>3
<1>17. /\ a4 \in Seq(T) /\ Len(a4) = 1 + l /\ a4[1] = blank
       /\ \A k \in 1..l : a4[1 + k] = safe[k]
  <2>1. /\ a4 \in Seq(T) /\ Len(a4) = Len(b) + Len(safe)
        /\ \A k \in 1..Len(b) : a4[k] = b[k]
        /\ \A k \in 1..Len(safe) : a4[Len(b) + k] = safe[k]
    <3>1. IsLaid(T, a4, b, safe)
      BY <1>7, <1>12, Laid
    <3>. QED BY <3>1 DEF IsLaid
  <2>. QED BY <1>2, <1>7, <2>1
<1>18. /\ line \in Seq(T) /\ Len(line) = m + 4 + l
       /\ \A k \in 1..m + 3 : line[k] = a3[k]
       /\ \A k \in 1..1 + l : line[m + 3 + k] = a4[k]
  <2>1. /\ line \in Seq(T) /\ Len(line) = Len(a3) + Len(a4)
        /\ \A k \in 1..Len(a3) : line[k] = a3[k]
        /\ \A k \in 1..Len(a4) : line[Len(a3) + k] = a4[k]
    <3>1. IsLaid(T, line, a3, a4)
      BY <1>13, <1>16, <1>17, Laid
    <3>. QED BY <3>1 DEF IsLaid
  <2>2. Len(a3) = m + 3
    BY <1>16
  <2>3. Len(a4) = 1 + l
    BY <1>17
  <2>4. m + 3 + (1 + l) = m + 4 + l
    OBVIOUS
  <2>. QED BY <2>1, <2>2, <2>3, <2>4
<1>19. line[1] = colon
  <2>1. 1 \in 1..m + 1 /\ 1 \in 1..m + 2 /\ 1 \in 1..m + 3
    OBVIOUS
  <2>. QED BY <1>14, <1>15, <1>16, <1>18, <2>1
<1>20. ASSUME NEW k \in 1..m PROVE line[1 + k] = prefix[k]
  <2>1. 1 + k \in 1..m + 1 /\ 1 + k \in 1..m + 2 /\ 1 + k \in 1..m + 3
    OBVIOUS
  <2>2. line[1 + k] = a3[1 + k]
    BY <1>18, <2>1
  <2>3. a3[1 + k] = a2[1 + k]
    BY <1>16, <2>1
  <2>4. a2[1 + k] = a1[1 + k]
    BY <1>15, <2>1
  <2>5. a1[1 + k] = prefix[k]
    BY <1>14
  <2>. QED BY <2>2, <2>3, <2>4, <2>5
<1>21. line[m + 2] = blank /\ line[m + 3] = command
  <2>1. m + 2 \in 1..m + 2 /\ m + 2 \in 1..m + 3 /\ m + 3 \in 1..m + 3
    OBVIOUS
  <2>. QED BY <1>15, <1>16, <1>18, <2>1
<1>22. line[m + 4] = blank
  <2>1. 1 \in 1..1 + l /\ m + 3 + 1 = m + 4
    OBVIOUS
  <2>. QED BY <1>17, <1>18, <2>1
<1>23. ASSUME NEW k \in 1..l PROVE line[m + 4 + k] = safe[k]
  <2>1. 1 + k \in 1..1 + l /\ m + 3 + (1 + k) = m + 4 + k
    OBVIOUS
  <2>. QED BY <1>17, <1>18, <2>1
<1>24. PICK n \in Nat : n = m + 4 + l
  OBVIOUS
<1>25. Relayed(line, n, colon, prefix, m, blank, command, safe, l)
  BY <1>1, <1>2, <1>18, <1>19, <1>20, <1>21, <1>22, <1>23, <1>24 DEF Relayed
<1>. QED BY <1>18, <1>25

\* What the parser finds, place by place, and what it makes of it.
ParsePlaces(line, first, prefixed, prefixEnd, start, end) ==
  /\ first = NextWord(line, 1)
  /\ prefixed = (first <= Len(line) /\ line[first] = ":")
  /\ prefixEnd = IF prefixed THEN NextSpace(line, first) ELSE first
  /\ start = NextWord(line, prefixEnd) /\ end = NextSpace(line, start)
IsParsed(found, line, maxParams, first, prefixed, prefixEnd, start, end) ==
  found = IF \/ Has(line, "NUL")
             \/ prefixed /\ prefixEnd = first + 1
             \/ start > Len(line)
             \/ Len(Params(line, end)) > maxParams
          THEN {}
          ELSE {[prefix |-> IF prefixed THEN SubSeq(line, first + 1, prefixEnd - 1) ELSE <<>>,
                 command |-> SubSeq(line, start, end - 1),
                 params |-> Params(line, end)]}

IsMessage(found, line, maxParams, prefix, command, params) ==
  found = IF Has(line, "NUL") \/ Len(params) > maxParams THEN {}
          ELSE {[prefix |-> prefix, command |-> command, params |-> params]}

LEMMA Parsed ==
  ASSUME NEW line, NEW maxParams, NEW first, NEW prefixed, NEW prefixEnd, NEW start, NEW end,
         ParsePlaces(line, first, prefixed, prefixEnd, start, end)
  PROVE  IsParsed(Parse(line, maxParams), line, maxParams, first, prefixed, prefixEnd, start,
                  end)
BY Zenon DEF Parse, ParsePlaces, IsParsed

\* An unprefixed line: its first word, and the parameters behind it.
LEMMA ParsedPlain ==
  ASSUME NEW Symbol, NEW line \in Seq(Symbol), NEW maxParams,
         IsNextWord(line, 1, 1), 1 <= Len(line), line[1] # ":",
         NEW end, end = NextSpace(line, 1)
  PROVE  IsMessage(Parse(line, maxParams), line, maxParams, <<>>, SubSeq(line, 1, end - 1),
                   Params(line, end))
<1>1. PICK n \in Nat : n = Len(line)
  OBVIOUS
<1>2. NextWord(line, 1) = 1
  <2>1. 1 \in 1..Len(line) + 1
    BY <1>1
  <2>. QED BY <2>1, NextWordIs, Zenon
<1>3. ~(1 > Len(line))
  BY <1>1
<1>4. PICK prefixed : prefixed = (1 <= Len(line) /\ line[1] = ":")
  OBVIOUS
<1>5. prefixed = FALSE
  BY <1>4
<1>6. 1 = NextWord(line, 1) /\ prefixed = (1 <= Len(line) /\ line[1] = ":")
      /\ 1 = IF prefixed THEN NextSpace(line, 1) ELSE 1
  BY <1>2, <1>4, <1>5, Zenon
<1>7. ParsePlaces(line, 1, prefixed, 1, 1, end)
  BY <1>2, <1>6, Zenon DEF ParsePlaces
<1>8. IsParsed(Parse(line, maxParams), line, maxParams, 1, prefixed, 1, 1, end)
  BY <1>7, Parsed, Zenon
<1>. QED BY <1>3, <1>5, <1>8, Zenon DEF IsParsed, IsMessage

\* A prefixed one: the prefix, the first word and the parameters behind it.
LEMMA ParsedPrefixed ==
  ASSUME NEW Symbol, NEW line \in Seq(Symbol), NEW maxParams,
         IsNextWord(line, 1, 1), 1 <= Len(line), line[1] = ":",
         NEW prefixEnd \in 1..Len(line) + 1, prefixEnd = NextSpace(line, 1), prefixEnd # 2,
         NEW start, IsNextWord(line, prefixEnd, start), ~(start > Len(line)),
         NEW end, end = NextSpace(line, start)
  PROVE  IsMessage(Parse(line, maxParams), line, maxParams, SubSeq(line, 2, prefixEnd - 1),
                   SubSeq(line, start, end - 1), Params(line, end))
<1>1. PICK n \in Nat : n = Len(line)
  OBVIOUS
<1>2. NextWord(line, 1) = 1
  <2>1. 1 \in 1..Len(line) + 1
    BY <1>1
  <2>. QED BY <2>1, NextWordIs, Zenon
<1>3. NextWord(line, prefixEnd) = start
  BY NextWordIs, Zenon
<1>4. PICK prefixed : prefixed = (1 <= Len(line) /\ line[1] = ":")
  OBVIOUS
<1>5. prefixed = TRUE
  BY <1>4
<1>6. 1 + 1 = 2
  OBVIOUS
<1>7. 1 = NextWord(line, 1) /\ prefixed = (1 <= Len(line) /\ line[1] = ":")
      /\ prefixEnd = IF prefixed THEN NextSpace(line, 1) ELSE 1
  BY <1>2, <1>4, <1>5, Zenon
<1>8. ParsePlaces(line, 1, prefixed, prefixEnd, start, end)
  BY <1>3, <1>7, Zenon DEF ParsePlaces
<1>9. IsParsed(Parse(line, maxParams), line, maxParams, 1, prefixed, prefixEnd, start, end)
  BY <1>8, Parsed, Zenon
<1>. QED BY <1>5, <1>6, <1>9, Zenon DEF IsParsed, IsMessage

LEMMA DomainOf ==
  ASSUME NEW T, NEW t \in Seq(T)
  PROVE  DOMAIN t = 1..Len(t)
OBVIOUS

LEMMA NotEmpty ==
  ASSUME NEW T, NEW t \in Seq(T)
  PROVE  t # <<>> <=> Len(t) # 0
OBVIOUS

\* The symbols that the parser looks for.
IsBlank(symbol) == symbol = " "
IsColon(symbol) == symbol = ":"

\* The first word is where a line begins that begins with no blank.
LEMMA FirstWord ==
  ASSUME NEW Symbol, NEW line \in Seq(Symbol), NEW blank, IsBlank(blank),
         line # <<>>, line[1] # blank
  PROVE  IsNextWord(line, 1, 1) /\ 1 <= Len(line)
<1>1. PICK n \in Nat : n = Len(line)
  OBVIOUS
<1>2. 1 <= n
  BY <1>1
<1>3. 1 \in 1..n + 1 /\ \A earlier : earlier \notin 1..1 - 1
  BY <1>2
<1>4. IsNextOther(line, 1, blank, 1)
  BY <1>1, <1>3 DEF IsNextOther
<1>5. IsNextWord(line, 1, 1)
  BY <1>4, Zenon DEF IsNextWord, IsBlank
<1>. QED BY <1>1, <1>2, <1>5

\* A part of a line that reads like a text is that text.
ReadsLike(line, n, a, z, text, m) ==
  /\ n = Len(line) /\ m = Len(text) /\ a \in 1..n + 1 /\ z = a + m - 1 /\ z <= n
  /\ \A k \in 1..m : line[a + k - 1] = text[k]

IsPart(part, line, a, z) == part = SubSeq(line, a, z)

LEMMA PartIs ==
  ASSUME NEW Symbol, NEW line \in Seq(Symbol), NEW text \in Seq(Symbol),
         NEW n \in Nat, NEW m \in Nat, NEW a \in Nat, NEW z \in Nat,
         ReadsLike(line, n, a, z, text, m)
  PROVE  IsPart(text, line, a, z)
<1>. USE DEF ReadsLike
<1>1. PICK b \in a - 1..Len(line) : b = z
  <2>1. z \in a - 1..n /\ n = Len(line)
    OBVIOUS
  <2>. QED BY <2>1, Zenon
<1>2. PICK part : part = SubSeq(line, a, b)
  OBVIOUS
<1>3. a \in 1..Len(line) + 1
  OBVIOUS
<1>4. /\ part \in Seq(Symbol) /\ Len(part) = b + 1 - a
      /\ \A k \in 1..b + 1 - a : part[k] = line[a + k - 1]
  BY <1>2, <1>3, PartType
<1>5. b + 1 - a = m
  BY <1>1
<1>6. part = text
  BY <1>4, <1>5, SameText
<1>. QED BY <1>1, <1>2, <1>6, Zenon DEF IsPart

\* Where the prefix of such a line ends.
PrefixEndsAt(line, prefix, pe) == pe = NextSpace(line, 1) /\ SubSeq(line, 2, pe - 1) = prefix

LEMMA PrefixEnds ==
  ASSUME NEW Symbol, NEW line \in Seq(Symbol), NEW prefix \in Seq(Symbol),
         NEW command, NEW safe, NEW n \in Nat, NEW m \in Nat, NEW l \in Nat,
         NEW colon, NEW blank, IsColon(colon), IsBlank(blank),
         Relayed(line, n, colon, prefix, m, blank, command, safe, l),
         \A k \in 1..m : prefix[k] # blank,
         NEW pe, pe = m + 2
  PROVE  PrefixEndsAt(line, prefix, pe)
<1>1. /\ n = Len(line) /\ m = Len(prefix) /\ n = m + 4 + l
      /\ line[1] = colon /\ \A k \in 1..m : line[1 + k] = prefix[k]
      /\ line[m + 2] = blank
  BY DEF Relayed
<1>3. blank # colon
  BY DEF IsBlank, IsColon
<1>5. pe = m + 2 /\ pe \in 1..Len(line) + 1
  BY <1>1
<1>7. pe = NextSpace(line, 1)
  <2>1. 1 \in 1..Len(line) + 1
    BY <1>1
  <2>2. IsNextOf(line, 1, blank, pe)
    <3>1. pe \in 1..Len(line) + 1 /\ line[pe] = blank
      BY <1>1, <1>5
    <3>2. ASSUME NEW earlier \in 1..pe - 1 PROVE line[earlier] # blank
      <4>1. CASE earlier = 1
        BY <1>1, <1>3, <4>1
      <4>2. CASE earlier # 1
        <5>1. earlier - 1 \in 1..m /\ earlier = 1 + (earlier - 1)
          BY <1>5, <4>2
        <5>2. PICK k \in 1..m : earlier = 1 + k
          BY <5>1
        <5>. QED BY <1>1, <5>2
      <4>. QED BY <4>1, <4>2
    <3>. QED BY <3>1, <3>2 DEF IsNextOf
  <2>3. NextOf(line, 1, blank) = pe
    BY <2>1, <2>2, NextOfIs
  <2>. QED BY <2>3, Zenon DEF NextSpace, IsBlank
<1>10. SubSeq(line, 2, pe - 1) = prefix
  <2>1. PICK a \in 1..n + 1 : a = 2
    BY <1>1
  <2>2. PICK z \in Nat : z = pe - 1 /\ z = a + m - 1 /\ z <= n
    BY <1>1, <1>5, <2>1
  <2>3. ASSUME NEW k \in 1..m PROVE line[a + k - 1] = prefix[k]
    <3>1. a + k - 1 = 1 + k
      BY <2>1
    <3>. QED BY <1>1, <3>1
  <2>4. ReadsLike(line, n, a, z, prefix, m)
    BY <1>1, <2>2, <2>3 DEF ReadsLike
  <2>5. IsPart(prefix, line, a, z)
    BY <2>4, PartIs
  <2>. QED BY <2>1, <2>2, <2>5, Zenon DEF IsPart
<1>. QED BY <1>7, <1>10, Zenon DEF PrefixEndsAt

\* What the parser finds in such a line.
LEMMA RelayedParsed ==
  ASSUME NEW Symbol, NEW line \in Seq(Symbol), NEW prefix \in Seq(Symbol),
         NEW command \in Symbol, NEW safe \in Seq(Symbol), NEW maxParams,
         NEW n \in Nat, NEW m \in Nat, NEW l \in Nat, NEW colon, NEW blank,
         IsColon(colon), IsBlank(blank),
         Relayed(line, n, colon, prefix, m, blank, command, safe, l),
         prefix # <<>>, \A k \in 1..m : prefix[k] # blank, command # blank,
         NEW e, e = m + 4
  PROVE  IsMessage(Parse(line, maxParams), line, maxParams, prefix, <<command>>,
                   Params(line, e))
<1>1. /\ n = Len(line) /\ m = Len(prefix) /\ l = Len(safe) /\ n = m + 4 + l
      /\ line[1] = colon /\ \A k \in 1..m : line[1 + k] = prefix[k]
      /\ line[m + 2] = blank /\ line[m + 3] = command /\ line[m + 4] = blank
  BY DEF Relayed
<1>2. m # 0 /\ line # <<>>
  <2>1. Len(line) # 0
    BY <1>1
  <2>. QED BY <1>1, <2>1, NotEmpty
<1>3. blank # colon
  BY DEF IsBlank, IsColon
<1>4. IsNextWord(line, 1, 1) /\ 1 <= Len(line)
  BY <1>1, <1>2, <1>3, FirstWord, Zenon
<1>5. PICK pe \in 1..Len(line) + 1 : pe = m + 2
  BY <1>1
<1>6. PICK start \in 1..Len(line) : start = m + 3
  BY <1>1
<1>7. PrefixEndsAt(line, prefix, pe)
  BY <1>5, PrefixEnds
<1>8. IsNextWord(line, pe, start)
  <2>1. start \in pe..Len(line) + 1 /\ \A earlier \in pe..start - 1 : earlier = pe
    BY <1>5, <1>6
  <2>2. line[start] # blank /\ line[pe] = blank
    BY <1>1, <1>5, <1>6
  <2>3. IsNextOther(line, pe, blank, start)
    BY <2>1, <2>2 DEF IsNextOther
  <2>. QED BY <2>3, Zenon DEF IsNextWord, IsBlank
<1>9. e = NextSpace(line, start)
  <2>1. start \in 1..Len(line) + 1
    OBVIOUS
  <2>2. IsNextOf(line, start, blank, e)
    <3>1. e \in start..Len(line) + 1 /\ line[e] = blank
      BY <1>1, <1>6
    <3>2. ASSUME NEW earlier \in start..e - 1 PROVE line[earlier] # blank
      <4>1. earlier = start
        BY <1>1, <1>6
      <4>. QED BY <1>1, <1>6, <4>1
    <3>. QED BY <3>1, <3>2 DEF IsNextOf
  <2>3. NextOf(line, start, blank) = e
    BY <2>1, <2>2, NextOfIs
  <2>. QED BY <2>3, Zenon DEF NextSpace, IsBlank
<1>11. SubSeq(line, start, e - 1) = <<command>>
  <2>1. PICK word \in Seq(Symbol) :
          word = <<command>> /\ Len(word) = 1 /\ word[1] = command
    <3>1. PICK word : word = <<command>>
      OBVIOUS
    <3>. QED BY <3>1, OneSymbol, Zenon
  <2>2. PICK one \in Nat : one = 1
    OBVIOUS
  <2>3. PICK a \in Nat : a = start /\ a \in 1..n + 1
    BY <1>1
  <2>4. PICK z \in Nat : z = e - 1 /\ z = a + one - 1 /\ z <= n
    BY <1>1, <1>6, <2>2, <2>3
  <2>5. ASSUME NEW k \in 1..one PROVE line[a + k - 1] = word[k]
    <3>1. k = 1 /\ a + k - 1 = m + 3
      BY <1>6, <2>2, <2>3
    <3>. QED BY <1>1, <2>1, <3>1
  <2>6. ReadsLike(line, n, a, z, word, one)
    BY <1>1, <2>1, <2>2, <2>4, <2>5 DEF ReadsLike
  <2>7. IsPart(word, line, a, z)
    BY <2>6, PartIs
  <2>. QED BY <2>1, <2>3, <2>4, <2>7, Zenon DEF IsPart
<1>12. pe # 2 /\ ~(start > Len(line))
  BY <1>1, <1>2, <1>5, <1>6
<1>13. line[1] = ":"
  BY <1>1, Zenon DEF IsColon
<1>14. IsMessage(Parse(line, maxParams), line, maxParams, SubSeq(line, 2, pe - 1),
                 SubSeq(line, start, e - 1), Params(line, e))
  BY <1>1, <1>4, <1>7, <1>8, <1>9, <1>12, <1>13, ParsedPrefixed, Zenon DEF PrefixEndsAt
<1>. QED BY <1>7, <1>11, <1>14, Zenon DEF PrefixEndsAt

LEMMA Pair ==
  ASSUME NEW T, NEW a \in T, NEW b \in T
  PROVE  <<a>> \o <<b>> = <<a, b>>
<1>1. PICK one : one = <<a>>
  OBVIOUS
<1>2. PICK two : two = <<b>>
  OBVIOUS
<1>3. PICK both : both = <<a, b>>
  OBVIOUS
<1>4. PICK v : IsJoined(v, one, two)
  BY DEF IsJoined
<1>5. one \in Seq(T) /\ Len(one) = 1 /\ one[1] = a
  BY <1>1, OneSymbol
<1>6. two \in Seq(T) /\ Len(two) = 1 /\ two[1] = b
  BY <1>2, OneSymbol
<1>7. both \in Seq(T) /\ Len(both) = 2 /\ both[1] = a /\ both[2] = b
  BY <1>3
<1>8. IsLaid(T, v, one, two)
  BY <1>4, <1>5, <1>6, Laid
<1>9. v \in Seq(T) /\ Len(v) = 2 /\ v[1] = a /\ v[2] = b
  BY <1>5, <1>6, <1>8 DEF IsLaid
<1>10. v = both
  BY <1>7, <1>9, SameText
<1>. QED BY <1>1, <1>2, <1>3, <1>4, <1>10 DEF IsJoined

\* A target and a text behind it.
Addressed(safe, target, t, blank, colon, text, x, l) ==
  /\ l = Len(safe) /\ t = Len(target) /\ x = Len(text) /\ l = t + 2 + x
  /\ \A k \in 1..t : safe[k] = target[k]
  /\ safe[t + 1] = blank /\ safe[t + 2] = colon
  /\ \A k \in 1..x : safe[t + 2 + k] = text[k]

LEMMA AddressedText ==
  ASSUME NEW T, NEW colon \in T, NEW blank \in T, NEW target \in Seq(T), NEW text \in Seq(T),
         NEW safe, safe = target \o <<blank, colon>> \o text
  PROVE  /\ safe \in Seq(T)
         /\ \E t, x, l \in Nat : Addressed(safe, target, t, blank, colon, text, x, l)
<1>1. PICK t \in Nat : t = Len(target)
  OBVIOUS
<1>2. PICK x \in Nat : x = Len(text)
  OBVIOUS
<1>3. PICK l \in Nat : l = t + 2 + x
  OBVIOUS
<1>4. PICK b : b = <<blank, colon>>
  OBVIOUS
<1>5. b \in Seq(T) /\ Len(b) = 2 /\ b[1] = blank /\ b[2] = colon
  BY <1>4
<1>6. PICK a1 : IsJoined(a1, target, b)
  BY DEF IsJoined
<1>7. IsJoined(safe, a1, text)
  BY <1>4, <1>6 DEF IsJoined
<1>8. /\ a1 \in Seq(T) /\ Len(a1) = t + 2
      /\ \A k \in 1..t : a1[k] = target[k]
      /\ a1[t + 1] = blank /\ a1[t + 2] = colon
  <2>1. IsLaid(T, a1, target, b)
    BY <1>5, <1>6, Laid
  <2>2. /\ a1 \in Seq(T) /\ Len(a1) = Len(target) + Len(b)
        /\ \A k \in 1..Len(target) : a1[k] = target[k]
        /\ \A k \in 1..Len(b) : a1[Len(target) + k] = b[k]
    BY <2>1 DEF IsLaid
  <2>. QED BY <1>1, <1>5, <2>2
<1>9. /\ safe \in Seq(T) /\ Len(safe) = l
      /\ \A k \in 1..t + 2 : safe[k] = a1[k]
      /\ \A k \in 1..x : safe[t + 2 + k] = text[k]
  <2>1. IsLaid(T, safe, a1, text)
    BY <1>7, <1>8, Laid
  <2>2. /\ safe \in Seq(T) /\ Len(safe) = Len(a1) + Len(text)
        /\ \A k \in 1..Len(a1) : safe[k] = a1[k]
        /\ \A k \in 1..Len(text) : safe[Len(a1) + k] = text[k]
    BY <2>1 DEF IsLaid
  <2>3. Len(a1) = t + 2
    BY <1>8
  <2>. QED BY <1>2, <1>3, <2>2, <2>3
<1>10. \A k \in 1..t : k \in 1..t + 2
  OBVIOUS
<1>11. t + 1 \in 1..t + 2 /\ t + 2 \in 1..t + 2
  OBVIOUS
<1>12. Addressed(safe, target, t, blank, colon, text, x, l)
  BY <1>1, <1>2, <1>3, <1>8, <1>9, <1>10, <1>11 DEF Addressed
<1>. QED BY <1>9, <1>12

\* The target and the text are the parameters, wherever they stand behind a
\* blank at the end of a line.
EndsWith(line, n, at, blank, safe, l) ==
  /\ at # 0 /\ n = at + l /\ n = Len(line) /\ line[at] = blank
  /\ \A k \in 1..l : line[at + k] = safe[k]
IsPair(params, first, second) == params = <<first, second>>

LEMMA AddressedParams ==
  ASSUME NEW Symbol, NEW line \in Seq(Symbol), NEW target \in Seq(Symbol),
         NEW text \in Seq(Symbol), NEW safe, NEW blank \in Symbol, NEW colon \in Symbol,
         NEW n \in Nat, NEW t \in Nat, NEW x \in Nat, NEW l \in Nat,
         IsColon(colon), IsBlank(blank),
         Addressed(safe, target, t, blank, colon, text, x, l),
         target # <<>>, target[1] # colon, \A k \in 1..t : target[k] # blank,
         NEW at \in Nat, EndsWith(line, n, at, blank, safe, l)
  PROVE  IsPair(Params(line, at), target, text)
<1>. USE DEF EndsWith
<1>1. /\ t = Len(target) /\ x = Len(text) /\ l = t + 2 + x
      /\ \A k \in 1..t : safe[k] = target[k]
      /\ safe[t + 1] = blank /\ safe[t + 2] = colon
      /\ \A k \in 1..x : safe[t + 2 + k] = text[k]
  BY DEF Addressed
<1>2. t # 0
  BY <1>1, NotEmpty
<1>3. PICK e \in Nat : e = at + t + 1 /\ e \in 1..n
  BY <1>1
<1>4. PICK start \in 1..n : start = at + 1
  BY <1>1
<1>5. PICK last \in Nat : last = e + 1 /\ last \in 1..n
  BY <1>1, <1>3
<1>6. line[e] = blank /\ line[last] = colon
  <2>1. t + 1 \in 1..l /\ t + 2 \in 1..l /\ at + (t + 1) = e /\ at + (t + 2) = last
    BY <1>1, <1>3, <1>5
  <2>. QED BY <1>1, <2>1
<1>7. \A k \in 1..t : line[at + k] = target[k]
  <2>1. \A k \in 1..t : k \in 1..l
    BY <1>1
  <2>. QED BY <1>1, <2>1
<1>8. Stands(line, n, at, target, t, start, e)
  <2>1. at \in 1..n /\ at + t <= n
    BY <1>1
  <2>. QED BY <1>1, <1>2, <1>3, <1>4, <1>6, <1>7, <2>1, Zenon DEF Stands, IsBlank
<1>9. target[1] # ":"
  BY Zenon DEF IsColon
<1>10. Params(line, at) = <<target>> \o Params(line, e)
  <2>1. IsParam(line, at, target, e)
    BY <1>8, <1>9, WordParam
  <2>. QED BY <2>1 DEF IsParam
<1>11. PICK rest \in Nat : rest = last + 1 /\ rest \in 1..n + 1
  BY <1>5
<1>12. Params(line, e) = <<SubSeq(line, rest, n)>>
  <2>1. line[e] = " " /\ line[last] = ":"
    BY <1>6, Zenon DEF IsBlank, IsColon
  <2>2. Trails(line, n, e, last, rest)
    BY <1>3, <1>5, <1>11, <2>1, Zenon DEF Trails, EndsWith
  <2>3. IsLast(line, n, e, rest)
    BY <2>2, LastParam
  <2>. QED BY <2>3, Zenon DEF IsLast
<1>13. SubSeq(line, rest, n) = text
  <2>1. n = rest + x - 1
    BY <1>1, <1>3, <1>5, <1>11
  <2>2. ASSUME NEW k \in 1..x PROVE line[rest + k - 1] = text[k]
    <3>1. t + 2 + k \in 1..l /\ at + (t + 2 + k) = rest + k - 1
      BY <1>1, <1>3, <1>5, <1>11
    <3>. QED BY <1>1, <3>1
  <2>3. PICK a \in Nat : a = rest
    OBVIOUS
  <2>4. PICK z \in Nat : z = n
    OBVIOUS
  <2>5. ReadsLike(line, n, a, z, text, x)
    BY <1>1, <2>1, <2>2, <2>3, <2>4 DEF ReadsLike
  <2>6. IsPart(text, line, a, z)
    BY <2>5, PartIs
  <2>. QED BY <2>3, <2>4, <2>6, Zenon DEF IsPart
<1>14. <<target>> \o <<text>> = <<target, text>>
  BY Pair, Zenon
<1>. QED BY <1>10, <1>12, <1>13, <1>14, Zenon DEF IsPair

\* The symbols that end a line or make an IRC server drop it.
Breaks == {"CR", "LF", "NUL"}
IsPlain(symbol) == symbol \notin Breaks /\ symbol # " " /\ symbol # ":"

LEMMA Blanks ==
  ASSUME NEW blank, IsBlank(blank), NEW colon, IsColon(colon)
  PROVE  blank \notin Breaks /\ colon \notin Breaks /\ blank # colon
BY DEF IsBlank, IsColon, Breaks

\* What a safe token is made of.
LEMMA TokenIsSafe ==
  ASSUME NEW Symbol, NEW text \in Seq(Symbol), IsSafeToken(text),
         NEW blank, IsBlank(blank), NEW colon, IsColon(colon)
  PROVE  /\ text # <<>> /\ text[1] # colon
         /\ \A j \in 1..Len(text) : text[j] # blank /\ text[j] \notin Breaks
<1>1. DOMAIN text = 1..Len(text)
  OBVIOUS
<1>2. \A c \in {" ", "CR", "LF", "NUL"} : \A j \in 1..Len(text) : text[j] # c
  BY <1>1, Zenon DEF IsSafeToken, Has
<1>3. \A j \in 1..Len(text) : text[j] # " " /\ text[j] \notin Breaks
  BY <1>2, Zenon DEF Breaks
<1>. QED BY <1>3, Zenon DEF IsSafeToken, IsBlank, IsColon

IsAddress(parameters, target, text, blank, colon) ==
  parameters = target \o <<blank, colon>> \o text
IsWritten(line, prefix, command, safe, blank, colon) ==
  line = <<colon>> \o prefix \o <<blank>> \o <<command>> \o (<<blank>> \o safe)

\* A target stays as it is when a line for it is sanitized.
LEMMA AddressSanitized ==
  ASSUME NEW Symbol, NEW target \in Seq(Symbol), NEW text \in Seq(Symbol),
         NEW blank \in Symbol, IsBlank(blank), NEW colon \in Symbol, IsColon(colon),
         \A j \in 1..Len(target) : target[j] \notin Breaks,
         NEW parameters, IsAddress(parameters, target, text, blank, colon)
  PROVE  IsAddress(SanitizeMessageText(parameters), target, SanitizeMessageText(text), blank,
                   colon)
<1>1. PICK b : b = <<blank, colon>>
  OBVIOUS
<1>2. b \in Seq(Symbol) /\ Len(b) = 2 /\ b[1] = blank /\ b[2] = colon
  BY <1>1
<1>3. PICK front : IsJoined(front, target, b)
  BY DEF IsJoined
<1>4. IsLaid(Symbol, front, target, b)
  BY <1>2, <1>3, Laid
<1>5. /\ front \in Seq(Symbol) /\ Len(front) = Len(target) + 2
      /\ \A k \in 1..Len(target) : front[k] = target[k]
      /\ front[Len(target) + 1] = blank /\ front[Len(target) + 2] = colon
  BY <1>2, <1>4 DEF IsLaid
<1>6. blank \notin Breaks /\ colon \notin Breaks
  BY Blanks
<1>7. ASSUME NEW j \in 1..Len(front) PROVE front[j] \notin Breaks
  <2>1. PICK m \in Nat : m = Len(target)
    OBVIOUS
  <2>2. j \in 1..m \/ j = m + 1 \/ j = m + 2
    BY <1>5, <2>1
  <2>. QED BY <1>5, <1>6, <2>1, <2>2
<1>8. Without(front, Breaks) = front
  BY <1>5, <1>7, SanitizedClean
<1>9. Without(front \o text, Breaks) = Without(front, Breaks) \o Without(text, Breaks)
  BY <1>5, SanitizedConcat
<1>10. parameters = front \o text /\ front = target \o <<blank, colon>>
  BY <1>1, <1>3, Zenon DEF IsJoined, IsAddress
<1>11. Without(parameters, Breaks) = target \o <<blank, colon>> \o Without(text, Breaks)
  BY <1>8, <1>9, <1>10, Zenon
<1>. QED BY <1>11, Zenon DEF SanitizeMessageText, Breaks, IsAddress

\* The line that Reply::command() writes for others.
LEMMA CommandWritten ==
  ASSUME NEW prefix, NEW command, NEW parameters, NEW safe,
         IsSafeToken(prefix), IsSafeToken(<<command>>),
         safe = SanitizeMessageText(parameters), safe # <<>>,
         NEW blank, IsBlank(blank), NEW colon, IsColon(colon)
  PROVE  IsWritten(Command(prefix, <<command>>, parameters), prefix, command, safe, blank,
                   colon)
BY Zenon DEF Command, IsBlank, IsColon, IsWritten

\* One symbol that is neither blank nor colon is a safe token.
LEMMA SymbolIsSafe ==
  ASSUME NEW symbol, IsPlain(symbol)
  PROVE  IsSafeToken(<<symbol>>)
<1>1. PICK t : t = <<symbol>>
  OBVIOUS
<1>2. t # <<>> /\ DOMAIN t = {1} /\ t[1] = symbol
  BY <1>1
<1>3. \A c \in {" ", "CR", "LF", "NUL"} : ~Has(t, c)
  BY <1>2, Zenon DEF Has, IsPlain, Breaks
<1>. QED BY <1>1, <1>2, <1>3, Zenon DEF IsSafeToken, IsPlain

\* A line for a target, place by place.
Delivered(line, Symbol, prefix, command, target, clean, safe, blank, colon, n, m, l, t, x) ==
  /\ line \in Seq(Symbol) /\ clean \in Seq(Symbol) /\ safe \in Seq(Symbol)
  /\ n \in Nat /\ m \in Nat /\ l \in Nat /\ t \in Nat /\ x \in Nat
  /\ Relayed(line, n, colon, prefix, m, blank, command, safe, l)
  /\ Addressed(safe, target, t, blank, colon, clean, x, l)
  /\ \A k \in 1..l : safe[k] \notin Breaks

LEMMA DeliveredLine ==
  ASSUME NEW Symbol, NEW prefix \in Seq(Symbol), IsSafeToken(prefix),
         NEW command \in Symbol, IsPlain(command),
         NEW target \in Seq(Symbol), IsSafeToken(target), NEW text \in Seq(Symbol),
         NEW blank \in Symbol, IsBlank(blank), NEW colon \in Symbol, IsColon(colon),
         NEW line, line = Command(prefix, <<command>>, target \o <<blank, colon>> \o text),
         NEW clean, clean = SanitizeMessageText(text)
  PROVE  \E safe, n, m, l, t, x :
           Delivered(line, Symbol, prefix, command, target, clean, safe, blank, colon,
                     n, m, l, t, x)
<1>1. PICK parameters : IsAddress(parameters, target, text, blank, colon)
  BY DEF IsAddress
<1>2. PICK safe : safe = SanitizeMessageText(parameters)
  OBVIOUS
<1>3. \A j \in 1..Len(target) : target[j] \notin Breaks
  BY TokenIsSafe
<1>4. IsAddress(safe, target, clean, blank, colon)
  BY <1>1, <1>2, <1>3, AddressSanitized, Zenon
<1>5. clean \in Seq(Symbol)
  <2>1. Without(text, Breaks) \in Seq(Symbol)
    BY SanitizedType
  <2>. QED BY <2>1, Zenon DEF SanitizeMessageText, Breaks
<1>6. PICK t, x, l \in Nat : Addressed(safe, target, t, blank, colon, clean, x, l)
  <2>1. safe = target \o <<blank, colon>> \o clean
    BY <1>4 DEF IsAddress
  <2>. QED BY <1>5, <2>1, AddressedText
<1>7. safe \in Seq(Symbol) /\ safe # <<>>
  <2>1. safe \in Seq(Symbol)
    <3>1. safe = target \o <<blank, colon>> \o clean
      BY <1>4 DEF IsAddress
    <3>. QED BY <1>5, <3>1, AddressedText
  <2>2. Len(safe) # 0
    BY <1>6 DEF Addressed
  <2>. QED BY <2>1, <2>2, NotEmpty
<1>8. IsWritten(line, prefix, command, safe, blank, colon)
  <2>1. IsSafeToken(<<command>>)
    BY SymbolIsSafe
  <2>2. line = Command(prefix, <<command>>, parameters)
    BY <1>1, Zenon DEF IsAddress
  <2>. QED BY <1>2, <1>7, <2>1, <2>2, CommandWritten, Zenon
<1>9. line \in Seq(Symbol)
  BY <1>7, <1>8, RelayedLine, Zenon DEF IsWritten
<1>10. PICK n, m, k \in Nat : Relayed(line, n, colon, prefix, m, blank, command, safe, k)
  BY <1>7, <1>8, RelayedLine, Zenon DEF IsWritten
<1>11. k = l
  BY <1>6, <1>10 DEF Relayed, Addressed
<1>12. \A j \in 1..l : safe[j] \notin Breaks
  <2>1. PICK parts \in Seq(Symbol) : parts = parameters
    <3>1. PICK b : b = <<blank, colon>>
      OBVIOUS
    <3>2. b \in Seq(Symbol)
      BY <3>1
    <3>3. PICK front : IsJoined(front, target, b)
      BY DEF IsJoined
    <3>4. front \in Seq(Symbol)
      BY <3>2, <3>3, Laid DEF IsLaid
    <3>5. IsJoined(parameters, front, text)
      BY <1>1, <3>1, <3>3, Zenon DEF IsJoined, IsAddress
    <3>6. parameters \in Seq(Symbol)
      BY <3>4, <3>5, Laid DEF IsLaid
    <3>. QED BY <3>6
  <2>2. \A c \in Breaks : ~Has(Without(parts, Breaks), c)
    BY SanitizedType
  <2>3. Without(parts, Breaks) = safe
    BY <1>2, <2>1, Zenon DEF SanitizeMessageText, Breaks
  <2>4. DOMAIN safe = 1..Len(safe) /\ Len(safe) = l
    <3>1. Len(safe) = l
      BY <1>6 DEF Addressed
    <3>. QED BY <1>7, <3>1, DomainOf
  <2>. QED BY <2>2, <2>3, <2>4, Zenon DEF Has
<1>13. Delivered(line, Symbol, prefix, command, target, clean, safe, blank, colon, n, m, l, t, x)
  BY <1>5, <1>6, <1>7, <1>9, <1>10, <1>11, <1>12, Zenon DEF Delivered
<1>. QED BY <1>13

\* Nothing in it breaks it.
LEMMA DeliveredWhole ==
  ASSUME NEW Symbol, NEW prefix \in Seq(Symbol), IsSafeToken(prefix),
         NEW command \in Symbol, IsPlain(command), NEW target, NEW clean, NEW safe,
         NEW blank \in Symbol, IsBlank(blank), NEW colon \in Symbol, IsColon(colon),
         NEW line, NEW n, NEW m, NEW l, NEW t, NEW x,
         Delivered(line, Symbol, prefix, command, target, clean, safe, blank, colon,
                   n, m, l, t, x)
  PROVE  \A c \in Breaks : ~Has(line, c)
<1>1. /\ line \in Seq(Symbol) /\ n \in Nat /\ m \in Nat /\ l \in Nat
      /\ Relayed(line, n, colon, prefix, m, blank, command, safe, l)
      /\ \A k \in 1..l : safe[k] \notin Breaks
  BY DEF Delivered
<1>2. /\ n = Len(line) /\ m = Len(prefix) /\ n = m + 4 + l
      /\ line[1] = colon /\ \A k \in 1..m : line[1 + k] = prefix[k]
      /\ line[m + 2] = blank /\ line[m + 3] = command /\ line[m + 4] = blank
      /\ \A k \in 1..l : line[m + 4 + k] = safe[k]
  BY <1>1 DEF Relayed
<1>3. blank \notin Breaks /\ colon \notin Breaks
  BY Blanks
<1>4. command \notin Breaks
  BY Zenon DEF IsPlain
<1>5. \A k \in 1..m : prefix[k] \notin Breaks
  BY <1>2, TokenIsSafe
<1>6. ASSUME NEW j \in 1..n PROVE line[j] \notin Breaks
  <2>1. \/ j = 1 \/ j = m + 2 \/ j = m + 3 \/ j = m + 4
        \/ \E k \in 1..m : j = 1 + k
        \/ \E k \in 1..l : j = m + 4 + k
    <3>1. j \in 2..m + 1 => j - 1 \in 1..m /\ j = 1 + (j - 1)
      BY <1>1
    <3>2. j \in m + 5..n => j - (m + 4) \in 1..l /\ j = m + 4 + (j - (m + 4))
      BY <1>1, <1>2
    <3>3. j = 1 \/ j \in 2..m + 1 \/ j = m + 2 \/ j = m + 3 \/ j = m + 4 \/ j \in m + 5..n
      BY <1>1
    <3>. QED BY <3>1, <3>2, <3>3
  <2>2. CASE j = 1 \/ j = m + 2 \/ j = m + 3 \/ j = m + 4
    BY <1>2, <1>3, <1>4, <2>2
  <2>3. ASSUME NEW k \in 1..m, j = 1 + k PROVE line[j] \notin Breaks
    BY <1>2, <1>5, <2>3
  <2>4. ASSUME NEW k \in 1..l, j = m + 4 + k PROVE line[j] \notin Breaks
    BY <1>1, <1>2, <2>4
  <2>. QED BY <2>1, <2>2, <2>3, <2>4, Zenon
<1>7. DOMAIN line = 1..n
  BY <1>1, <1>2, DomainOf, Zenon
<1>. QED BY <1>6, <1>7, Zenon DEF Has

\* What a reader with the server's parser finds in it.
IsReadAs(line, maxParams, prefix, command, target, clean) ==
  Parse(line, maxParams) = {[prefix |-> prefix, command |-> <<command>>, params |-> <<target, clean>>]}

LEMMA TwoParams ==
  ASSUME NEW target, NEW clean, NEW maxParams \in Nat, maxParams >= 2
  PROVE  ~(Len(<<target, clean>>) > maxParams)
OBVIOUS

LEMMA DeliveredRead ==
  ASSUME NEW Symbol, NEW prefix \in Seq(Symbol), IsSafeToken(prefix),
         NEW command \in Symbol, IsPlain(command),
         NEW target \in Seq(Symbol), IsSafeToken(target), NEW clean, NEW safe,
         NEW blank \in Symbol, IsBlank(blank), NEW colon \in Symbol, IsColon(colon),
         NEW line, NEW n, NEW m, NEW l, NEW t, NEW x,
         Delivered(line, Symbol, prefix, command, target, clean, safe, blank, colon,
                   n, m, l, t, x),
         NEW maxParams \in Nat, maxParams >= 2
  PROVE  IsReadAs(line, maxParams, prefix, command, target, clean)
<1>1. /\ line \in Seq(Symbol) /\ clean \in Seq(Symbol) /\ safe \in Seq(Symbol)
      /\ n \in Nat /\ m \in Nat /\ l \in Nat /\ t \in Nat /\ x \in Nat
      /\ Relayed(line, n, colon, prefix, m, blank, command, safe, l)
      /\ Addressed(safe, target, t, blank, colon, clean, x, l)
  BY DEF Delivered
<1>2. /\ n = Len(line) /\ m = Len(prefix) /\ n = m + 4 + l
      /\ line[m + 4] = blank
      /\ \A k \in 1..l : line[m + 4 + k] = safe[k]
  BY <1>1 DEF Relayed
<1>3. t = Len(target)
  BY <1>1 DEF Addressed
<1>4. prefix # <<>> /\ \A k \in 1..m : prefix[k] # blank
  BY <1>2, TokenIsSafe
<1>5. target # <<>> /\ target[1] # colon /\ \A k \in 1..t : target[k] # blank
  BY <1>3, TokenIsSafe
<1>6. command # blank
  BY Zenon DEF IsPlain, IsBlank
<1>7. PICK e \in Nat : e = m + 4 /\ e # 0
  BY <1>1
<1>8. IsMessage(Parse(line, maxParams), line, maxParams, prefix, <<command>>, Params(line, e))
  <2>1. /\ line \in Seq(Symbol) /\ safe \in Seq(Symbol) /\ n \in Nat /\ m \in Nat /\ l \in Nat
        /\ Relayed(line, n, colon, prefix, m, blank, command, safe, l)
    BY <1>1
  <2>2. e = m + 4
    BY <1>7
  <2>. QED BY <1>4, <1>6, <2>1, <2>2, RelayedParsed
<1>9. IsPair(Params(line, e), target, clean)
  <2>1. EndsWith(line, n, e, blank, safe, l)
    BY <1>1, <1>2, <1>7 DEF EndsWith
  <2>. QED BY <1>1, <1>5, <2>1, AddressedParams
<1>10. ~Has(line, "NUL")
  <2>1. \A c \in Breaks : ~Has(line, c)
    BY DeliveredWhole
  <2>. QED BY <2>1, Zenon DEF Breaks
<1>11. ~(Len(<<target, clean>>) > maxParams)
  BY TwoParams
<1>. QED BY <1>8, <1>9, <1>10, <1>11, Zenon DEF IsMessage, IsReadAs, IsPair

LEMMA SecondOf ==
  ASSUME NEW T, NEW params \in Seq(T), ~(Len(params) < 2)
  PROVE  params[2] \in T
<1>1. 2 \in 1..Len(params)
  OBVIOUS
<1>. QED BY <1>1

LEMMA SenderIsSafe == IsSafeToken(Sender)
<1>1. PICK s : s = Sender
  OBVIOUS
<1>2. /\ s # <<>> /\ s[1] = "alice" /\ s[2] = ":" /\ s[3] = ":" /\ s[4] = "1"
      /\ DOMAIN s = 1..4
  BY <1>1 DEF Sender
<1>3. \A j \in 1..4 : j = 1 \/ j = 2 \/ j = 3 \/ j = 4
  OBVIOUS
<1>4. \A c \in {" ", "CR", "LF", "NUL"} : ~Has(s, c)
  BY <1>2, <1>3 DEF Has
<1>. QED BY <1>1, <1>2, <1>4 DEF IsSafeToken

LEMMA NextPlaces ==
  ASSUME NEW Symbol, NEW line \in Seq(Symbol), NEW n \in Nat, n = Len(line),
         NEW place \in 1..n + 1
  PROVE  NextWord(line, place) \in 1..n + 1 /\ NextSpace(line, place) \in 1..n + 1
<1>1. PICK from \in 1..Len(line) + 1 : from = place
  OBVIOUS
<1>2. NextWord(line, place) \in from..n + 1
  <2>1. IsNextWord(line, from, NextWord(line, from))
    BY NextWordFound
  <2>. QED BY <1>1, <2>1, Zenon DEF IsNextWord, IsNextOther
<1>3. NextSpace(line, place) \in from..n + 1
  <2>1. IsNextOf(line, from, " ", NextOf(line, from, " "))
    BY NextOfFound
  <2>. QED BY <1>1, <2>1, Zenon DEF IsNextOf, NextSpace
<1>4. \A j \in from..n + 1 : j \in 1..n + 1
  OBVIOUS
<1>. QED BY <1>2, <1>3, <1>4, Zenon

\* The parameters of a message are texts.
LEMMA ParamsType ==
  ASSUME NEW Symbol, NEW line \in Seq(Symbol), NEW maxParams,
         NEW message \in Parse(line, maxParams)
  PROVE  message.params \in Seq(Seq(Symbol))
<1>1. PICK n \in Nat : n = Len(line)
  OBVIOUS
<1>2. PICK first \in 1..n + 1 : first = NextWord(line, 1)
  <2>1. PICK one \in 1..n + 1 : one = 1
    OBVIOUS
  <2>. QED BY <1>1, <2>1, NextPlaces
<1>3. PICK prefixed : prefixed = (first <= Len(line) /\ line[first] = ":")
  OBVIOUS
<1>4. PICK prefixEnd \in 1..n + 1 : prefixEnd = IF prefixed THEN NextSpace(line, first) ELSE first
  <2>1. NextSpace(line, first) \in 1..n + 1
    BY <1>1, NextPlaces
  <2>. QED BY <2>1, Zenon
<1>5. PICK start \in 1..n + 1 : start = NextWord(line, prefixEnd)
  BY <1>1, NextPlaces
<1>6. PICK end \in 1..n + 1 : end = NextSpace(line, start)
  BY <1>1, NextPlaces
<1>7. IsParsed(Parse(line, maxParams), line, maxParams, first, prefixed, prefixEnd, start, end)
  <2>1. ParsePlaces(line, first, prefixed, prefixEnd, start, end)
    BY <1>2, <1>3, <1>4, <1>5, <1>6, Zenon DEF ParsePlaces
  <2>. QED BY <2>1, Parsed, Zenon
<1>8. message.params = Params(line, end)
  <2>1. PICK part : part = IF prefixed THEN SubSeq(line, first + 1, prefixEnd - 1) ELSE <<>>
    OBVIOUS
  <2>2. PICK word : word = SubSeq(line, start, end - 1)
    OBVIOUS
  <2>3. message = [prefix |-> part, command |-> word, params |-> Params(line, end)]
    BY <1>7, <2>1, <2>2, Zenon DEF IsParsed
  <2>4. PICK params : params = Params(line, end)
    OBVIOUS
  <2>. QED BY <2>3, <2>4
<1>9. Params(line, end) \in Seq(Seq(Symbol))
  <2>1. PICK from \in 1..Len(line) + 1 : from = end
    BY <1>1
  <2>2. PICK next : IsNextWord(line, from, next)
    BY NextWordFound
  <2>. QED BY <2>1, <2>2, ParamsRead
<1>. QED BY <1>8, <1>9

LEMMA NoneOf ==
  ASSUME NEW list, list = <<>>
  PROVE  DOMAIN list = {}
OBVIOUS

LEMMA OneOf ==
  ASSUME NEW first, NEW list, list = <<first>>
  PROVE  DOMAIN list = {1} /\ list[1] = first
OBVIOUS

LEMMA OnlyOne ==
  ASSUME NEW first, NEW list, list = [j \in {1} |-> first]
  PROVE  list = <<first>>
<1>1. {1} = 1..1
  OBVIOUS
<1>2. PICK other : other = <<first>>
  OBVIOUS
<1>3. other = [j \in 1..1 |-> first]
  BY <1>2
<1>. QED BY <1>1, <1>2, <1>3, Zenon

\* Relays.
LEMMA RelayAlwaysFaithful ==
  ASSUME NEW Symbol, " " \in Symbol, ":" \in Symbol, "PRIVMSG" \in Symbol,
         NEW line \in Seq(Symbol), NEW known,
         \A target \in DOMAIN known : known[target] \in Seq(Symbol) /\ IsSafeToken(known[target]),
         Sender \in Seq(Symbol), NEW maxParams \in Nat, maxParams >= 2
  PROVE  RelayIsFaithful(line, known, maxParams)
<1>1. PICK blank \in Symbol : IsBlank(blank)
  BY Zenon DEF IsBlank
<1>2. PICK colon \in Symbol : IsColon(colon)
  BY Zenon DEF IsColon
<1>3. PICK command \in Symbol : command = "PRIVMSG"
  OBVIOUS
<1>4. IsPlain(command)
  BY <1>3 DEF IsPlain, Breaks
<1>5. PICK sender \in Seq(Symbol) : sender = Sender
  OBVIOUS
<1>6. IsSafeToken(sender)
  BY <1>5, SenderIsSafe
<1>7. ASSUME NEW message \in Parse(line, maxParams), ~(Len(message.params) < 2)
      PROVE  message.params[2] \in Seq(Symbol)
  <2>1. PICK params \in Seq(Seq(Symbol)) : params = message.params
    BY ParamsType
  <2>2. ~(Len(params) < 2)
    BY <1>7, <2>1, Zenon
  <2>3. params[2] \in Seq(Symbol)
    BY <2>2, SecondOf, Zenon
  <2>. QED BY <2>1, <2>3, Zenon
<1>8. ASSUME NEW message \in Parse(line, maxParams), message.command = <<"PRIVMSG">>,
             NEW relays, relays = Privmsg(message, known, Sender),
             NEW targets, targets = SplitCommaList(message.params[1]),
             NEW j \in DOMAIN relays, targets[j] \in DOMAIN known
      PROVE  /\ ~Has(relays[j], "CR") /\ ~Has(relays[j], "LF")
             /\ Parse(relays[j], maxParams) =
                  {[prefix |-> Sender, command |-> <<"PRIVMSG">>,
                    params |-> <<known[targets[j]],
                                 SanitizeMessageText(message.params[2])>>]}
  <2>1. ~(Len(message.params) < 2) /\ message.params[2] # <<>>
    <3>1. ASSUME Len(message.params) < 2 \/ message.params[2] = <<>> PROVE FALSE
      <4>1. relays = <<>>
        BY <1>8, <3>1, Zenon DEF Privmsg
      <4>. QED BY <1>8, <4>1, NoneOf, Zenon
    <3>. QED BY <3>1, Zenon
  <2>2. PICK relayed, target :
          /\ relayed = relays[j] /\ target = known[targets[j]]
          /\ target \in Seq(Symbol) /\ IsSafeToken(target)
          /\ relayed = Command(Sender, <<"PRIVMSG">>,
                               target \o <<" ", ":">> \o message.params[2])
    <3>1. PICK sent : sent = [i \in DOMAIN targets |->
             IF targets[i] \in DOMAIN known
             THEN Command(Sender, <<"PRIVMSG">>,
                          known[targets[i]] \o <<" ", ":">> \o message.params[2])
             ELSE <<>>]
      OBVIOUS
    <3>2. relays = sent
      BY <1>8, <2>1, <3>1, Zenon DEF Privmsg
    <3>3. sent[j] = Command(Sender, <<"PRIVMSG">>,
                            known[targets[j]] \o <<" ", ":">> \o message.params[2])
      BY <1>8, <3>1, <3>2, Zenon
    <3>. QED BY <1>8, <3>2, <3>3, Zenon
  <2>3. PICK text \in Seq(Symbol) : text = message.params[2]
    BY <1>7, <1>8, <2>1, Zenon
  <2>4. PICK aim \in Seq(Symbol) : aim = target /\ IsSafeToken(aim)
    BY <2>2, Zenon
  <2>5. relayed = Command(sender, <<command>>, aim \o <<blank, colon>> \o text)
    BY <1>1, <1>2, <1>3, <1>5, <2>2, <2>3, <2>4, Zenon DEF IsBlank, IsColon
  <2>6. PICK clean : clean = SanitizeMessageText(text)
    OBVIOUS
  <2>7. PICK safe, n, m, l, t, x :
           Delivered(relayed, Symbol, sender, command, aim, clean, safe, blank, colon,
                     n, m, l, t, x)
    BY <1>1, <1>2, <1>4, <1>6, <2>4, <2>5, <2>6, DeliveredLine
  <2>8. \A c \in Breaks : ~Has(relayed, c)
    BY <1>1, <1>2, <1>4, <1>6, <2>7, DeliveredWhole
  <2>9. IsReadAs(relayed, maxParams, sender, command, aim, clean)
    BY <1>1, <1>2, <1>4, <1>6, <2>4, <2>7, DeliveredRead
  <2>. QED BY <1>3, <1>5, <2>2, <2>3, <2>4, <2>6, <2>8, <2>9, Zenon DEF IsReadAs, Breaks
<1>. QED BY <1>8, Zenon DEF RelayIsFaithful

\* A short text is a text.
LEMMA ShortTexts ==
  ASSUME NEW S, NEW n \in Nat, NEW text \in BoundedSeq(S, n), NEW T, S \subseteq T
  PROVE  text \in Seq(T)
<1>1. PICK m \in 0..n : text \in [1..m -> S]
  BY DEF BoundedSeq, SeqOf
<1>2. text \in [1..m -> T]
  BY <1>1
<1>. QED BY <1>2

LEMMA ShortLists ==
  ASSUME NEW T, NEW a \in T, NEW b \in T, NEW c \in T, NEW d \in T
  PROVE  /\ <<a>> \in Seq(T) /\ <<a, b>> \in Seq(T) /\ <<a, b, c>> \in Seq(T)
         /\ <<a, b, c, d>> \in Seq(T)
OBVIOUS

\* The symbols of the lines that users cause one another to read.
Alphabet == {" ", ":", "PRIVMSG", "alice", "1"}
MCSymbol ==
  Alphabet \cup {",", "CR", "LF", "NUL", "TAB", "#c", "#C", "x", "JOIN", "MODE", "+k"}

LEMMA SenderType ==
  ASSUME NEW Symbol, Alphabet \subseteq Symbol
  PROVE  Sender \in Seq(Symbol)
<1>1. "alice" \in Symbol /\ ":" \in Symbol /\ "1" \in Symbol
  BY Zenon DEF Alphabet
<1>. QED BY <1>1, ShortLists, Zenon DEF Sender

\* The channels of the run.
LEMMA ChannelsAreSafe ==
  /\ DOMAIN MCChannels = {<<"#c">>, <<"#C">>}
  /\ \A target \in DOMAIN MCChannels : MCChannels[target] = <<"#c">>
  /\ <<"#c">> \in {t \in Seq(MCSymbol) : IsSafeToken(t)}
  /\ <<"#C">> \in {t \in Seq(MCSymbol) : IsSafeToken(t)}
  /\ MCMaxParams \in Nat /\ MCMaxParams >= 2
<1>1. "#c" \in MCSymbol /\ "#C" \in MCSymbol
  BY Zenon DEF MCSymbol
<1>2. <<"#c">> \in Seq(MCSymbol) /\ <<"#C">> \in Seq(MCSymbol)
  BY <1>1, ShortLists, Zenon
<1>3. IsPlain("#c") /\ IsPlain("#C")
  BY DEF IsPlain, Breaks
<1>4. IsSafeToken(<<"#c">>) /\ IsSafeToken(<<"#C">>)
  BY <1>3, SymbolIsSafe, Zenon
<1>5. MCMaxParams \in Nat /\ MCMaxParams >= 2
  BY DEF MCMaxParams
<1>6. /\ DOMAIN MCChannels = {<<"#c">>, <<"#C">>}
      /\ \A target \in DOMAIN MCChannels : MCChannels[target] = <<"#c">>
  BY Zenon DEF MCChannels
<1>. QED BY <1>2, <1>4, <1>5, <1>6, Zenon

\* Whatever line a client sends, to whichever targets, what the IRC server
\* writes for the others is one line, and a reader with its own parser finds
\* the sender, the target and the text in it: for every alphabet and every
\* line, however long, and so for the run's short lines.
THEOREM RelaysAreAlwaysFaithful ==
  /\ \A Symbol : Alphabet \subseteq Symbol =>
       \A line \in Seq(Symbol), maxParams \in Nat : maxParams >= 2 =>
         \A known :
           (\A target \in DOMAIN known :
              known[target] \in {t \in Seq(Symbol) : IsSafeToken(t)}) =>
             RelayIsFaithful(line, known, maxParams)
  /\ MCSpec => []RelaysAreFaithful
<1>1. ASSUME NEW Symbol, Alphabet \subseteq Symbol, NEW line \in Seq(Symbol),
             NEW maxParams \in Nat, maxParams >= 2, NEW known,
             \A target \in DOMAIN known :
               known[target] \in {t \in Seq(Symbol) : IsSafeToken(t)}
      PROVE  RelayIsFaithful(line, known, maxParams)
  <2>1. " " \in Symbol /\ ":" \in Symbol /\ "PRIVMSG" \in Symbol
    BY <1>1, Zenon DEF Alphabet
  <2>2. Sender \in Seq(Symbol)
    BY <1>1, SenderType
  <2>3. \A target \in DOMAIN known :
          known[target] \in Seq(Symbol) /\ IsSafeToken(known[target])
    BY <1>1, Zenon
  <2>. QED BY <1>1, <2>1, <2>2, <2>3, RelayAlwaysFaithful, Zenon
<1>2. ASSUME NEW rest \in BoundedSeq({" ", ":", ",", "CR", "#c", "x"}, 6)
      PROVE  RelayIsFaithful(<<"PRIVMSG", " ", "#C">> \o rest, MCChannels, MCMaxParams)
  <2>1. PICK r \in Seq(MCSymbol) : r = rest
    <3>1. {" ", ":", ",", "CR", "#c", "x"} \subseteq MCSymbol
      BY Zenon DEF MCSymbol, Alphabet
    <3>2. 6 \in Nat
      OBVIOUS
    <3>. QED BY <3>1, <3>2, ShortTexts, Zenon
  <2>2. PICK head \in Seq(MCSymbol) : head = <<"PRIVMSG", " ", "#C">>
    <3>1. "PRIVMSG" \in MCSymbol /\ " " \in MCSymbol /\ "#C" \in MCSymbol
      BY Zenon DEF MCSymbol, Alphabet
    <3>. QED BY <3>1, ShortLists, Zenon
  <2>3. PICK line : IsJoined(line, head, r)
    BY DEF IsJoined
  <2>4. line \in Seq(MCSymbol)
    BY <2>3, Laid DEF IsLaid
  <2>5. Alphabet \subseteq MCSymbol
    BY Zenon DEF MCSymbol
  <2>6. RelayIsFaithful(line, MCChannels, MCMaxParams)
    BY <1>1, <2>4, <2>5, ChannelsAreSafe, Zenon
  <2>. QED BY <2>1, <2>2, <2>3, <2>6, Zenon DEF IsJoined
<1>3. RelaysAreFaithful
  BY <1>2 DEF RelaysAreFaithful, EveryRelay
<1>4. MCSpec => []RelaysAreFaithful
  BY <1>3, PTL
<1>. QED BY <1>1, <1>4, Zenon

-----------------------------------------------------------------------------
(***************************************************************************)
(* A line without a prefix                                                 *)
(***************************************************************************)

IsPlainLine(line, command, target, text, blank, colon) ==
  line = <<command, blank>> \o target \o <<blank, colon>> \o text

\* The line of a client: a command, a target and a text, place by place.
Sent(line, Symbol, n, command, blank, safe, l) ==
  /\ line \in Seq(Symbol) /\ safe \in Seq(Symbol) /\ n \in Nat /\ l \in Nat
  /\ n = Len(line) /\ l = Len(safe) /\ n = 2 + l /\ line[1] = command /\ line[2] = blank
  /\ \A k \in 1..l : line[2 + k] = safe[k]

LEMMA SentLine ==
  ASSUME NEW Symbol, NEW command \in Symbol, NEW target \in Seq(Symbol),
         NEW text \in Seq(Symbol), NEW blank \in Symbol, NEW colon \in Symbol,
         NEW line, IsPlainLine(line, command, target, text, blank, colon)
  PROVE  \E safe, n, l, t, x :
           /\ Sent(line, Symbol, n, command, blank, safe, l)
           /\ t \in Nat /\ x \in Nat
           /\ Addressed(safe, target, t, blank, colon, text, x, l)
<1>1. PICK head : head = <<command, blank>>
  OBVIOUS
<1>2. PICK b : b = <<blank, colon>>
  OBVIOUS
<1>3. /\ head \in Seq(Symbol) /\ Len(head) = 2 /\ head[1] = command /\ head[2] = blank
      /\ b \in Seq(Symbol) /\ Len(b) = 2 /\ b[1] = blank /\ b[2] = colon
  BY <1>1, <1>2
<1>4. PICK safe : IsAddress(safe, target, text, blank, colon)
  BY DEF IsAddress
<1>5. safe \in Seq(Symbol)
  BY <1>4, AddressedText, Zenon DEF IsAddress
<1>6. PICK t, x, l \in Nat : Addressed(safe, target, t, blank, colon, text, x, l)
  BY <1>4, AddressedText, Zenon DEF IsAddress
<1>7. PICK a1 : IsJoined(a1, head, target)
  BY DEF IsJoined
<1>8. PICK a2 : IsJoined(a2, a1, b)
  BY DEF IsJoined
<1>9. IsJoined(line, a2, text)
  BY <1>1, <1>2, <1>7, <1>8, Zenon DEF IsPlainLine, IsJoined
<1>10. /\ t = Len(target) /\ x = Len(text) /\ l = Len(safe) /\ l = t + 2 + x
       /\ \A k \in 1..t : safe[k] = target[k]
       /\ safe[t + 1] = blank /\ safe[t + 2] = colon
       /\ \A k \in 1..x : safe[t + 2 + k] = text[k]
  BY <1>6 DEF Addressed
<1>11. /\ a1 \in Seq(Symbol) /\ Len(a1) = t + 2 /\ a1[1] = command /\ a1[2] = blank
       /\ \A k \in 1..t : a1[2 + k] = target[k]
  <2>1. IsLaid(Symbol, a1, head, target)
    BY <1>3, <1>7, Laid
  <2>2. /\ a1 \in Seq(Symbol) /\ Len(a1) = Len(head) + Len(target)
        /\ \A k \in 1..Len(head) : a1[k] = head[k]
        /\ \A k \in 1..Len(target) : a1[Len(head) + k] = target[k]
    BY <2>1 DEF IsLaid
  <2>3. 1 \in 1..2 /\ 2 \in 1..2
    OBVIOUS
  <2>. QED BY <1>3, <1>10, <2>2, <2>3
<1>12. /\ a2 \in Seq(Symbol) /\ Len(a2) = t + 4
       /\ \A k \in 1..t + 2 : a2[k] = a1[k]
       /\ a2[t + 3] = blank /\ a2[t + 4] = colon
  <2>1. IsLaid(Symbol, a2, a1, b)
    BY <1>3, <1>8, <1>11, Laid
  <2>2. /\ a2 \in Seq(Symbol) /\ Len(a2) = Len(a1) + Len(b)
        /\ \A k \in 1..Len(a1) : a2[k] = a1[k]
        /\ \A k \in 1..Len(b) : a2[Len(a1) + k] = b[k]
    BY <2>1 DEF IsLaid
  <2>3. 1 \in 1..Len(b) /\ 2 \in 1..Len(b) /\ Len(a1) = t + 2
    BY <1>3, <1>11
  <2>4. Len(a1) + 1 = t + 3 /\ Len(a1) + 2 = t + 4
    BY <2>3
  <2>. QED BY <1>3, <2>2, <2>3, <2>4
<1>13. /\ line \in Seq(Symbol) /\ Len(line) = 2 + l
       /\ \A k \in 1..t + 4 : line[k] = a2[k]
       /\ \A k \in 1..x : line[t + 4 + k] = text[k]
  <2>1. IsLaid(Symbol, line, a2, text)
    BY <1>9, <1>12, Laid
  <2>2. /\ line \in Seq(Symbol) /\ Len(line) = Len(a2) + Len(text)
        /\ \A k \in 1..Len(a2) : line[k] = a2[k]
        /\ \A k \in 1..Len(text) : line[Len(a2) + k] = text[k]
    BY <2>1 DEF IsLaid
  <2>3. Len(a2) = t + 4 /\ Len(text) = x /\ l = t + 2 + x
    BY <1>10, <1>12
  <2>. QED BY <2>2, <2>3
<1>14. line[1] = command /\ line[2] = blank
  <2>1. 1 \in 1..t + 2 /\ 2 \in 1..t + 2 /\ 1 \in 1..t + 4 /\ 2 \in 1..t + 4
    OBVIOUS
  <2>. QED BY <1>11, <1>12, <1>13, <2>1
<1>15. ASSUME NEW k \in 1..l PROVE line[2 + k] = safe[k]
  <2>1. CASE k \in 1..t
    <3>1. 2 + k \in 1..t + 2 /\ 2 + k \in 1..t + 4
      BY <2>1
    <3>. QED BY <1>10, <1>11, <1>12, <1>13, <2>1, <3>1
  <2>2. CASE k = t + 1
    <3>1. 2 + k = t + 3 /\ t + 3 \in 1..t + 4
      BY <2>2
    <3>. QED BY <1>10, <1>12, <1>13, <2>2, <3>1
  <2>3. CASE k = t + 2
    <3>1. 2 + k = t + 4 /\ t + 4 \in 1..t + 4
      BY <2>3
    <3>. QED BY <1>10, <1>12, <1>13, <2>3, <3>1
  <2>4. CASE k > t + 2
    <3>1. l = t + 2 + x
      BY <1>10
    <3>2. k - (t + 2) \in 1..x /\ 2 + k = t + 4 + (k - (t + 2)) /\ k = t + 2 + (k - (t + 2))
      BY <2>4, <3>1
    <3>3. PICK j \in 1..x : 2 + k = t + 4 + j /\ k = t + 2 + j
      BY <3>2, Zenon
    <3>4. line[t + 4 + j] = text[j] /\ safe[t + 2 + j] = text[j]
      BY <1>10, <1>13
    <3>. QED BY <3>3, <3>4, Zenon
  <2>. QED BY <2>1, <2>2, <2>3, <2>4
<1>16. PICK n \in Nat : n = 2 + l
  OBVIOUS
<1>17. Sent(line, Symbol, n, command, blank, safe, l)
  BY <1>5, <1>10, <1>13, <1>14, <1>15, <1>16 DEF Sent
<1>. QED BY <1>6, <1>17

\* What the server's parser finds in it.
IsSentAs(line, maxParams, command, target, text) ==
  Parse(line, maxParams) =
    IF Has(line, "NUL") \/ Len(<<target, text>>) > maxParams THEN {}
    ELSE {[prefix |-> <<>>, command |-> <<command>>, params |-> <<target, text>>]}

LEMMA SentParsed ==
  ASSUME NEW Symbol, NEW command \in Symbol, IsPlain(command),
         NEW target \in Seq(Symbol), IsSafeToken(target), NEW text \in Seq(Symbol),
         NEW blank \in Symbol, IsBlank(blank), NEW colon \in Symbol, IsColon(colon),
         NEW line, NEW safe, NEW n, NEW l, NEW t \in Nat, NEW x \in Nat,
         Sent(line, Symbol, n, command, blank, safe, l),
         Addressed(safe, target, t, blank, colon, text, x, l), NEW maxParams
  PROVE  IsSentAs(line, maxParams, command, target, text)
<1>1. /\ line \in Seq(Symbol) /\ safe \in Seq(Symbol) /\ n \in Nat /\ l \in Nat
      /\ n = Len(line) /\ l = Len(safe) /\ n = 2 + l /\ line[1] = command /\ line[2] = blank
      /\ \A k \in 1..l : line[2 + k] = safe[k]
  BY DEF Sent
<1>2. command # blank /\ command # colon /\ command # ":"
  BY Zenon DEF IsPlain, IsBlank, IsColon
<1>3. line # <<>>
  <2>1. Len(line) # 0
    BY <1>1
  <2>. QED BY <1>1, <2>1, NotEmpty, Zenon
<1>4. IsNextWord(line, 1, 1) /\ 1 <= Len(line)
  BY <1>1, <1>2, <1>3, FirstWord, Zenon
<1>5. PICK e \in Nat : e = 2
  OBVIOUS
<1>6. e = NextSpace(line, 1)
  <2>1. PICK one \in 1..Len(line) + 1 : one = 1
    BY <1>1
  <2>2. IsNextOf(line, one, blank, e)
    <3>1. e \in one..Len(line) + 1 /\ line[e] = blank
      BY <1>1, <1>5, <2>1
    <3>2. ASSUME NEW earlier \in one..e - 1 PROVE line[earlier] # blank
      <4>1. earlier = 1
        BY <1>5, <2>1
      <4>. QED BY <1>1, <1>2, <4>1
    <3>. QED BY <3>1, <3>2 DEF IsNextOf
  <2>3. NextOf(line, one, blank) = e
    BY <1>1, <2>2, NextOfIs
  <2>. QED BY <2>1, <2>3, Zenon DEF NextSpace, IsBlank
<1>7. SubSeq(line, 1, e - 1) = <<command>>
  <2>1. PICK word \in Seq(Symbol) :
          word = <<command>> /\ Len(word) = 1 /\ word[1] = command
    <3>1. PICK word : word = <<command>>
      OBVIOUS
    <3>. QED BY <3>1, OneSymbol, Zenon
  <2>2. PICK one \in Nat : one = 1
    OBVIOUS
  <2>3. PICK lim \in Nat : lim = n
    BY <1>1
  <2>4. ReadsLike(line, lim, one, one, word, one)
    <3>1. ASSUME NEW k \in 1..one PROVE line[one + k - 1] = word[k]
      <4>1. k = 1 /\ one + k - 1 = 1
        BY <2>2
      <4>. QED BY <1>1, <2>1, <4>1
    <3>2. one \in 1..lim + 1 /\ one = one + one - 1 /\ one <= lim
      BY <1>1, <2>2, <2>3
    <3>. QED BY <1>1, <2>1, <2>2, <2>3, <3>1, <3>2, Zenon DEF ReadsLike
  <2>5. IsPart(word, line, one, one)
    BY <1>1, <2>4, PartIs
  <2>6. e - 1 = one
    BY <1>5, <2>2
  <2>. QED BY <2>1, <2>2, <2>5, <2>6, Zenon DEF IsPart
<1>8. IsPair(Params(line, e), target, text)
  <2>1. EndsWith(line, n, e, blank, safe, l)
    BY <1>1, <1>5 DEF EndsWith
  <2>2. t = Len(target)
    BY DEF Addressed
  <2>3. target # <<>> /\ target[1] # colon /\ \A k \in 1..t : target[k] # blank
    BY <2>2, TokenIsSafe
  <2>. QED BY <1>1, <2>1, <2>3, AddressedParams
<1>9. IsMessage(Parse(line, maxParams), line, maxParams, <<>>, SubSeq(line, 1, e - 1),
                Params(line, e))
  BY <1>1, <1>2, <1>4, <1>6, ParsedPlain, Zenon
<1>. QED BY <1>7, <1>8, <1>9, Zenon DEF IsMessage, IsSentAs, IsPair

\* Two lists, one behind the other, begin with the same.
LEMMA HeadOf ==
  ASSUME NEW T, NEW a \in T, NEW rest \in Seq(T), NEW v, v = <<a>> \o rest
  PROVE  v[1] = a
<1>1. PICK one : one = <<a>>
  OBVIOUS
<1>2. one \in Seq(T) /\ Len(one) = 1 /\ one[1] = a
  BY <1>1, OneSymbol
<1>3. IsJoined(v, one, rest)
  BY <1>1, Zenon DEF IsJoined
<1>4. IsLaid(T, v, one, rest)
  BY <1>2, <1>3, Laid
<1>. QED BY <1>2, <1>4 DEF IsLaid

\* A list without a comma has one member, and one with a comma begins with
\* another.
LEMMA FirstPiece ==
  ASSUME NEW Symbol, NEW key \in Seq(Symbol), key # <<>>
  PROVE  /\ ~Has(key, ",") => SplitCommaList(key) = <<key>>
         /\ SplitCommaList(key)[1] = key <=> ~Has(key, ",")
<1>1. PICK n \in Nat : n = Len(key)
  OBVIOUS
<1>2. PICK comma : comma = ","
  OBVIOUS
<1>3. PICK at : at = NextOf(key, 1, comma)
  OBVIOUS
<1>4. /\ at \in 1..n + 1
      /\ at = n + 1 \/ key[at] = comma
      /\ \A earlier \in 1..at - 1 : key[earlier] # comma
  <2>1. PICK one \in 1..Len(key) + 1 : one = 1
    BY <1>1
  <2>2. IsNextOf(key, one, comma, NextOf(key, one, comma))
    BY NextOfFound
  <2>. QED BY <1>1, <1>3, <2>1, <2>2, Zenon DEF IsNextOf
<1>5. PICK z \in Nat : z = at - 1 /\ z <= n
  BY <1>4
<1>6. PICK piece \in Seq(Symbol) : piece = SubSeq(key, 1, at - 1) /\ Len(piece) = z
  <2>1. PICK one \in 1..Len(key) + 1 : one = 1
    BY <1>1
  <2>2. PICK b \in one - 1..Len(key) : b = z
    BY <1>1, <1>5, <2>1
  <2>3. PICK part : part = SubSeq(key, one, b)
    OBVIOUS
  <2>4. /\ part \in Seq(Symbol) /\ Len(part) = b + 1 - one
    BY <2>3, PartType
  <2>5. b + 1 - one = z
    BY <2>1, <2>2
  <2>. QED BY <1>5, <2>1, <2>2, <2>3, <2>4, <2>5, Zenon
<1>7. /\ at > n => SplitCommaList(key) = <<piece>>
      /\ ~(at > n) => \E rest \in Seq(Seq(Symbol)) : SplitCommaList(key) = <<piece>> \o rest
  BY <1>1, <1>2, <1>3, <1>6, CommaListRead, Zenon
<1>8. SplitCommaList(key)[1] = piece
  <2>1. CASE at > n
    <3>1. PICK one : one = <<piece>>
      OBVIOUS
    <3>2. one[1] = piece
      BY <3>1
    <3>. QED BY <1>7, <2>1, <3>1, <3>2, Zenon
  <2>2. CASE ~(at > n)
    <3>1. PICK rest \in Seq(Seq(Symbol)) : SplitCommaList(key) = <<piece>> \o rest
      BY <1>7, <2>2, Zenon
    <3>. QED BY <3>1, HeadOf
  <2>. QED BY <2>1, <2>2
<1>9. CASE at > n
  <2>1. at = n + 1 /\ z = n
    BY <1>4, <1>5, <1>9
  <2>2. piece = key
    <3>1. PICK a \in Nat : a = 1
      OBVIOUS
    <3>2. ReadsLike(key, n, a, n, key, n)
      <4>1. ASSUME NEW k \in 1..n PROVE key[a + k - 1] = key[k]
        <5>1. a + k - 1 = k
          BY <3>1
        <5>. QED BY <5>1
      <4>2. a \in 1..n + 1 /\ n = a + n - 1 /\ n <= n
        BY <3>1
      <4>. QED BY <1>1, <4>1, <4>2, Zenon DEF ReadsLike
    <3>3. IsPart(key, key, a, n)
      BY <3>2, PartIs
    <3>. QED BY <1>5, <1>6, <2>1, <3>1, <3>3, Zenon DEF IsPart
  <2>3. DOMAIN key = 1..at - 1
    BY <1>1, <1>5, <2>1, DomainOf, Zenon
  <2>4. ~Has(key, ",")
    BY <1>2, <1>4, <2>3, Zenon DEF Has
  <2>. QED BY <1>7, <1>8, <1>9, <2>2, <2>4, Zenon
<1>10. CASE ~(at > n)
  <2>1. at \in 1..n /\ key[at] = comma /\ z # n
    BY <1>4, <1>5, <1>10
  <2>2. DOMAIN key = 1..n
    BY <1>1, DomainOf, Zenon
  <2>3. Has(key, ",")
    BY <1>2, <2>1, <2>2, Zenon DEF Has
  <2>4. piece # key
    BY <1>1, <1>6, <2>1, Zenon
  <2>. QED BY <1>8, <2>3, <2>4, Zenon
<1>. QED BY <1>9, <1>10

\* JOIN is given the key that MODE was.
AreFive(a, b, c, d, e) == <<a, b>> \o <<c>> \o <<d, e>> = <<a, b, c, d, e>>

LEMMA FiveSymbols ==
  ASSUME NEW T, NEW a \in T, NEW b \in T, NEW c \in T, NEW d \in T, NEW e \in T
  PROVE  AreFive(a, b, c, d, e)
<1>1. PICK x : x = <<a, b>>
  OBVIOUS
<1>2. PICK y : y = <<c>>
  OBVIOUS
<1>3. PICK z : z = <<d, e>>
  OBVIOUS
<1>4. PICK all : all = <<a, b, c, d, e>>
  OBVIOUS
<1>5. x \in Seq(T) /\ Len(x) = 2 /\ x[1] = a /\ x[2] = b
  BY <1>1
<1>6. y \in Seq(T) /\ Len(y) = 1 /\ y[1] = c
  BY <1>2
<1>7. z \in Seq(T) /\ Len(z) = 2 /\ z[1] = d /\ z[2] = e
  BY <1>3
<1>8. /\ all \in Seq(T) /\ Len(all) = 5 /\ all[1] = a /\ all[2] = b /\ all[3] = c
      /\ all[4] = d /\ all[5] = e
  BY <1>4
<1>9. PICK v : IsJoined(v, x, y)
  BY DEF IsJoined
<1>10. PICK w : IsJoined(w, v, z)
  BY DEF IsJoined
<1>11. v \in Seq(T) /\ Len(v) = 3 /\ v[1] = a /\ v[2] = b /\ v[3] = c
  <2>1. IsLaid(T, v, x, y)
    BY <1>5, <1>6, <1>9, Laid
  <2>. QED BY <1>5, <1>6, <2>1 DEF IsLaid
<1>12. /\ w \in Seq(T) /\ Len(w) = 5 /\ w[1] = a /\ w[2] = b /\ w[3] = c
       /\ w[4] = d /\ w[5] = e
  <2>1. IsLaid(T, w, v, z)
    BY <1>7, <1>10, <1>11, Laid
  <2>. QED BY <1>7, <1>11, <2>1 DEF IsLaid
<1>13. \A k \in 1..5 : k = 1 \/ k = 2 \/ k = 3 \/ k = 4 \/ k = 5
  OBVIOUS
<1>14. w = all
  <2>1. \A k \in 1..5 : w[k] = all[k]
    BY <1>8, <1>12, <1>13
  <2>. QED BY <1>8, <1>12, <2>1, SameText
<1>. QED BY <1>1, <1>2, <1>3, <1>4, <1>9, <1>10, <1>14, Zenon DEF IsJoined, AreFive

LEMMA KeyPresented ==
  ASSUME NEW Symbol, " " \in Symbol, ":" \in Symbol, "JOIN" \in Symbol, "#c" \in Symbol,
         NEW key \in Seq(Symbol), key # <<>>, NEW maxParams,
         NEW message \in Parse(<<"JOIN", " ", "#c", " ", ":">> \o key, maxParams)
  PROVE  SplitCommaList(message.params[2])[1] = key <=> ~Has(key, ",")
<1>1. PICK blank \in Symbol : IsBlank(blank)
  BY Zenon DEF IsBlank
<1>2. PICK colon \in Symbol : IsColon(colon)
  BY Zenon DEF IsColon
<1>3. PICK command \in Symbol : command = "JOIN"
  OBVIOUS
<1>4. PICK name \in Symbol : name = "#c"
  OBVIOUS
<1>5. IsPlain(command) /\ IsPlain(name)
  BY <1>3, <1>4 DEF IsPlain, Breaks
<1>6. PICK target \in Seq(Symbol) : target = <<name>> /\ IsSafeToken(target)
  BY <1>5, SymbolIsSafe, OneSymbol, Zenon
<1>7. PICK line : line = <<"JOIN", " ", "#c", " ", ":">> \o key
  OBVIOUS
<1>8. IsPlainLine(line, command, target, key, blank, colon)
  <2>1. AreFive(command, blank, name, blank, colon)
    BY FiveSymbols
  <2>. QED BY <1>1, <1>2, <1>3, <1>4, <1>6, <1>7, <2>1, Zenon
           DEF IsPlainLine, IsBlank, IsColon, AreFive
<1>9. PICK safe, n, l, t, x :
           /\ Sent(line, Symbol, n, command, blank, safe, l)
           /\ t \in Nat /\ x \in Nat
           /\ Addressed(safe, target, t, blank, colon, key, x, l)
  BY <1>8, SentLine
<1>10. IsSentAs(line, maxParams, command, target, key)
  BY <1>1, <1>2, <1>5, <1>6, <1>9, SentParsed
<1>11. message = [prefix |-> <<>>, command |-> <<command>>, params |-> <<target, key>>]
  BY <1>7, <1>10, Zenon DEF IsSentAs
<1>12. message.params[2] = key
  BY <1>11
<1>. QED BY <1>12, FirstPiece, Zenon

\* A list of three.
AreThree(v, a, b, c) == v = <<a>> \o (<<b>> \o <<c>>)

LEMMA ThirdOf ==
  ASSUME NEW T, NEW a \in T, NEW b \in T, NEW c \in T, NEW v, AreThree(v, a, b, c)
  PROVE  Len(v) = 3 /\ v[3] = c
<1>1. PICK x : x = <<a>>
  OBVIOUS
<1>2. PICK y : y = <<b>>
  OBVIOUS
<1>3. PICK z : z = <<c>>
  OBVIOUS
<1>4. x \in Seq(T) /\ Len(x) = 1
  BY <1>1, OneSymbol
<1>5. y \in Seq(T) /\ Len(y) = 1
  BY <1>2, OneSymbol
<1>6. z \in Seq(T) /\ Len(z) = 1 /\ z[1] = c
  BY <1>3, OneSymbol
<1>7. PICK w : IsJoined(w, y, z)
  BY DEF IsJoined
<1>8. IsJoined(v, x, w)
  BY <1>1, <1>2, <1>3, <1>7, Zenon DEF IsJoined, AreThree
<1>9. w \in Seq(T) /\ Len(w) = 2 /\ w[2] = c
  <2>1. IsLaid(T, w, y, z)
    BY <1>5, <1>6, <1>7, Laid
  <2>. QED BY <1>5, <1>6, <2>1 DEF IsLaid
<1>10. IsLaid(T, v, x, w)
  BY <1>4, <1>8, <1>9, Laid
<1>. QED BY <1>4, <1>9, <1>10 DEF IsLaid

\* A symbol that stands alone in a line.
StandsAlone(line, n, from, start, e, symbol, blank) ==
  /\ n = Len(line) /\ from # 0 /\ start = from + 1 /\ e = from + 2 /\ e <= n
  /\ line[from] = blank /\ line[start] = symbol /\ line[e] = blank
IsShortParam(line, from, symbol, e) == IsParam(line, from, <<symbol>>, e)

LEMMA SymbolStands ==
  ASSUME NEW Symbol, NEW line \in Seq(Symbol), NEW n \in Nat,
         NEW symbol \in Symbol, IsPlain(symbol), NEW blank, IsBlank(blank),
         NEW from \in Nat, NEW start \in Nat, NEW e \in Nat,
         StandsAlone(line, n, from, start, e, symbol, blank)
  PROVE  IsShortParam(line, from, symbol, e)
<1>. USE DEF StandsAlone
<1>1. PICK word \in Seq(Symbol) :
        word = <<symbol>> /\ Len(word) = 1 /\ word[1] = symbol
  <2>1. PICK word : word = <<symbol>>
    OBVIOUS
  <2>. QED BY <2>1, OneSymbol, Zenon
<1>2. PICK m \in Nat : m = 1
  OBVIOUS
<1>3. symbol # blank /\ symbol # ":"
  BY Zenon DEF IsPlain, IsBlank
<1>4. Stands(line, n, from, word, m, start, e)
  <2>1. /\ from \in 1..n /\ m # 0 /\ e = from + m + 1 /\ from + m <= n /\ start = from + m
        /\ from + m + 1 = e
    BY <1>2
  <2>2. ASSUME NEW k \in 1..m PROVE word[k] # blank /\ line[from + k] = word[k]
    <3>1. k = 1 /\ from + k = start
      BY <1>2
    <3>. QED BY <1>1, <1>3, <3>1
  <2>. QED BY <1>1, <1>2, <2>1, <2>2, Zenon DEF Stands, IsBlank
<1>5. word[1] # ":"
  BY <1>1, <1>3, Zenon
<1>6. IsParam(line, from, word, e)
  BY <1>4, <1>5, WordParam
<1>. QED BY <1>1, <1>6, Zenon DEF IsShortParam

\* The reply to MODE +k.
KeyLine(line, n, e, blank, name, plus, key, q) ==
  /\ n = Len(line) /\ q = Len(key) /\ e # 0 /\ n = e + 4 + q
  /\ line[e] = blank /\ line[e + 1] = name /\ line[e + 2] = blank
  /\ line[e + 3] = plus /\ line[e + 4] = blank
  /\ \A k \in 1..q : line[e + 4 + k] = key[k]

LEMMA KeyParams ==
  ASSUME NEW Symbol, NEW line \in Seq(Symbol), NEW key \in Seq(Symbol), key # <<>>,
         NEW name \in Symbol, IsPlain(name), NEW plus \in Symbol, IsPlain(plus),
         NEW blank \in Symbol, IsBlank(blank), NEW colon \in Symbol, IsColon(colon),
         NEW n \in Nat, NEW q \in Nat, NEW e \in Nat,
         KeyLine(line, n, e, blank, name, plus, key, q),
         \A k \in 1..q : key[k] # blank
  PROVE  \E last \in Seq(Symbol) :
           /\ AreThree(Params(line, e), <<name>>, <<plus>>, last)
           /\ last = key <=> key[1] # colon
<1>1. /\ n = Len(line) /\ q = Len(key) /\ e # 0 /\ n = e + 4 + q
      /\ line[e] = blank /\ line[e + 1] = name /\ line[e + 2] = blank
      /\ line[e + 3] = plus /\ line[e + 4] = blank
      /\ \A k \in 1..q : line[e + 4 + k] = key[k]
  BY DEF KeyLine
<1>2. q # 0
  BY <1>1, NotEmpty
<1>3. PICK e1 \in Nat : e1 = e + 1
  OBVIOUS
<1>4. PICK e2 \in Nat : e2 = e + 2
  OBVIOUS
<1>5. PICK e3 \in Nat : e3 = e + 3
  OBVIOUS
<1>6. PICK e4 \in Nat : e4 = e + 4
  OBVIOUS
<1>7. PICK e5 \in Nat : e5 = e + 5
  OBVIOUS
<1>8. /\ e2 # 0 /\ e3 = e2 + 1 /\ e4 = e2 + 2 /\ e2 <= n /\ e4 <= n /\ e5 <= n /\ e5 = e4 + 1
      /\ e4 # 0 /\ n = e4 + q
  BY <1>1, <1>2, <1>3, <1>4, <1>5, <1>6, <1>7
<1>9. /\ line[e1] = name /\ line[e2] = blank /\ line[e3] = plus /\ line[e4] = blank
      /\ \A k \in 1..q : line[e4 + k] = key[k]
  BY <1>1, <1>3, <1>4, <1>5, <1>6
<1>10. IsParam(line, e, <<name>>, e2)
  <2>1. StandsAlone(line, n, e, e1, e2, name, blank)
    BY <1>1, <1>3, <1>4, <1>8, <1>9 DEF StandsAlone
  <2>2. IsShortParam(line, e, name, e2)
    BY <2>1, SymbolStands
  <2>. QED BY <2>2, Zenon DEF IsShortParam
<1>11. IsParam(line, e2, <<plus>>, e4)
  <2>1. StandsAlone(line, n, e2, e3, e4, plus, blank)
    BY <1>1, <1>8, <1>9 DEF StandsAlone
  <2>2. IsShortParam(line, e2, plus, e4)
    BY <2>1, SymbolStands
  <2>. QED BY <2>2, Zenon DEF IsShortParam
<1>12. ASSUME NEW last, Params(line, e4) = <<last>>
       PROVE  AreThree(Params(line, e), <<name>>, <<plus>>, last)
  BY <1>10, <1>11, <1>12, Zenon DEF IsParam, AreThree
<1>13. CASE key[1] # colon
  <2>1. PICK end \in Nat : end = n + 1
    OBVIOUS
  <2>2. Stands(line, n, e4, key, q, e5, end)
    <3>1. /\ e4 \in 1..n /\ e4 + q <= n /\ end = e4 + q + 1 /\ ~(e4 + q + 1 <= n)
      BY <1>8, <2>1
    <3>. QED BY <1>1, <1>2, <1>8, <1>9, <3>1, Zenon DEF Stands, IsBlank
  <2>3. key[1] # ":"
    BY <1>13, Zenon DEF IsColon
  <2>4. IsParam(line, e4, key, end)
    BY <2>2, <2>3, WordParam
  <2>5. Params(line, end) = <<>>
    BY <1>1, <2>1, NoParam, Zenon
  <2>6. PICK one : one = <<key>>
    OBVIOUS
  <2>7. one \in Seq(Seq(Symbol))
    BY <2>6, OneSymbol
  <2>8. one \o <<>> = one
    BY <2>7
  <2>9. Params(line, e4) = <<key>>
    BY <2>4, <2>5, <2>6, <2>8, Zenon DEF IsParam
  <2>. QED BY <1>12, <1>13, <2>9
<1>14. CASE key[1] = colon
  <2>1. PICK rest \in Nat : rest = e5 + 1
    OBVIOUS
  <2>2. PICK last : last = SubSeq(line, rest, n)
    OBVIOUS
  <2>3. line[e5] = colon
    <3>1. 1 \in 1..q /\ e4 + 1 = e5
      BY <1>2, <1>8
    <3>. QED BY <1>9, <1>14, <3>1
  <2>4. Params(line, e4) = <<last>>
    <3>1. line[e4] = " " /\ line[e5] = ":"
      BY <1>9, <2>3, Zenon DEF IsBlank, IsColon
    <3>2. e4 \in 1..n /\ e5 \in 1..n
      BY <1>8
    <3>3. n = Len(line) /\ e5 = e4 + 1
      BY <1>1, <1>8
    <3>4. Trails(line, n, e4, e5, rest)
      BY <2>1, <3>1, <3>2, <3>3, Zenon DEF Trails
    <3>5. IsLast(line, n, e4, rest)
      BY <3>4, LastParam
    <3>. QED BY <2>2, <3>5, Zenon DEF IsLast
  <2>5. last \in Seq(Symbol) /\ Len(last) = n + 1 - rest
    <3>1. PICK a \in 1..Len(line) + 1 : a = rest
      BY <1>1, <1>8, <2>1
    <3>2. PICK b \in a - 1..Len(line) : b = n
      BY <1>1, <1>8, <2>1, <3>1
    <3>3. last = SubSeq(line, a, b)
      BY <2>2, <3>1, <3>2, Zenon
    <3>4. /\ SubSeq(line, a, b) \in Seq(Symbol) /\ Len(SubSeq(line, a, b)) = b + 1 - a
      BY PartType
    <3>. QED BY <3>1, <3>2, <3>3, <3>4, Zenon
  <2>6. n + 1 - rest # q
    BY <1>1, <1>7, <2>1
  <2>7. last # key
    BY <1>1, <2>5, <2>6, Zenon
  <2>. QED BY <1>12, <1>14, <2>4, <2>5, <2>7
<1>. QED BY <1>13, <1>14

IsReply(line, sender, command, name, plus, blank, key) ==
  line = Command(sender, <<command>>, <<name, blank, plus, blank>> \o key)
IsAnnounced(line, maxParams, key, colon) ==
  \A message \in Parse(line, maxParams) :
    (Len(message.params) = 3 /\ message.params[3] = key) <=> key[1] # colon

LEMMA KeyReply ==
  ASSUME NEW Symbol, NEW blank \in Symbol, IsBlank(blank), NEW colon \in Symbol,
         IsColon(colon), NEW command \in Symbol, IsPlain(command),
         NEW name \in Symbol, IsPlain(name), NEW plus \in Symbol, IsPlain(plus),
         NEW sender \in Seq(Symbol), IsSafeToken(sender),
         NEW key \in Seq(Symbol), key # <<>>,
         \A k \in 1..Len(key) : key[k] # blank /\ key[k] \notin Breaks,
         NEW line, IsReply(line, sender, command, name, plus, blank, key), NEW maxParams
  PROVE  IsAnnounced(line, maxParams, key, colon)
<1>8. PICK q \in Nat : q = Len(key)
  OBVIOUS
<1>9. \A k \in 1..q : key[k] # blank /\ key[k] \notin Breaks
  BY <1>8
<1>10. blank \notin Breaks /\ name \notin Breaks /\ plus \notin Breaks /\ command # blank
  BY Blanks, Zenon DEF IsPlain, IsBlank
<1>11. PICK head : head = <<name, blank, plus, blank>>
  OBVIOUS
<1>12. /\ head \in Seq(Symbol) /\ Len(head) = 4 /\ head[1] = name /\ head[2] = blank
       /\ head[3] = plus /\ head[4] = blank
  BY <1>11
<1>13. PICK safe : IsJoined(safe, head, key)
  BY DEF IsJoined
<1>14. /\ safe \in Seq(Symbol) /\ Len(safe) = 4 + q
       /\ safe[1] = name /\ safe[2] = blank /\ safe[3] = plus /\ safe[4] = blank
       /\ \A k \in 1..q : safe[4 + k] = key[k]
  <2>1. IsLaid(Symbol, safe, head, key)
    BY <1>12, <1>13, Laid
  <2>. QED BY <1>8, <1>12, <2>1 DEF IsLaid
<1>15. SanitizeMessageText(safe) = safe
  <2>1. ASSUME NEW j \in 1..Len(safe) PROVE safe[j] \notin Breaks
    <3>1. CASE j \in 1..4
      BY <1>10, <1>14, <3>1
    <3>2. CASE j \notin 1..4
      <4>1. j - 4 \in 1..q /\ j = 4 + (j - 4)
        BY <1>14, <3>2
      <4>2. PICK k \in 1..q : j = 4 + k
        BY <4>1, Zenon
      <4>. QED BY <1>9, <1>14, <4>2
    <3>. QED BY <3>1, <3>2
  <2>2. Without(safe, Breaks) = safe
    BY <1>14, <2>1, SanitizedClean
  <2>. QED BY <2>2, Zenon DEF SanitizeMessageText, Breaks
<1>16. safe # <<>>
  <2>1. Len(safe) # 0
    BY <1>14
  <2>. QED BY <1>14, <2>1, NotEmpty, Zenon
<1>17. line = Command(sender, <<command>>, safe)
  BY <1>11, <1>13, Zenon DEF IsReply, IsJoined
<1>18. IsWritten(line, sender, command, safe, blank, colon)
  <2>1. IsSafeToken(<<command>>)
    BY SymbolIsSafe
  <2>. QED BY <1>15, <1>16, <1>17, <2>1, CommandWritten, Zenon
<1>19. line \in Seq(Symbol)
  BY <1>14, <1>18, RelayedLine, Zenon DEF IsWritten
<1>20. PICK n, m, l \in Nat : Relayed(line, n, colon, sender, m, blank, command, safe, l)
  BY <1>14, <1>18, RelayedLine, Zenon DEF IsWritten
<1>21. PICK e \in Nat : e = m + 4
  OBVIOUS
<1>22. /\ n = Len(line) /\ m = Len(sender) /\ l = Len(safe) /\ n = e + l /\ line[e] = blank
       /\ \A k \in 1..l : line[e + k] = safe[k]
  BY <1>20, <1>21 DEF Relayed
<1>23. KeyLine(line, n, e, blank, name, plus, key, q)
  <2>1. l = 4 + q
    BY <1>14, <1>22
  <2>2. /\ n = e + 4 + q /\ e # 0 /\ 1 \in 1..l /\ 2 \in 1..l /\ 3 \in 1..l /\ 4 \in 1..l
    BY <1>21, <1>22, <2>1
  <2>3. ASSUME NEW k \in 1..q PROVE line[e + 4 + k] = key[k]
    <3>1. 4 + k \in 1..l /\ e + (4 + k) = e + 4 + k
      BY <2>1
    <3>. QED BY <1>14, <1>22, <3>1
  <2>4. line[e + 1] = name /\ line[e + 2] = blank /\ line[e + 3] = plus /\ line[e + 4] = blank
    BY <1>14, <1>22, <2>2
  <2>. QED BY <1>8, <1>22, <2>2, <2>3, <2>4, Zenon DEF KeyLine
<1>24. PICK last \in Seq(Symbol) :
         /\ AreThree(Params(line, e), <<name>>, <<plus>>, last)
         /\ last = key <=> key[1] # colon
  BY <1>9, <1>19, <1>23, KeyParams
<1>25. PICK params : params = Params(line, e)
  OBVIOUS
<1>26. Len(params) = 3 /\ params[3] = last
  <2>1. PICK a \in Seq(Symbol) : a = <<name>>
    BY OneSymbol, Zenon
  <2>2. PICK b \in Seq(Symbol) : b = <<plus>>
    BY OneSymbol, Zenon
  <2>3. AreThree(params, a, b, last)
    BY <1>24, <1>25, <2>1, <2>2, Zenon
  <2>. QED BY <2>3, ThirdOf
<1>27. IsMessage(Parse(line, maxParams), line, maxParams, sender, <<command>>, params)
  <2>1. sender # <<>> /\ \A k \in 1..m : sender[k] # blank
    BY <1>22, TokenIsSafe
  <2>2. IsMessage(Parse(line, maxParams), line, maxParams, sender, <<command>>,
                  Params(line, e))
    <3>1. command # blank
      BY <1>10
    <3>2. safe \in Seq(Symbol)
      BY <1>14
    <3>. QED BY <1>19, <1>20, <1>21, <2>1, <3>1, <3>2, RelayedParsed
  <2>. QED BY <1>25, <2>2, Zenon
<1>28. ASSUME NEW message \in Parse(line, maxParams)
       PROVE  message.params = params
  <2>1. message = [prefix |-> sender, command |-> <<command>>, params |-> params]
    BY <1>27, Zenon DEF IsMessage
  <2>. QED BY <2>1
<1>. QED BY <1>24, <1>26, <1>28, Zenon DEF IsAnnounced

LEMMA KeyAnnounced ==
  ASSUME NEW Symbol, " " \in Symbol, ":" \in Symbol, "MODE" \in Symbol, "#c" \in Symbol,
         "+k" \in Symbol, Sender \in Seq(Symbol),
         NEW key \in Seq(Symbol), IsValidChannelKey(key), NEW maxParams
  PROVE  \A message \in Parse(Command(Sender, <<"MODE">>, <<"#c", " ", "+k", " ">> \o key),
                              maxParams) :
           (Len(message.params) = 3 /\ message.params[3] = key) <=> key[1] # ":"
<1>1. PICK blank \in Symbol : IsBlank(blank)
  BY Zenon DEF IsBlank
<1>2. PICK colon \in Symbol : IsColon(colon)
  BY Zenon DEF IsColon
<1>3. PICK command \in Symbol : command = "MODE"
  OBVIOUS
<1>4. PICK name \in Symbol : name = "#c"
  OBVIOUS
<1>5. PICK plus \in Symbol : plus = "+k"
  OBVIOUS
<1>6. IsPlain(command) /\ IsPlain(name) /\ IsPlain(plus)
  BY <1>3, <1>4, <1>5 DEF IsPlain, Breaks
<1>7. PICK sender \in Seq(Symbol) : sender = Sender /\ IsSafeToken(sender)
  BY SenderIsSafe, Zenon
<1>8. key # <<>> /\ \A k \in 1..Len(key) : key[k] # blank /\ key[k] \notin Breaks
  <2>1. DOMAIN key = 1..Len(key)
    BY DomainOf, Zenon
  <2>2. \A c \in {" ", "NUL", "CR", "LF", "TAB"} : \A k \in 1..Len(key) : key[k] # c
    BY <2>1, Zenon DEF IsValidChannelKey, Has
  <2>3. \A k \in 1..Len(key) : key[k] # " " /\ key[k] \notin Breaks
    BY <2>2, Zenon DEF Breaks
  <2>. QED BY <1>1, <2>3, Zenon DEF IsBlank, IsValidChannelKey
<1>9. PICK line : IsReply(line, sender, command, name, plus, blank, key)
  BY DEF IsReply
<1>10. line = Command(Sender, <<"MODE">>, <<"#c", " ", "+k", " ">> \o key)
  BY <1>1, <1>3, <1>4, <1>5, <1>7, <1>9, Zenon DEF IsReply, IsBlank
<1>11. IsAnnounced(line, maxParams, key, colon)
  BY <1>1, <1>2, <1>6, <1>7, <1>8, <1>9, KeyReply
<1>. QED BY <1>2, <1>10, <1>11, Zenon DEF IsAnnounced, IsColon

\* The symbols of the lines with a key.
KeyAlphabet == {" ", ":", "alice", "1", "JOIN", "MODE", "#c", "+k"}

\* A word of a line is taken for what it says: names that were folded stay
\* folded, a size is the number that was written or none, and a key that MODE
\* accepts is what JOIN presents unless it has a comma, and what is announced
\* unless it begins with a colon.  For texts of every length and every width
\* of size_t, the run's included.
THEOREM WordsAreAlwaysExact ==
  /\ FoldIsStable
  /\ \A text \in Seq(Nat), maximum \in Nat : maximum >= 9 => SizeIsExact(text, maximum)
  /\ \A Symbol : KeyAlphabet \subseteq Symbol =>
       \A key \in Seq(Symbol), maxParams \in Nat : KeyIsUsable(key, maxParams)
  /\ MCSpec => []WordsAreExact
<1>1. FoldIsStable
  BY FoldingIsStable
<1>2. ASSUME NEW text \in Seq(Nat), NEW maximum \in Nat, maximum >= 9
      PROVE  SizeIsExact(text, maximum)
  BY <1>2, SizesAreExact
<1>3. ASSUME NEW Symbol, KeyAlphabet \subseteq Symbol, NEW key \in Seq(Symbol),
             NEW maxParams
      PROVE  KeyIsUsable(key, maxParams)
  <2>. SUFFICES ASSUME IsValidChannelKey(key)
                PROVE  KeyIsUsable(key, maxParams)
    BY Zenon DEF KeyIsUsable
  <2>1. /\ " " \in Symbol /\ ":" \in Symbol /\ "JOIN" \in Symbol /\ "MODE" \in Symbol
        /\ "#c" \in Symbol /\ "+k" \in Symbol /\ "alice" \in Symbol /\ "1" \in Symbol
    BY <1>3, Zenon DEF KeyAlphabet
  <2>2. Sender \in Seq(Symbol)
    BY <2>1, ShortLists, Zenon DEF Sender
  <2>3. key # <<>>
    BY Zenon DEF IsValidChannelKey
  <2>4. \A message \in Parse(<<"JOIN", " ", "#c", " ", ":">> \o key, maxParams) :
          SplitCommaList(message.params[2])[1] = key <=> ~Has(key, ",")
    BY <2>1, <2>3, KeyPresented, Zenon
  <2>5. \A message \in Parse(Command(Sender, <<"MODE">>, <<"#c", " ", "+k", " ">> \o key),
                             maxParams) :
          (Len(message.params) = 3 /\ message.params[3] = key) <=> key[1] # ":"
    BY <2>1, <2>2, KeyAnnounced, Zenon
  <2>. QED BY <2>4, <2>5, Zenon DEF KeyIsUsable
<1>4. EveryWord
  <2>1. ASSUME NEW maximum \in 95..130, NEW text \in BoundedSeq({0, 1, 2, 9, 10}, 4)
        PROVE  SizeIsExact(text, maximum)
    <3>1. {0, 1, 2, 9, 10} \subseteq Nat /\ 4 \in Nat
      OBVIOUS
    <3>2. text \in Seq(Nat)
      <4>1. PICK S : S = {0, 1, 2, 9, 10}
        OBVIOUS
      <4>2. PICK four \in Nat : four = 4
        OBVIOUS
      <4>3. S \subseteq Nat /\ text \in BoundedSeq(S, four)
        BY <3>1, <4>1, <4>2
      <4>. QED BY <4>3, ShortTexts
    <3>3. maximum \in Nat /\ maximum >= 9
      OBVIOUS
    <3>. QED BY <1>2, <3>2, <3>3
  <2>. QED BY <1>1, <2>1 DEF EveryWord
<1>5. EveryKey
  <2>1. ASSUME NEW key \in BoundedSeq({" ", ":", ",", "x", "TAB"}, 4)
        PROVE  KeyIsUsable(key, MCMaxParams)
    <3>1. {" ", ":", ",", "x", "TAB"} \subseteq MCSymbol /\ KeyAlphabet \subseteq MCSymbol
      BY Zenon DEF MCSymbol, Alphabet, KeyAlphabet
    <3>2. PICK S : S = {" ", ":", ",", "x", "TAB"}
      OBVIOUS
    <3>3. PICK four \in Nat : four = 4
      OBVIOUS
    <3>4. S \subseteq MCSymbol /\ key \in BoundedSeq(S, four)
      BY <3>1, <3>2, <3>3, Zenon
    <3>5. key \in Seq(MCSymbol)
      BY <3>4, ShortTexts, Zenon
    <3>. QED BY <1>3, <3>1, <3>5, Zenon
  <2>. QED BY <2>1, Zenon DEF EveryKey
<1>6. WordsAreExact
  BY <1>4, <1>5 DEF WordsAreExact
<1>7. MCSpec => []WordsAreExact
  BY <1>6, PTL
<1>. QED BY <1>1, <1>2, <1>3, <1>7, Zenon

-----------------------------------------------------------------------------
(***************************************************************************)
(* What the gateway's parser makes of a line                               *)
(***************************************************************************)

\* The text is behind the first blank with a colon behind it.
LEMMA MarkFound ==
  ASSUME NEW Symbol, NEW rest \in Seq(Symbol), NEW r \in Nat, r = Len(rest),
         NEW mark \in 1..r + 1, IsMark(rest, mark),
         \A j \in 1..mark - 1 : ~IsMark(rest, j)
  PROVE  TextMark(rest) = mark
<1>. DEFINE First(j) == /\ j = Len(rest) + 1 \/ IsMark(rest, j)
                        /\ \A earlier \in 1..j - 1 : ~IsMark(rest, earlier)
<1>1. PICK D : D = 1..Len(rest) + 1
  OBVIOUS
<1>2. mark \in D /\ First(mark)
  BY <1>1
<1>3. ASSUME NEW j \in D, First(j) PROVE j = mark
  <2>1. j \in Nat /\ mark \in Nat /\ j \in 1..r + 1
    BY <1>1
  <2>2. ~(j < mark)
    <3>1. SUFFICES ASSUME j < mark PROVE FALSE
      OBVIOUS
    <3>2. j \in 1..mark - 1 /\ j # Len(rest) + 1
      BY <2>1, <3>1
    <3>. QED BY <1>3, <3>2
  <2>3. ~(mark < j)
    <3>1. SUFFICES ASSUME mark < j PROVE FALSE
      OBVIOUS
    <3>2. mark \in 1..j - 1
      BY <2>1, <3>1
    <3>. QED BY <1>3, <3>2
  <2>. QED BY <2>1, <2>2, <2>3
<1>4. TextMark(rest) = CHOOSE j \in D : First(j)
  BY <1>1, Zenon DEF TextMark
<1>. HIDE DEF First
<1>. QED BY <1>2, <1>3, <1>4, Zenon

\* A command, a blank and a target are two words.
IsHead(head, h, command, blank, target, t) ==
  /\ h = Len(head) /\ h = t + 2 /\ t = Len(target)
  /\ head[1] = command /\ head[2] = blank /\ \A k \in 1..t : head[2 + k] = target[k]
AreWords(words, command, target) == words = <<<<command>>, target>>

LEMMA NoneBehind ==
  ASSUME NEW T, NEW t \in Seq(T)
  PROVE  t \o <<>> = t
OBVIOUS

LEMMA HeadRead ==
  ASSUME NEW Symbol, NEW head \in Seq(Symbol), NEW h \in Nat, NEW t \in Nat,
         NEW command \in Symbol, NEW blank \in Symbol, IsBlank(blank), command # blank,
         NEW target \in Seq(Symbol), target # <<>>, \A k \in 1..t : target[k] # blank,
         IsHead(head, h, command, blank, target, t)
  PROVE  AreWords(Words(head), command, target)
<1>1. /\ h = Len(head) /\ h = t + 2 /\ t = Len(target)
      /\ head[1] = command /\ head[2] = blank /\ \A k \in 1..t : head[2 + k] = target[k]
  BY DEF IsHead
<1>2. t # 0 /\ head # <<>>
  <2>1. Len(head) # 0
    BY <1>1
  <2>. QED BY <1>1, <2>1, NotEmpty
<1>3. IsNextWord(head, 1, 1) /\ 1 <= Len(head)
  BY <1>1, <1>2, FirstWord, Zenon
<1>4. PICK w :
           /\ Words(head) = w[1]
           /\ \A p \in 1..Len(head) + 1 : w[p] \in Seq(Seq(Symbol))
           /\ \A from \in 1..Len(head) + 1 : \A start :
                IsNextWord(head, from, start) =>
                  w[from] = IF start > Len(head) THEN <<>>
                            ELSE <<SubSeq(head, start, NextSpace(head, start) - 1)>>
                                   \o w[NextSpace(head, start)]
  BY WordsRead, Zenon
<1>5. PICK e \in Nat : e = 2
  OBVIOUS
<1>6. e = NextSpace(head, 1)
  <2>1. PICK one \in 1..Len(head) + 1 : one = 1
    BY <1>1
  <2>2. IsNextOf(head, one, blank, e)
    <3>1. e \in one..Len(head) + 1 /\ head[e] = blank
      BY <1>1, <1>5, <2>1
    <3>2. ASSUME NEW earlier \in one..e - 1 PROVE head[earlier] # blank
      <4>1. earlier = 1
        BY <1>5, <2>1
      <4>. QED BY <1>1, <4>1
    <3>. QED BY <3>1, <3>2 DEF IsNextOf
  <2>3. NextOf(head, one, blank) = e
    BY <1>1, <2>2, NextOfIs
  <2>. QED BY <2>1, <2>3, Zenon DEF NextSpace, IsBlank
<1>7. SubSeq(head, 1, e - 1) = <<command>>
  <2>1. PICK word \in Seq(Symbol) :
          word = <<command>> /\ Len(word) = 1 /\ word[1] = command
    <3>1. PICK word : word = <<command>>
      OBVIOUS
    <3>. QED BY <3>1, OneSymbol, Zenon
  <2>2. PICK one \in Nat : one = 1
    OBVIOUS
  <2>4. ReadsLike(head, h, one, one, word, one)
    <3>1. ASSUME NEW k \in 1..one PROVE head[one + k - 1] = word[k]
      <4>1. k = 1 /\ one + k - 1 = 1
        BY <2>2
      <4>. QED BY <1>1, <2>1, <4>1
    <3>2. one \in 1..h + 1 /\ one = one + one - 1 /\ one <= h
      BY <1>1, <2>2
    <3>. QED BY <1>1, <2>1, <2>2, <3>1, <3>2, Zenon DEF ReadsLike
  <2>5. IsPart(word, head, one, one)
    BY <1>1, <2>4, PartIs
  <2>6. e - 1 = one
    BY <1>5, <2>2
  <2>. QED BY <2>1, <2>2, <2>5, <2>6, Zenon DEF IsPart
<1>8. PICK start \in Nat : start = e + 1
  OBVIOUS
<1>9. PICK end \in Nat : end = e + t + 1
  OBVIOUS
<1>10. IsFound(head, h, e, target, start, end)
  <2>1. e \in 1..h /\ e + t <= h /\ ~(e + t + 1 <= h)
    BY <1>1, <1>5
  <2>2. \A k \in 1..t : head[e + k] = target[k]
    BY <1>1, <1>5
  <2>3. head[e] = blank
    BY <1>1, <1>5
  <2>4. Stands(head, h, e, target, t, start, end)
    BY <1>1, <1>2, <1>8, <1>9, <2>1, <2>2, <2>3, Zenon DEF Stands, IsBlank
  <2>. QED BY <2>4, WordStands
<1>11. /\ IsNextWord(head, e, start) /\ NextSpace(head, start) = end
       /\ SubSeq(head, start, end - 1) = target
  BY <1>10 DEF IsFound
<1>12. IsNextWord(head, end, end)
  <2>1. end \in end..Len(head) + 1 /\ end = Len(head) + 1 /\ \A earlier : earlier \notin end..end - 1
    BY <1>1, <1>5, <1>9
  <2>. QED BY <2>1, Zenon DEF IsNextWord, IsNextOther
<1>13. /\ 1 \in 1..Len(head) + 1 /\ e \in 1..Len(head) + 1 /\ end \in 1..Len(head) + 1
       /\ ~(1 > Len(head)) /\ ~(start > Len(head)) /\ end > Len(head)
  BY <1>1, <1>2, <1>5, <1>8, <1>9
<1>14. w[1] = <<SubSeq(head, 1, NextSpace(head, 1) - 1)>> \o w[NextSpace(head, 1)]
  BY <1>3, <1>4, <1>13, Zenon
<1>15. w[e] = <<SubSeq(head, start, NextSpace(head, start) - 1)>> \o w[NextSpace(head, start)]
  BY <1>4, <1>11, <1>13, Zenon
<1>16. w[end] = <<>>
  BY <1>4, <1>12, <1>13, Zenon
<1>17. Words(head) = <<<<command>>>> \o (<<target>> \o <<>>)
  BY <1>4, <1>6, <1>7, <1>11, <1>14, <1>15, <1>16, Zenon
<1>18. <<command>> \in Seq(Symbol)
  BY ShortLists, Zenon
<1>19. <<target>> \o <<>> = <<target>>
  <2>1. <<target>> \in Seq(Seq(Symbol))
    BY ShortLists, Zenon
  <2>. QED BY <2>1, NoneBehind, Zenon
<1>20. <<<<command>>>> \o <<target>> = <<<<command>>, target>>
  BY <1>18, Pair, Zenon
<1>. QED BY <1>17, <1>19, <1>20, Zenon DEF AreWords

\* A command, a target and a text are read as such.
IsBehind(found, prefix, command, target, text) ==
  found = {[prefix |-> prefix, command |-> <<command>>, params |-> <<target>>, trailing |-> text]}

LEMMA FirstAndRest ==
  ASSUME NEW first, NEW second, NEW parts, parts = <<first, second>>
  PROVE  parts # <<>> /\ parts[1] = first /\ Tail(parts) = <<second>>
OBVIOUS

LEMMA ReadAs ==
  ASSUME NEW prefix, NEW rest, NEW mark, mark = TextMark(rest), NEW command, NEW target, NEW text,
         AreWords(Words(SubSeq(rest, 1, mark - 1)), command, target),
         From(rest, mark + 2) = text
  PROVE  IsBehind(ReadBehind(prefix, rest), prefix, command, target, text)
<1>1. PICK parts : parts = Words(SubSeq(rest, 1, mark - 1))
  OBVIOUS
<1>2. parts # <<>> /\ parts[1] = <<command>> /\ Tail(parts) = <<target>>
  <2>1. PICK first : first = <<command>>
    OBVIOUS
  <2>2. parts = <<first, target>>
    BY <1>1, <2>1, Zenon DEF AreWords
  <2>. QED BY <2>1, <2>2, FirstAndRest, Zenon
<1>3. ReadBehind(prefix, rest) =
        IF parts = <<>> THEN {}
        ELSE {[prefix |-> prefix, command |-> parts[1], params |-> Tail(parts),
               trailing |-> From(rest, mark + 2)]}
  BY <1>1, Zenon DEF ReadBehind
<1>. QED BY <1>2, <1>3, Zenon DEF IsBehind

LEMMA BehindRead ==
  ASSUME NEW Symbol, NEW command \in Symbol, IsPlain(command), NEW prefix,
         NEW target \in Seq(Symbol), IsSafeToken(target), NEW text \in Seq(Symbol),
         NEW blank \in Symbol, IsBlank(blank), NEW colon \in Symbol, IsColon(colon),
         NEW rest, NEW safe, NEW r, NEW l, NEW t \in Nat, NEW x \in Nat,
         Sent(rest, Symbol, r, command, blank, safe, l),
         Addressed(safe, target, t, blank, colon, text, x, l)
  PROVE  IsBehind(ReadBehind(prefix, rest), prefix, command, target, text)
<1>1. /\ rest \in Seq(Symbol) /\ safe \in Seq(Symbol) /\ r \in Nat /\ l \in Nat
      /\ r = Len(rest) /\ l = Len(safe) /\ r = 2 + l /\ rest[1] = command /\ rest[2] = blank
      /\ \A k \in 1..l : rest[2 + k] = safe[k]
  BY DEF Sent
<1>2. /\ t = Len(target) /\ x = Len(text) /\ l = t + 2 + x
      /\ \A k \in 1..t : safe[k] = target[k]
      /\ safe[t + 1] = blank /\ safe[t + 2] = colon
      /\ \A k \in 1..x : safe[t + 2 + k] = text[k]
  BY DEF Addressed
<1>3. command # blank /\ command # colon /\ blank # colon
  <2>1. blank # colon
    BY Blanks
  <2>. QED BY <2>1, Zenon DEF IsPlain, IsBlank, IsColon
<1>4. target # <<>> /\ target[1] # colon /\ \A k \in 1..t : target[k] # blank
  BY <1>2, TokenIsSafe
<1>5. t # 0
  BY <1>2, <1>4, NotEmpty
<1>6. PICK mark \in Nat : mark = t + 3
  OBVIOUS
<1>7. /\ \A k \in 1..t : rest[2 + k] = target[k]
      /\ rest[mark] = blank /\ rest[mark + 1] = colon
      /\ \A k \in 1..x : rest[mark + 1 + k] = text[k]
  <2>1. \A k \in 1..t : k \in 1..l
    BY <1>1, <1>2
  <2>2. t + 1 \in 1..l /\ t + 2 \in 1..l /\ 2 + (t + 1) = mark /\ 2 + (t + 2) = mark + 1
    BY <1>1, <1>2, <1>6
  <2>3. ASSUME NEW k \in 1..x PROVE rest[mark + 1 + k] = text[k]
    <3>1. t + 2 + k \in 1..l /\ 2 + (t + 2 + k) = mark + 1 + k
      BY <1>1, <1>2, <1>6
    <3>. QED BY <1>1, <1>2, <3>1
  <2>4. rest[mark] = blank
    BY <1>1, <1>2, <2>2
  <2>5. rest[mark + 1] = colon
    BY <1>1, <1>2, <2>2
  <2>. QED BY <1>1, <1>2, <2>1, <2>3, <2>4, <2>5
<1>8. mark \in 1..r + 1 /\ mark < r
  BY <1>1, <1>2, <1>6
<1>9. mark = TextMark(rest)
  <2>1. IsMark(rest, mark)
    BY <1>1, <1>7, <1>8, Zenon DEF IsMark, IsBlank, IsColon
  <2>2. ASSUME NEW j \in 1..mark - 1 PROVE ~(rest[j] = blank /\ rest[j + 1] = colon)
    <3>1. CASE j = 1
      BY <1>1, <1>3, <3>1
    <3>2. CASE j = 2
      <4>1. 1 \in 1..t /\ j + 1 = 2 + 1
        BY <1>5, <3>2
      <4>2. rest[2 + 1] = target[1]
        BY <1>7, <4>1
      <4>. QED BY <1>4, <4>1, <4>2
    <3>3. CASE j # 1 /\ j # 2
      <4>1. j - 2 \in 1..t /\ j = 2 + (j - 2)
        BY <1>6, <3>3
      <4>2. PICK k \in 1..t : j = 2 + k
        BY <4>1
      <4>. QED BY <1>4, <1>7, <4>2
    <3>. QED BY <3>1, <3>2, <3>3
  <2>3. \A j \in 1..mark - 1 : ~IsMark(rest, j)
    BY <2>2, Zenon DEF IsMark, IsBlank, IsColon
  <2>. QED BY <1>1, <1>8, <2>1, <2>3, MarkFound
<1>10. AreWords(Words(SubSeq(rest, 1, mark - 1)), command, target)
  <2>1. PICK a \in 1..Len(rest) + 1 : a = 1
    BY <1>1
  <2>2. PICK z \in a - 1..Len(rest) : z = mark - 1
    BY <1>1, <1>6, <1>8, <2>1
  <2>3. PICK head : head = SubSeq(rest, a, z)
    OBVIOUS
  <2>4. /\ head \in Seq(Symbol) /\ Len(head) = z + 1 - a
        /\ \A k \in 1..z + 1 - a : head[k] = rest[a + k - 1]
    <3>1. rest \in Seq(Symbol)
      BY <1>1
    <3>. QED BY <2>3, <3>1, PartType
  <2>5. PICK h \in Nat : h = z + 1 - a /\ h = t + 2
    BY <1>6, <2>1, <2>2
  <2>6. \A k \in 1..h : head[k] = rest[k]
    <3>1. \A k \in 1..h : a + k - 1 = k
      BY <2>1
    <3>. QED BY <2>4, <2>5, <3>1
  <2>7. 1 \in 1..h /\ 2 \in 1..h /\ \A k \in 1..t : 2 + k \in 1..h
    BY <2>5
  <2>8. IsHead(head, h, command, blank, target, t)
    BY <1>1, <1>2, <1>7, <2>4, <2>5, <2>6, <2>7 DEF IsHead
  <2>9. AreWords(Words(head), command, target)
    BY <1>3, <1>4, <2>4, <2>8, HeadRead
  <2>. QED BY <2>1, <2>2, <2>3, <2>9, Zenon
<1>11. From(rest, mark + 2) = text
  <2>1. PICK a \in Nat : a = mark + 2
    OBVIOUS
  <2>2. PICK n \in Nat : n = r
    BY <1>1
  <2>3. ASSUME NEW k \in 1..x PROVE rest[a + k - 1] = text[k]
    <3>1. a + k - 1 = mark + 1 + k
      BY <2>1
    <3>. QED BY <1>7, <3>1
  <2>4. a \in 1..n + 1 /\ n = a + x - 1 /\ n <= n
    <3>1. r = 2 + l /\ l \in Nat
      BY <1>1
    <3>2. l = t + 2 + x
      BY <1>2
    <3>. QED BY <1>6, <2>1, <2>2, <3>1, <3>2
  <2>5. ReadsLike(rest, n, a, n, text, x)
    BY <1>1, <1>2, <2>2, <2>3, <2>4, Zenon DEF ReadsLike
  <2>6. IsPart(text, rest, a, n)
    BY <1>1, <2>5, PartIs
  <2>. QED BY <1>1, <2>1, <2>2, <2>6, Zenon DEF IsPart, From
<1>. QED BY <1>9, <1>10, <1>11, ReadAs

\* What the gateway finds in a line that the IRC server wrote.
IsHeardAs(line, prefix, command, target, text) ==
  IsBehind(ParseIrcLine(line), prefix, command, target, text)

LEMMA DeliveredHeard ==
  ASSUME NEW Symbol, NEW prefix \in Seq(Symbol), IsSafeToken(prefix),
         NEW command \in Symbol, IsPlain(command),
         NEW target \in Seq(Symbol), IsSafeToken(target), NEW clean, NEW safe,
         NEW blank \in Symbol, IsBlank(blank), NEW colon \in Symbol, IsColon(colon),
         NEW line, NEW n, NEW m, NEW l, NEW t, NEW x,
         Delivered(line, Symbol, prefix, command, target, clean, safe, blank, colon,
                   n, m, l, t, x)
  PROVE  IsHeardAs(line, prefix, command, target, clean)
<1>1. /\ line \in Seq(Symbol) /\ clean \in Seq(Symbol) /\ safe \in Seq(Symbol)
      /\ n \in Nat /\ m \in Nat /\ l \in Nat /\ t \in Nat /\ x \in Nat
      /\ Relayed(line, n, colon, prefix, m, blank, command, safe, l)
      /\ Addressed(safe, target, t, blank, colon, clean, x, l)
  BY DEF Delivered
<1>2. /\ n = Len(line) /\ m = Len(prefix) /\ l = Len(safe) /\ n = m + 4 + l
      /\ line[1] = colon /\ line[m + 3] = command /\ line[m + 4] = blank
      /\ \A k \in 1..l : line[m + 4 + k] = safe[k]
  BY <1>1 DEF Relayed
<1>3. \A k \in 1..m : prefix[k] # blank
  BY <1>2, TokenIsSafe
<1>4. PICK pe \in Nat : pe = m + 2
  BY <1>1
<1>5. PrefixEndsAt(line, prefix, pe)
  BY <1>1, <1>3, <1>4, PrefixEnds
<1>6. PICK rest : rest = From(line, pe + 1)
  OBVIOUS
<1>7. PICK r \in Nat : r = 2 + l
  BY <1>1
<1>8. Sent(rest, Symbol, r, command, blank, safe, l)
  <2>1. PICK a \in 1..Len(line) + 1 : a = pe + 1
    BY <1>1, <1>2, <1>4
  <2>2. PICK z \in a - 1..Len(line) : z = n
    <3>1. n \in Nat /\ n = Len(line) /\ a \in Nat /\ a - 1 <= n
      BY <1>1, <1>2, <2>1
    <3>2. n \in a - 1..n
      BY <3>1
    <3>. QED BY <3>1, <3>2, Zenon
  <2>3. rest = SubSeq(line, a, z)
    BY <1>2, <1>6, <2>1, <2>2, Zenon DEF From
  <2>4. /\ rest \in Seq(Symbol) /\ Len(rest) = z + 1 - a
        /\ \A k \in 1..z + 1 - a : rest[k] = line[a + k - 1]
    BY <1>1, <2>3, PartType
  <2>5. z + 1 - a = r
    BY <1>1, <1>2, <1>4, <1>7, <2>1, <2>2
  <2>6. \A k \in 1..r : rest[k] = line[m + 2 + k]
    <3>1. \A k \in 1..r : a + k - 1 = m + 2 + k
      BY <1>1, <1>4, <2>1
    <3>. QED BY <2>4, <2>5, <3>1
  <2>7. rest[1] = command /\ rest[2] = blank
    <3>1. 1 \in 1..r /\ 2 \in 1..r /\ m + 2 + 1 = m + 3 /\ m + 2 + 2 = m + 4
      BY <1>1, <1>7
    <3>2. rest[1] = line[m + 2 + 1] /\ rest[2] = line[m + 2 + 2]
      BY <2>6, <3>1
    <3>. QED BY <1>2, <3>1, <3>2
  <2>8. ASSUME NEW k \in 1..l PROVE rest[2 + k] = safe[k]
    <3>1. 2 + k \in 1..r /\ m + 2 + (2 + k) = m + 4 + k
      BY <1>1, <1>7
    <3>. QED BY <1>2, <2>6, <3>1
  <2>. QED BY <1>1, <1>2, <1>7, <2>4, <2>5, <2>7, <2>8 DEF Sent
<1>9. IsBehind(ReadBehind(prefix, rest), prefix, command, target, clean)
  BY <1>1, <1>8, BehindRead
<1>10. line # <<>> /\ ~(pe > Len(line))
  <2>1. Len(line) # 0 /\ ~(pe > Len(line))
    BY <1>1, <1>2, <1>4
  <2>. QED BY <1>1, <2>1, NotEmpty, Zenon
<1>11. line[1] = ":"
  BY <1>2, Zenon DEF IsColon
<1>12. ParseIrcLine(line) = ReadBehind(prefix, rest)
  BY <1>5, <1>6, <1>10, <1>11, Zenon DEF ParseIrcLine, PrefixEndsAt
<1>. QED BY <1>9, <1>12, Zenon DEF IsHeardAs

-----------------------------------------------------------------------------
(***************************************************************************)
(* What the gateway makes of a text                                        *)
(***************************************************************************)

Dropped == {" ", "CR", "LF"}
IsKept(kept, text, n) == kept = {j \in 1..n : text[j] \notin Dropped}

\* What is left is from the first place that is kept to the last.
IsTrimmed(trimmed, text, n, lo, hi) ==
  /\ lo \in 1..n /\ hi \in 1..n /\ lo <= hi /\ trimmed = SubSeq(text, lo, hi)
  /\ \A j \in 1..n : text[j] \notin Dropped => lo <= j /\ j <= hi

LEMMA TrimCut ==
  ASSUME NEW Symbol, NEW text \in Seq(Symbol), NEW n \in Nat, n = Len(text), Trim(text) # <<>>
  PROVE  \E lo, hi \in Nat : IsTrimmed(Trim(text), text, n, lo, hi)
<1>1. PICK kept : IsKept(kept, text, n)
  BY DEF IsKept
<1>2. DOMAIN text = 1..n
  BY DomainOf, Zenon
<1>3. Trim(text) = IF kept = {} THEN <<>> ELSE SubSeq(text, Min(kept), Max(kept))
  BY <1>1, <1>2, Zenon DEF Trim, IsKept, Dropped
<1>4. kept # {}
  BY <1>3, Zenon
<1>5. kept \in SUBSET Nat /\ \A j \in kept : j \in 1..n
  BY <1>1 DEF IsKept
<1>6. PICK lo \in kept : \A j \in kept : lo <= j
  BY <1>4, <1>5, SmallestNumber
<1>7. PICK hi \in kept : \A j \in kept : j <= hi
  <2>. DEFINE above == {k \in 0..n : \E j \in kept : j = n - k}
  <2>1. PICK one \in kept : TRUE
    BY <1>4
  <2>2. one \in 1..n
    BY <1>5
  <2>3. n - one \in above
    <3>1. n - one \in 0..n /\ one = n - (n - one)
      BY <2>2
    <3>. QED BY <3>1
  <2>4. above \in SUBSET Nat
    OBVIOUS
  <2>5. PICK k \in above : \A other \in above : k <= other
    <3>. HIDE DEF above
    <3>. QED BY <2>3, <2>4, SmallestNumber
  <2>6. PICK top \in kept : top = n - k /\ k \in 0..n
    BY <2>5
  <2>7. ASSUME NEW j \in kept PROVE j <= top
    <3>1. j \in 1..n
      BY <1>5
    <3>2. n - j \in 0..n /\ j = n - (n - j)
      BY <3>1
    <3>3. n - j \in above
      BY <3>2
    <3>4. k <= n - j
      BY <2>5, <3>3
    <3>. QED BY <2>6, <3>1, <3>4
  <2>. QED BY <2>6, <2>7
<1>8. lo \in 1..n /\ hi \in 1..n /\ lo <= hi
  BY <1>5, <1>6, <1>7
<1>9. Min(kept) = lo
  <2>1. PICK first : first = Min(kept)
    OBVIOUS
  <2>2. first \in kept /\ \A j \in kept : first <= j
    BY <1>6, <2>1, Zenon DEF Min
  <2>3. first <= lo /\ lo <= first /\ first \in Nat /\ lo \in Nat
    BY <1>5, <1>6, <2>2
  <2>. QED BY <2>1, <2>3
<1>10. Max(kept) = hi
  <2>1. PICK last : last = Max(kept)
    OBVIOUS
  <2>2. last \in kept /\ \A j \in kept : last >= j
    <3>1. \A j \in kept : hi >= j
      BY <1>5, <1>7
    <3>. QED BY <2>1, <3>1, Zenon DEF Max
  <2>3. hi <= last /\ last <= hi /\ last \in Nat /\ hi \in Nat
    BY <1>5, <1>7, <2>2
  <2>. QED BY <2>1, <2>3
<1>11. \A j \in 1..n : text[j] \notin Dropped => j \in kept
  BY <1>1 DEF IsKept
<1>12. IsTrimmed(Trim(text), text, n, lo, hi)
  BY <1>3, <1>4, <1>6, <1>7, <1>8, <1>9, <1>10, <1>11, Zenon DEF IsTrimmed
<1>13. lo \in Nat /\ hi \in Nat
  BY <1>5, <1>6, <1>7
<1>. QED BY <1>12, <1>13

\* It is a text with the same symbols but blanks and line ends.
LEMMA TrimType ==
  ASSUME NEW Symbol, NEW text \in Seq(Symbol), Trim(text) # <<>>,
         NEW c, c \notin Dropped
  PROVE  Trim(text) \in Seq(Symbol) /\ (Has(Trim(text), c) <=> Has(text, c))
<1>1. PICK n \in Nat : n = Len(text)
  OBVIOUS
<1>2. PICK lo, hi \in Nat : IsTrimmed(Trim(text), text, n, lo, hi)
  BY <1>1, TrimCut
<1>3. PICK trimmed : trimmed = Trim(text)
  OBVIOUS
<1>4. /\ lo \in 1..n /\ hi \in 1..n /\ lo <= hi /\ trimmed = SubSeq(text, lo, hi)
      /\ \A j \in 1..n : text[j] \notin Dropped => lo <= j /\ j <= hi
  BY <1>2, <1>3 DEF IsTrimmed
<1>5. PICK m \in Nat : m = hi + 1 - lo
  BY <1>4
<1>6. /\ trimmed \in Seq(Symbol) /\ Len(trimmed) = m
      /\ \A k \in 1..m : trimmed[k] = text[lo + k - 1]
  <2>1. PICK a \in 1..Len(text) + 1 : a = lo
    BY <1>1, <1>4
  <2>2. PICK z \in a - 1..Len(text) : z = hi
    BY <1>1, <1>4, <2>1
  <2>3. trimmed = SubSeq(text, a, z)
    BY <1>4, <2>1, <2>2
  <2>4. /\ trimmed \in Seq(Symbol) /\ Len(trimmed) = z + 1 - a
        /\ \A k \in 1..z + 1 - a : trimmed[k] = text[a + k - 1]
    BY <2>3, PartType
  <2>. QED BY <1>5, <2>1, <2>2, <2>4
<1>7. DOMAIN text = 1..n /\ DOMAIN trimmed = 1..m
  BY <1>1, <1>6, DomainOf, Zenon
<1>8. ASSUME NEW k \in 1..m, trimmed[k] = c PROVE \E j \in 1..n : text[j] = c
  <2>1. lo + k - 1 \in 1..n
    BY <1>4, <1>5
  <2>. QED BY <1>6, <1>8, <2>1
<1>9. ASSUME NEW j \in 1..n, text[j] = c PROVE \E k \in 1..m : trimmed[k] = c
  <2>1. lo <= j /\ j <= hi
    BY <1>4, <1>9
  <2>2. PICK k \in 1..m : lo + k - 1 = j
    <3>1. j + 1 - lo \in 1..m /\ lo + (j + 1 - lo) - 1 = j
      BY <1>4, <1>5, <2>1
    <3>. QED BY <3>1
  <2>. QED BY <1>6, <1>9, <2>2
<1>10. Has(trimmed, c) <=> Has(text, c)
  BY <1>7, <1>8, <1>9, Zenon DEF Has
<1>. QED BY <1>3, <1>6, <1>10, Zenon

\* Line ends become blanks.
LineEnds == {"CR", "LF"}
LEMMA CleanedType ==
  ASSUME NEW Symbol, NEW blank \in Symbol, IsBlank(blank), NEW text \in Seq(Symbol)
  PROVE  /\ Cleaned(text) \in Seq(Symbol) /\ Len(Cleaned(text)) = Len(text)
         /\ \A c \in LineEnds : ~Has(Cleaned(text), c)
         /\ \A c : c \notin LineEnds /\ c # blank => (Has(Cleaned(text), c) <=> Has(text, c))
<1>1. PICK n \in Nat : n = Len(text)
  OBVIOUS
<1>2. DOMAIN text = 1..n
  BY <1>1, DomainOf, Zenon
<1>4. PICK cleaned : cleaned = Cleaned(text)
  OBVIOUS
<1>5. cleaned = [j \in 1..n |-> IF text[j] \in LineEnds THEN blank ELSE text[j]]
  BY <1>2, <1>4, Zenon DEF Cleaned, LineEnds, IsBlank
<1>6. cleaned \in [1..n -> Symbol]
  <2>1. \A j \in 1..n : text[j] \in Symbol
    BY <1>1
  <2>. QED BY <1>5, <2>1
<1>7. cleaned \in Seq(Symbol) /\ Len(cleaned) = n /\ DOMAIN cleaned = 1..n
  BY <1>6
<1>8. \A j \in 1..n : cleaned[j] = IF text[j] \in LineEnds THEN blank ELSE text[j]
  BY <1>5
<1>9. blank \notin LineEnds
  BY DEF IsBlank, LineEnds
<1>10. \A j \in 1..n : cleaned[j] \notin LineEnds
  BY <1>8, <1>9, Zenon
<1>11. \A c \in LineEnds : ~Has(cleaned, c)
  BY <1>7, <1>10, Zenon DEF Has
<1>12. \A c : c \notin LineEnds /\ c # blank => (Has(cleaned, c) <=> Has(text, c))
  BY <1>2, <1>7, <1>8, Zenon DEF Has
<1>. QED BY <1>1, <1>4, <1>7, <1>11, <1>12, Zenon

\* What would break the line of a client is in its text.
LEMMA SentBreaks ==
  ASSUME NEW Symbol, NEW command \in Symbol, IsPlain(command),
         NEW target \in Seq(Symbol), IsSafeToken(target), NEW text \in Seq(Symbol),
         NEW blank \in Symbol, IsBlank(blank), NEW colon \in Symbol, IsColon(colon),
         NEW line, NEW safe, NEW n, NEW l, NEW t \in Nat, NEW x \in Nat,
         Sent(line, Symbol, n, command, blank, safe, l),
         Addressed(safe, target, t, blank, colon, text, x, l), NEW c \in Breaks
  PROVE  Has(line, c) <=> Has(text, c)
<1>1. /\ line \in Seq(Symbol) /\ n \in Nat /\ l \in Nat
      /\ n = Len(line) /\ n = 2 + l /\ line[1] = command /\ line[2] = blank
      /\ \A k \in 1..l : line[2 + k] = safe[k]
  BY DEF Sent
<1>2. /\ t = Len(target) /\ x = Len(text) /\ l = t + 2 + x
      /\ \A k \in 1..t : safe[k] = target[k]
      /\ safe[t + 1] = blank /\ safe[t + 2] = colon
      /\ \A k \in 1..x : safe[t + 2 + k] = text[k]
  BY DEF Addressed
<1>3. command # c /\ blank # c /\ colon # c
  <2>1. blank \notin Breaks /\ colon \notin Breaks
    BY Blanks
  <2>2. command \notin Breaks
    BY Zenon DEF IsPlain
  <2>. QED BY <2>1, <2>2
<1>4. \A k \in 1..t : target[k] # c
  BY <1>2, TokenIsSafe
<1>5. DOMAIN line = 1..n /\ DOMAIN text = 1..x
  BY <1>1, <1>2, DomainOf, Zenon
<1>6. ASSUME NEW k \in 1..x, text[k] = c PROVE \E j \in 1..n : line[j] = c
  <2>1. t + 2 + k \in 1..l
    BY <1>2
  <2>2. 2 + (t + 2 + k) \in 1..n
    BY <1>1, <2>1
  <2>3. line[2 + (t + 2 + k)] = c
    BY <1>1, <1>2, <1>6, <2>1
  <2>. QED BY <2>2, <2>3
<1>7. ASSUME NEW j \in 1..n, line[j] = c PROVE \E k \in 1..x : text[k] = c
  <2>1. j # 1 /\ j # 2
    BY <1>1, <1>3, <1>7
  <2>2. PICK i \in 1..l : j = 2 + i
    <3>1. j - 2 \in 1..l /\ j = 2 + (j - 2)
      BY <1>1, <2>1
    <3>. QED BY <3>1
  <2>3. safe[i] = c
    BY <1>1, <1>7, <2>2
  <2>4. i \notin 1..t /\ i # t + 1 /\ i # t + 2
    BY <1>2, <1>3, <1>4, <2>3
  <2>5. PICK k \in 1..x : i = t + 2 + k
    <3>1. i \in 1..t + 2 + x
      BY <1>2
    <3>2. i - (t + 2) \in 1..x /\ i = t + 2 + (i - (t + 2))
      BY <2>4, <3>1
    <3>. QED BY <3>2
  <2>. QED BY <1>2, <2>3, <2>5
<1>. QED BY <1>5, <1>6, <1>7, Zenon DEF Has

\* A message for one target that exists is one line for others.
IsPassedOn(sent, from, target, text) ==
  sent = <<Command(from, <<"PRIVMSG">>, target \o <<" ", ":">> \o text)>>

LEMMA TwoOf ==
  ASSUME NEW message, NEW prefix, NEW command, NEW first, NEW second,
         message = [prefix |-> prefix, command |-> command, params |-> <<first, second>>]
  PROVE  /\ ~(Len(message.params) < 2)
         /\ message.params[1] = first /\ message.params[2] = second
OBVIOUS

LEMMA PassedOn ==
  ASSUME NEW Symbol, NEW target \in Seq(Symbol), target # <<>>, ~Has(target, ","),
         NEW text, text # <<>>, NEW known, target \in DOMAIN known, NEW from, NEW message,
         NEW prefix, NEW command,
         message = [prefix |-> prefix, command |-> command, params |-> <<target, text>>]
  PROVE  IsPassedOn(Privmsg(message, known, from), from, known[target], text)
<1>1. ~(Len(message.params) < 2) /\ message.params[1] = target /\ message.params[2] = text
  BY TwoOf, Zenon
<1>2. PICK targets : targets = SplitCommaList(message.params[1])
  OBVIOUS
<1>3. targets = <<target>>
  BY <1>1, <1>2, FirstPiece, Zenon
<1>4. DOMAIN targets = {1} /\ targets[1] = target
  BY <1>3, OneOf, Zenon
<1>. DEFINE Relay(name) == IF name \in DOMAIN known
                          THEN Command(from, <<"PRIVMSG">>,
                                       known[name] \o <<" ", ":">> \o text)
                          ELSE <<>>
<1>5. PICK only : only = Relay(target)
  OBVIOUS
<1>6. only = Command(from, <<"PRIVMSG">>, known[target] \o <<" ", ":">> \o text)
  BY <1>5, Zenon
<1>7. PICK sent : sent = [j \in DOMAIN targets |-> Relay(targets[j])]
  OBVIOUS
<1>8. Privmsg(message, known, from) = sent
  BY <1>1, <1>2, <1>7, Zenon DEF Privmsg
<1>9. sent = [j \in {1} |-> only]
  BY <1>4, <1>5, <1>7, Zenon
<1>10. sent = <<only>>
  BY <1>9, OnlyOne, Zenon
<1>. QED BY <1>6, <1>8, <1>10, Zenon DEF IsPassedOn

LEMMA TextAlwaysArrives ==
  ASSUME NEW Symbol, Alphabet \subseteq Symbol, NEW target \in Seq(Symbol),
         IsSafeToken(target), ~Has(target, ","), NEW text \in Seq(Symbol),
         NEW known, target \in DOMAIN known, known[target] \in Seq(Symbol),
         IsSafeToken(known[target]), NEW maxParams \in Nat, maxParams >= 2
  PROVE  TextArrives(target, text, known, maxParams)
<1>1. PICK blank \in Symbol : IsBlank(blank)
  BY Zenon DEF IsBlank, Alphabet
<1>2. PICK colon \in Symbol : IsColon(colon)
  BY Zenon DEF IsColon, Alphabet
<1>3. PICK command \in Symbol : command = "PRIVMSG"
  BY Zenon DEF Alphabet
<1>4. IsPlain(command)
  BY <1>3 DEF IsPlain, Breaks
<1>5. PICK sender \in Seq(Symbol) : sender = Sender /\ IsSafeToken(sender)
  BY SenderType, SenderIsSafe, Zenon
<1>0. PICK name \in Seq(Symbol) : name = known[target] /\ IsSafeToken(name)
  OBVIOUS
<1>. DEFINE sentOn(line) == {Privmsg(message, known, Sender) : message \in Parse(line, maxParams)}
            heard == [prefix |-> Sender, command |-> <<"PRIVMSG">>,
                      params |-> <<name>>, trailing |-> Cleaned(Trim(text))]
            arrives(line) ==
              IF Has(text, "NUL") THEN sentOn(line) = {}
              ELSE \E relayed \in UNION {Range(sent) : sent \in sentOn(line)} :
                     sentOn(line) = {<<relayed>>} /\ ParseIrcLine(relayed) = {heard}
<1>6. ASSUME NEW line \in GatewayPrivmsg(target, text)
      PROVE  ~Has(line, "CR") /\ ~Has(line, "LF") /\ arrives(line)
  <2>1. Trim(text) # <<>>
    BY <1>6, Zenon DEF GatewayPrivmsg
  <2>2. line = <<"PRIVMSG", " ">> \o target \o <<" ", ":">> \o Cleaned(Trim(text))
    BY <1>6, <2>1, Zenon DEF GatewayPrivmsg
  <2>3. PICK nul : nul = "NUL"
    OBVIOUS
  <2>4. nul \notin Dropped /\ nul \notin LineEnds /\ nul # blank /\ nul \in Breaks
    <3>1. blank = " "
      BY <1>1, Zenon DEF IsBlank
    <3>. QED BY <2>3, <3>1 DEF Dropped, LineEnds, Breaks
  <2>5. PICK trimmed \in Seq(Symbol) :
          trimmed = Trim(text) /\ trimmed # <<>> /\ (Has(trimmed, nul) <=> Has(text, nul))
    BY <2>1, <2>4, TrimType, Zenon
  <2>6. PICK typed \in Seq(Symbol) : typed = Cleaned(trimmed) /\ Len(typed) = Len(trimmed)
    BY <1>1, CleanedType, Zenon
  <2>7. \A c \in LineEnds : ~Has(typed, c)
    BY <1>1, <2>6, CleanedType, Zenon
  <2>8. Has(typed, nul) <=> Has(text, nul)
    <3>1. \A c : c \notin LineEnds /\ c # blank => (Has(typed, c) <=> Has(trimmed, c))
      <4>1. \A c : c \notin LineEnds /\ c # blank =>
                    (Has(Cleaned(trimmed), c) <=> Has(trimmed, c))
        BY <1>1, CleanedType, Zenon
      <4>. QED BY <2>6, <4>1
    <3>2. Has(typed, nul) <=> Has(trimmed, nul)
      BY <2>4, <3>1, Zenon
    <3>. QED BY <2>5, <3>2
  <2>9. typed # <<>>
    BY <2>5, <2>6, NotEmpty, Zenon
  <2>10. IsPlainLine(line, command, target, typed, blank, colon)
    BY <1>1, <1>2, <1>3, <2>2, <2>5, <2>6, Zenon DEF IsPlainLine, IsBlank, IsColon
  <2>11. PICK safe, n, l, t, x :
           /\ Sent(line, Symbol, n, command, blank, safe, l)
           /\ t \in Nat /\ x \in Nat
           /\ Addressed(safe, target, t, blank, colon, typed, x, l)
    BY <2>10, SentLine, Zenon
  <2>12. \A c \in Breaks : Has(line, c) <=> Has(typed, c)
    BY <1>1, <1>2, <1>4, <2>11, SentBreaks, Zenon
  <2>13. ~Has(line, "CR") /\ ~Has(line, "LF")
    BY <2>7, <2>12, Zenon DEF LineEnds, Breaks
  <2>14. IsSentAs(line, maxParams, command, target, typed)
    BY <1>1, <1>2, <1>4, <2>11, SentParsed, Zenon
  <2>15. Has(line, "NUL") <=> Has(text, "NUL")
    BY <2>3, <2>4, <2>8, <2>12, Zenon
  <2>16. ~(Len(<<target, typed>>) > maxParams)
    BY TwoParams, Zenon
  <2>17. CASE Has(text, "NUL")
    <3>1. Parse(line, maxParams) = {}
      BY <2>14, <2>15, <2>17, Zenon DEF IsSentAs
    <3>2. sentOn(line) = {}
      BY <3>1, Zenon
    <3>. QED BY <2>13, <2>17, <3>2, Zenon
  <2>18. CASE ~Has(text, "NUL")
    <3>1. PICK message :
            message = [prefix |-> <<>>, command |-> <<command>>, params |-> <<target, typed>>]
      OBVIOUS
    <3>2. Parse(line, maxParams) = {message}
      BY <2>14, <2>15, <2>16, <2>18, <3>1, Zenon DEF IsSentAs
    <3>3. target # <<>>
      BY Zenon DEF IsSafeToken
    <3>4. IsPassedOn(Privmsg(message, known, Sender), Sender, name, typed)
      BY <1>0, <2>9, <3>1, <3>3, PassedOn, Zenon
    <3>5. PICK relayed : relayed = Command(sender, <<command>>, name \o <<blank, colon>> \o typed)
      OBVIOUS
    <3>6. Privmsg(message, known, Sender) = <<relayed>>
      BY <1>1, <1>2, <1>3, <1>5, <3>4, <3>5, Zenon DEF IsPassedOn, IsBlank, IsColon
    <3>7. SanitizeMessageText(typed) = typed
      <4>1. \A c \in Breaks : ~Has(typed, c)
        BY <2>3, <2>7, <2>8, <2>18, Zenon DEF Breaks, LineEnds
      <4>2. DOMAIN typed = 1..Len(typed)
        BY DomainOf, Zenon
      <4>3. \A j \in 1..Len(typed) : typed[j] \notin Breaks
        BY <4>1, <4>2, Zenon DEF Has
      <4>4. Without(typed, Breaks) = typed
        BY <4>3, SanitizedClean, Zenon
      <4>. QED BY <4>4, Zenon DEF SanitizeMessageText, Breaks
    <3>8. PICK safe2, n2, m2, l2, t2, x2 :
            Delivered(relayed, Symbol, sender, command, name, typed, safe2, blank, colon,
                      n2, m2, l2, t2, x2)
      BY <1>0, <1>1, <1>2, <1>4, <1>5, <3>5, <3>7, DeliveredLine, Zenon
    <3>9. IsHeardAs(relayed, sender, command, name, typed)
      BY <1>0, <1>1, <1>2, <1>4, <1>5, <3>8, DeliveredHeard, Zenon
    <3>10. ParseIrcLine(relayed) = {heard}
      BY <1>3, <1>5, <2>5, <2>6, <2>18, <3>9, Zenon DEF IsHeardAs, IsBehind
    <3>11. sentOn(line) = {<<relayed>>}
      <4>1. PICK list : list = Privmsg(message, known, Sender)
        OBVIOUS
      <4>2. sentOn(line) = {list}
        BY <3>2, <4>1, Zenon
      <4>. QED BY <3>6, <4>1, <4>2, Zenon
    <3>12. relayed \in UNION {Range(sent) : sent \in sentOn(line)}
      <4>1. relayed \in Range(<<relayed>>)
        <5>1. PICK list : list = <<relayed>>
          OBVIOUS
        <5>2. DOMAIN list = {1} /\ list[1] = relayed
          BY <5>1, OneOf, Zenon
        <5>. QED BY <5>1, <5>2, Zenon DEF Range
      <4>. QED BY <3>11, <4>1, Zenon
    <3>. QED BY <2>13, <2>18, <3>10, <3>11, <3>12, Zenon
  <2>. QED BY <2>17, <2>18
<1>. QED BY <1>0, <1>6, Zenon DEF TextArrives

\* What one user types another reads, once and whole, with a blank for every
\* line end, through GatewayPrivmsg, Parse, Privmsg and ParseIrcLine: for every
\* alphabet, every text, however long, every target that is a safe token
\* without a comma, whatever spelling the server has for it, and so for the
\* run's short texts.
THEOREM TextsAlwaysArrive ==
  /\ \A Symbol : Alphabet \subseteq Symbol =>
       \A text \in Seq(Symbol), target \in {t \in Seq(Symbol) : IsSafeToken(t) /\ ~Has(t, ",")},
          maxParams \in Nat :
         maxParams >= 2 =>
           \A known : (/\ target \in DOMAIN known
                       /\ known[target] \in {t \in Seq(Symbol) : IsSafeToken(t)}) =>
                         TextArrives(target, text, known, maxParams)
  /\ MCSpec => []TextsArrive
<1>1. ASSUME NEW Symbol, Alphabet \subseteq Symbol, NEW text \in Seq(Symbol),
             NEW target \in {t \in Seq(Symbol) : IsSafeToken(t) /\ ~Has(t, ",")},
             NEW maxParams \in Nat, maxParams >= 2, NEW known, target \in DOMAIN known,
             known[target] \in {t \in Seq(Symbol) : IsSafeToken(t)}
      PROVE  TextArrives(target, text, known, maxParams)
  <2>1. /\ target \in Seq(Symbol) /\ IsSafeToken(target) /\ ~Has(target, ",")
        /\ known[target] \in Seq(Symbol) /\ IsSafeToken(known[target])
    BY <1>1, Zenon
  <2>. QED BY <1>1, <2>1, TextAlwaysArrives, Zenon
<1>2. ASSUME NEW text \in BoundedSeq({" ", ":", "CR", "LF", "NUL", "x"}, 5)
      PROVE  TextArrives(<<"#C">>, text, MCChannels, MCMaxParams)
  <2>1. text \in Seq(MCSymbol)
    <3>1. {" ", ":", "CR", "LF", "NUL", "x"} \subseteq MCSymbol
      BY Zenon DEF MCSymbol, Alphabet
    <3>2. 5 \in Nat
      OBVIOUS
    <3>. QED BY <3>1, <3>2, ShortTexts, Zenon
  <2>2. /\ <<"#C">> \in DOMAIN MCChannels
        /\ MCChannels[<<"#C">>] \in {t \in Seq(MCSymbol) : IsSafeToken(t)}
    <3>1. <<"#C">> \in DOMAIN MCChannels
      BY ChannelsAreSafe, Zenon
    <3>. QED BY <3>1, ChannelsAreSafe, Zenon
  <2>3. <<"#C">> \in Seq(MCSymbol) /\ IsSafeToken(<<"#C">>)
    BY ChannelsAreSafe, Zenon
  <2>4. ~Has(<<"#C">>, ",")
    <3>1. PICK t : t = <<"#C">>
      OBVIOUS
    <3>2. DOMAIN t = {1} /\ t[1] = "#C"
      BY <3>1, OneOf, Zenon
    <3>3. t[1] # ","
      BY <3>2
    <3>. QED BY <3>1, <3>2, <3>3, Zenon DEF Has
  <2>5. Alphabet \subseteq MCSymbol
    BY Zenon DEF MCSymbol
  <2>6. <<"#C">> \in {t \in Seq(MCSymbol) : IsSafeToken(t) /\ ~Has(t, ",")}
    BY <2>3, <2>4, Zenon
  <2>. QED BY <1>1, <2>1, <2>2, <2>5, <2>6, ChannelsAreSafe, Zenon
<1>3. TextsArrive
  BY <1>2 DEF TextsArrive, EveryText
<1>4. MCSpec => []TextsArrive
  BY <1>3, PTL
<1>5. ASSUME NEW Symbol, Alphabet \subseteq Symbol, NEW text \in Seq(Symbol),
             NEW target \in {t \in Seq(Symbol) : IsSafeToken(t) /\ ~Has(t, ",")},
             NEW maxParams \in Nat, maxParams >= 2
      PROVE  \A known : (/\ target \in DOMAIN known
                         /\ known[target] \in {t \in Seq(Symbol) : IsSafeToken(t)}) =>
                           TextArrives(target, text, known, maxParams)
  BY <1>1, <1>5
<1>. QED BY <1>4, <1>5, Zenon

=============================================================================
