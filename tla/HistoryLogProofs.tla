-------------------------- MODULE HistoryLogProofs --------------------------
(***************************************************************************)
(* The memory of the gateway is bounded, for all limits and whatever names *)
(* are made up, and a replay is the latest of what was said.               *)
(***************************************************************************)
EXTENDS HistoryLog, TLAPS

Entry == [name : Chan, messages : Seq(Nat)]
Kept == history \in Seq(Entry)
Counted == said \in [Chan -> Nat]

\* A list is trimmed to its latest n messages: never more than n, and none is
\* lost from a list that is not empty.
LEMMA LatestFits ==
  ASSUME NEW list \in Seq(Nat), NEW n \in Nat \ {0}
  PROVE  /\ Latest(list, n) \in Seq(Nat)
         /\ Len(Latest(list, n)) <= n
         /\ Len(list) > 0 => Len(Latest(list, n)) > 0
<1>1. CASE Len(list) <= n
  BY <1>1 DEF Latest
<1>2. CASE Len(list) > n
  <2>1. Latest(list, n) = SubSeq(list, Len(list) - n + 1, Len(list))
    BY <1>2 DEF Latest
  <2> QED
    BY <1>2, <2>1
<1> QED
  BY <1>1, <1>2

\* One more message, and the list is trimmed.
LEMMA OneMoreFits ==
  ASSUME NEW list \in Seq(Nat), NEW message \in Nat
  PROVE  /\ Trimmed(Append(list, message)) \in Seq(Nat)
         /\ Len(Trimmed(Append(list, message))) \in 1..Limit
<1> DEFINE more == Append(list, message)
<1>1. more \in Seq(Nat) /\ Len(more) > 0
  OBVIOUS
<1>2. Limit \in Nat \ {0}
  BY LimitsAreEffective
<1> HIDE DEF more
<1>3. /\ Latest(more, Limit) \in Seq(Nat)
      /\ Len(Latest(more, Limit)) <= Limit
      /\ Len(Latest(more, Limit)) > 0
  BY <1>1, <1>2, LatestFits
<1>4. Len(Latest(more, Limit)) \in 1..Limit
  BY <1>2, <1>3
<1> QED
  BY <1>3, <1>4 DEF Trimmed, more

\* Making room keeps what is left, in order, and leaves a place.
LEMMA RoomForFits ==
  ASSUME Kept, MemoryIsBounded
  PROVE  /\ RoomFor(history) \in Seq(Entry)
         /\ Len(RoomFor(history)) < ChannelLimit
         /\ \A i \in DOMAIN RoomFor(history) :
              \E k \in DOMAIN history : RoomFor(history)[i] = history[k]
         /\ \A i, j \in DOMAIN RoomFor(history) :
              RoomFor(history)[i].name = RoomFor(history)[j].name => i = j
<1> USE LimitsAreEffective DEF Kept, MemoryIsBounded
<1>1. CASE Len(history) >= ChannelLimit
  <2>1. RoomFor(history) = Tail(history) /\ Len(history) > 0
    BY <1>1 DEF RoomFor
  <2>2. /\ Tail(history) \in Seq(Entry)
        /\ Len(Tail(history)) = Len(history) - 1
        /\ \A i \in DOMAIN Tail(history) :
             i + 1 \in DOMAIN history /\ Tail(history)[i] = history[i + 1]
    BY <2>1
  <2>3. ASSUME NEW i \in DOMAIN Tail(history), NEW j \in DOMAIN Tail(history),
               Tail(history)[i].name = Tail(history)[j].name
        PROVE  i = j
    <3>1. i + 1 = j + 1
      BY <2>2, <2>3
    <3> QED
      BY <3>1, <2>2
  <2> QED
    BY <2>1, <2>2, <2>3
<1>2. CASE ~(Len(history) >= ChannelLimit)
  <2>1. RoomFor(history) = history
    BY <1>2 DEF RoomFor
  <2> QED
    BY <1>2, <2>1
<1> QED
  BY <1>1, <1>2

\* A message for a channel that is remembered.
LEMMA AddToKnown ==
  ASSUME Kept, MemoryIsBounded,
         NEW c \in Remembered(history), NEW message \in Nat,
         history' = Add(history, c, message)
  PROVE  Kept' /\ MemoryIsBounded'
<1> DEFINE new(i) == [name |-> c,
                      messages |-> Trimmed(Append(history[i].messages, message))]
           h == [i \in DOMAIN history |->
                   IF history[i].name = c THEN new(i) ELSE history[i]]
<1>1. history' = h
  BY DEF Add
<1>2. ASSUME NEW i \in DOMAIN history
      PROVE  history[i].name \in Chan /\ history[i].messages \in Seq(Nat)
  <2>1. history[i] \in Entry
    BY DEF Kept
  <2> QED
    BY <2>1 DEF Entry
<1>3. c \in Chan
  BY <1>2 DEF Remembered
<1>4. ASSUME NEW i \in DOMAIN history
      PROVE  new(i) \in Entry /\ Len(new(i).messages) \in 1..Limit
  <2>1. /\ Trimmed(Append(history[i].messages, message)) \in Seq(Nat)
        /\ Len(Trimmed(Append(history[i].messages, message))) \in 1..Limit
    BY <1>2, OneMoreFits
  <2> QED
    BY <1>3, <2>1 DEF Entry
<1>5. h \in Seq(Entry) /\ Len(h) = Len(history) /\ DOMAIN h = DOMAIN history
  <2>1. h \in [1..Len(history) -> Entry]
    BY <1>4 DEF Kept
  <2> QED
    BY <2>1 DEF Kept
<1>6. \A i \in DOMAIN history : h[i].name = history[i].name
  OBVIOUS
<1>7. \A i \in DOMAIN history : Len(h[i].messages) \in 1..Limit
  BY <1>4 DEF MemoryIsBounded
<1> HIDE DEF h
<1> QED
  BY <1>1, <1>5, <1>6, <1>7 DEF Kept, MemoryIsBounded

\* A message for a channel that is not.
LEMMA AddToNew ==
  ASSUME Kept, MemoryIsBounded,
         NEW c \in Chan, c \notin Remembered(history), NEW message \in Nat,
         history' = Add(history, c, message)
  PROVE  Kept' /\ MemoryIsBounded'
<1> DEFINE r == RoomFor(history)
           e == [name |-> c, messages |-> <<message>>]
<1>1. history' = Append(r, e)
  BY DEF Add
<1>2. /\ r \in Seq(Entry)
      /\ Len(r) < ChannelLimit
      /\ \A i \in DOMAIN r : \E k \in DOMAIN history : r[i] = history[k]
      /\ \A i, j \in DOMAIN r : r[i].name = r[j].name => i = j
  BY RoomForFits
<1>3. e \in Entry /\ e.name = c /\ Len(e.messages) \in 1..Limit
  BY LimitsAreEffective DEF Entry
<1>4. \A i \in DOMAIN r : r[i].name # c /\ Len(r[i].messages) \in 1..Limit
  BY <1>2 DEF Remembered, MemoryIsBounded
<1> HIDE DEF r, e
<1>5. /\ Append(r, e) \in Seq(Entry)
      /\ Len(Append(r, e)) = Len(r) + 1
      /\ \A i \in DOMAIN Append(r, e) :
           \/ i \in DOMAIN r /\ Append(r, e)[i] = r[i]
           \/ i = Len(r) + 1 /\ Append(r, e)[i] = e
  BY <1>2, <1>3
<1>6. Len(Append(r, e)) <= ChannelLimit
  BY <1>2, <1>5, LimitsAreEffective
<1>7. \A i, j \in DOMAIN Append(r, e) :
        Append(r, e)[i].name = Append(r, e)[j].name => i = j
  BY <1>2, <1>3, <1>4, <1>5
<1>8. \A i \in DOMAIN Append(r, e) : Len(Append(r, e)[i].messages) \in 1..Limit
  BY <1>3, <1>4, <1>5
<1> QED
  BY <1>1, <1>5, <1>6, <1>7, <1>8 DEF Kept, MemoryIsBounded

\* Whatever names are made up, so many channels are remembered, each once, and
\* of each between one and Limit messages: history.js never grows beyond them.
THEOREM MemoryIsBoundedAlways == LogSpec => []MemoryIsBounded
<1> DEFINE Inv == Kept /\ Counted /\ MemoryIsBounded
<1>1. LogInit => Inv
  BY LimitsAreEffective DEF LogInit, Kept, Counted, MemoryIsBounded, NoHistory
<1>2. Inv /\ [LogNext]_logVars => Inv'
  <2> SUFFICES ASSUME Inv, [LogNext]_logVars
               PROVE  Inv'
    OBVIOUS
  <2>1. ASSUME NEW c \in Chan, Say(c)
        PROVE  Inv'
    <3>1. said[c] + 1 \in Nat /\ history' = Add(history, c, said[c] + 1)
      BY <2>1 DEF Say, Counted
    <3>2. Counted'
      BY <2>1 DEF Say, Counted
    <3>3. Kept' /\ MemoryIsBounded'
      BY <3>1, AddToKnown, AddToNew DEF Kept
    <3> QED
      BY <3>2, <3>3
  <2>2. CASE UNCHANGED logVars
    BY <2>2 DEF logVars, Kept, Counted, MemoryIsBounded
  <2> QED
    BY <2>1, <2>2 DEF LogNext, Quiet
<1>3. Inv => MemoryIsBounded
  OBVIOUS
<1> QED
  BY <1>1, <1>2, <1>3, PTL DEF LogSpec

(***************************************************************************)
(* What is kept                                                            *)
(***************************************************************************)

Least(a, b) == IF a < b THEN a ELSE b

\* The latest n of s messages.
Newest(s, n) == [k \in 1..n |-> s - n + k]

LEMMA NewestIs ==
  ASSUME NEW s \in Nat, NEW n \in Nat, n <= s
  PROVE  /\ Newest(s, n) \in Seq(Nat) /\ Len(Newest(s, n)) = n
         /\ Append(Newest(s, n), s + 1) = Newest(s + 1, n + 1)
<1>1. Newest(s, n) \in [1..n -> Nat]
  BY DEF Newest
<1>2. Newest(s, n) \in Seq(Nat) /\ Len(Newest(s, n)) = n
  BY <1>1
<1> DEFINE more == Append(Newest(s, n), s + 1)
<1>3. more \in Seq(Nat) /\ Len(more) = n + 1
      /\ \A k \in 1..n + 1 : more[k] = IF k = n + 1 THEN s + 1 ELSE Newest(s, n)[k]
  BY <1>2
<1>4. more = [k \in 1..n + 1 |-> more[k]]
  BY <1>3
<1>5. \A k \in 1..n + 1 : more[k] = (s + 1) - (n + 1) + k
  BY <1>3 DEF Newest
<1> HIDE DEF more
<1>6. more = Newest(s + 1, n + 1)
  BY <1>4, <1>5 DEF Newest
<1> QED
  BY <1>2, <1>6 DEF more

LEMMA LatestOfNewest ==
  ASSUME NEW s \in Nat, NEW n \in Nat, n <= s, NEW m \in Nat \ {0}
  PROVE  Latest(Newest(s, n), m) = Newest(s, Least(n, m))
<1>1. Newest(s, n) \in Seq(Nat) /\ Len(Newest(s, n)) = n
  BY NewestIs
<1>2. CASE n <= m
  BY <1>1, <1>2 DEF Latest, Least
<1>3. CASE ~(n <= m)
  <2> DEFINE rest == SubSeq(Newest(s, n), n - m + 1, n)
  <2>1. Latest(Newest(s, n), m) = rest /\ Least(n, m) = m
    BY <1>1, <1>3 DEF Latest, Least
  <2>2. Len(rest) = m /\ rest = [k \in 1..m |-> Newest(s, n)[n - m + k]]
    BY <1>1, <1>3
  <2>3. \A k \in 1..m : Newest(s, n)[n - m + k] = s - m + k
    BY <1>3 DEF Newest
  <2> HIDE DEF rest
  <2>4. rest = Newest(s, m)
    BY <2>2, <2>3 DEF Newest
  <2> QED
    BY <2>1, <2>4
<1> QED
  BY <1>2, <1>3

(***************************************************************************)
(* The inductive invariant of the replay: a remembered channel has the     *)
(* latest of its messages since it was last evicted, and one that is not   *)
(* remembered has had none since.                                          *)
(***************************************************************************)
Forgotten == forgotten \in [Chan -> Nat] /\ \A c \in Chan : forgotten[c] <= said[c]

Since(c) == said[c] - forgotten[c]

KeptIsLatest ==
  /\ \A i \in DOMAIN history :
       history[i].messages =
         Newest(said[history[i].name], Least(Since(history[i].name), Limit))
  /\ \A c \in Chan \ Remembered(history) : forgotten[c] = said[c]

LogInv == Kept /\ Counted /\ MemoryIsBounded /\ Forgotten /\ KeptIsLatest

LEMMA NamesAreChannels ==
  ASSUME Kept, NEW i \in DOMAIN history
  PROVE  history[i].name \in Chan /\ history[i].name \in Remembered(history)
<1>1. history[i] \in Entry
  BY DEF Kept
<1> QED
  BY <1>1 DEF Entry, Remembered

\* Since the bound of a replay is within the bound of the memory, it cuts the
\* latest messages of the latest ones.
LEMMA ReplayOfKept ==
  ASSUME LogInv
  PROVE  ReplayIsLatest
<1> SUFFICES ASSUME NEW c \in Chan
             PROVE  Recent(history, c) = Newest(said[c], Least(Since(c), ReplayLimit))
  BY DEF ReplayIsLatest, Newest, Least, Since
<1>0. said[c] \in Nat /\ forgotten[c] \in Nat /\ Since(c) \in Nat /\ Since(c) <= said[c]
  BY DEF LogInv, Counted, Forgotten, Since
<1>1. CASE c \in Remembered(history)
  <2> DEFINE i == CHOOSE j \in DOMAIN history : history[j].name = c
  <2>1. i \in DOMAIN history /\ history[i].name = c
    BY <1>1 DEF Remembered
  <2>2. Recent(history, c) = Latest(history[i].messages, ReplayLimit)
    BY <1>1 DEF Recent
  <2> HIDE DEF i
  <2>3. history[i].messages = Newest(said[c], Least(Since(c), Limit))
    BY <2>1 DEF LogInv, KeptIsLatest
  <2> DEFINE n == Least(Since(c), Limit)
  <2>4. /\ n \in Nat /\ n <= said[c]
        /\ Least(n, ReplayLimit) = Least(Since(c), ReplayLimit)
    BY <1>0, LimitsAreEffective DEF Least
  <2>5. ReplayLimit \in Nat \ {0}
    BY LimitsAreEffective
  <2> HIDE DEF n
  <2>6. Latest(Newest(said[c], n), ReplayLimit) = Newest(said[c], Least(n, ReplayLimit))
    BY <1>0, <2>4, <2>5, LatestOfNewest
  <2> QED
    BY <2>2, <2>3, <2>4, <2>6 DEF n
<1>2. CASE c \notin Remembered(history)
  <2>1. Since(c) = 0
    BY <1>0, <1>2 DEF LogInv, KeptIsLatest, Since
  <2>2. Least(Since(c), ReplayLimit) = 0
    BY <2>1, LimitsAreEffective DEF Least
  <2>3. Newest(said[c], 0) = <<>>
    <3>1. Newest(said[c], 0) \in Seq(Nat) /\ Len(Newest(said[c], 0)) = 0
      <4>1. 0 \in Nat /\ 0 <= said[c]
        BY <1>0
      <4> QED
        BY <1>0, <4>1, NewestIs
    <3> QED
      BY <3>1
  <2>4. Recent(history, c) = <<>>
    BY <1>2 DEF Recent
  <2> QED
    BY <2>2, <2>3, <2>4
<1> QED
  BY <1>1, <1>2

\* One more message, trimmed: the latest of one more.
LEMMA OneMoreIsLatest ==
  ASSUME NEW s \in Nat, NEW since \in Nat, since <= s
  PROVE  Trimmed(Append(Newest(s, Least(since, Limit)), s + 1))
           = Newest(s + 1, Least(since + 1, Limit))
<1> DEFINE n == Least(since, Limit)
<1>1. /\ n \in Nat /\ n <= s /\ n + 1 \in Nat /\ n + 1 <= s + 1 /\ s + 1 \in Nat
      /\ Least(n + 1, Limit) = Least(since + 1, Limit)
      /\ Limit \in Nat \ {0}
  BY LimitsAreEffective DEF Least
<1> HIDE DEF n
<1>2. Append(Newest(s, n), s + 1) = Newest(s + 1, n + 1)
  BY <1>1, NewestIs
<1>3. Latest(Newest(s + 1, n + 1), Limit) = Newest(s + 1, Least(n + 1, Limit))
  BY <1>1, LatestOfNewest
<1> QED
  BY <1>1, <1>2, <1>3 DEF Trimmed, n

\* A message for a remembered channel: nothing is forgotten.
LEMMA KnownIsLatest ==
  ASSUME LogInv, NEW c \in Chan, Say(c), c \in Remembered(history)
  PROVE  Forgotten' /\ KeptIsLatest'
<1> DEFINE new(i) == [name |-> c,
                      messages |-> Trimmed(Append(history[i].messages, said[c] + 1))]
<1>1. history' = [i \in DOMAIN history |->
                    IF history[i].name = c THEN new(i) ELSE history[i]]
  BY DEF Say, Add
<1>2. /\ DOMAIN history' = DOMAIN history
      /\ \A i \in DOMAIN history : history'[i].name = history[i].name
  BY <1>1
<1>3. Remembered(history') = Remembered(history)
  BY <1>2 DEF Remembered
<1>4. /\ said \in [Chan -> Nat] /\ said' = [said EXCEPT ![c] = @ + 1]
      /\ forgotten \in [Chan -> Nat] /\ \A d \in Chan : forgotten[d] <= said[d]
  BY DEF Say, LogInv, Counted, Forgotten
<1>5. forgotten' = forgotten
  <2>1. forgotten' = [d \in Chan |-> forgotten[d]]
    BY <1>3 DEF Say
  <2> QED
    BY <1>4, <2>1
<1>6. Forgotten'
  BY <1>4, <1>5 DEF Forgotten
<1>7. ASSUME NEW i \in DOMAIN history
      PROVE  history'[i].messages =
               Newest(said'[history'[i].name], Least(said'[history'[i].name] - forgotten'[history'[i].name], Limit))
  <2>0. history[i].name \in Chan /\ history'[i].name = history[i].name
    BY <1>2, NamesAreChannels DEF LogInv
  <2>1. history[i].messages =
          Newest(said[history[i].name], Least(Since(history[i].name), Limit))
    BY DEF LogInv, KeptIsLatest
  <2>2. CASE history[i].name = c
    <3>1. history'[i].messages = Trimmed(Append(history[i].messages, said[c] + 1))
      BY <1>1, <2>2
    <3>2. /\ Since(c) \in Nat /\ Since(c) <= said[c] /\ said[c] \in Nat
          /\ said'[c] = said[c] + 1 /\ said'[c] - forgotten'[c] = Since(c) + 1
      BY <1>4, <1>5 DEF Since
    <3>3. Trimmed(Append(Newest(said[c], Least(Since(c), Limit)), said[c] + 1))
            = Newest(said[c] + 1, Least(Since(c) + 1, Limit))
      BY <3>2, OneMoreIsLatest
    <3> QED
      BY <2>0, <2>1, <2>2, <3>1, <3>2, <3>3
  <2>3. CASE history[i].name # c
    <3>1. history'[i] = history[i] /\ said'[history[i].name] = said[history[i].name]
      BY <1>1, <1>4, <2>0, <2>3
    <3>2. said'[history'[i].name] - forgotten'[history'[i].name] = Since(history[i].name)
      BY <1>5, <2>0, <3>1 DEF Since
    <3> QED
      BY <2>0, <2>1, <3>1, <3>2
  <2> QED
    BY <2>2, <2>3
<1>8. ASSUME NEW d \in Chan \ Remembered(history')
      PROVE  forgotten'[d] = said'[d]
  BY <1>3, <1>4, <1>5 DEF LogInv, KeptIsLatest
<1> QED
  BY <1>2, <1>6, <1>7, <1>8 DEF KeptIsLatest, Since

\* A message for a new channel, which may evict another: the evicted one has
\* had nothing since, and the new one has one message.
LEMMA NewIsLatest ==
  ASSUME LogInv, NEW c \in Chan, Say(c), c \notin Remembered(history)
  PROVE  Forgotten' /\ KeptIsLatest'
<1> DEFINE r == RoomFor(history)
           e == [name |-> c, messages |-> <<said[c] + 1>>]
<1>1. history' = Append(r, e)
  BY DEF Say, Add
<1>2. /\ r \in Seq(Entry)
      /\ \A i \in DOMAIN r : \E k \in DOMAIN history : r[i] = history[k]
  BY RoomForFits DEF LogInv
<1>3. /\ said \in [Chan -> Nat] /\ said' = [said EXCEPT ![c] = @ + 1]
      /\ forgotten \in [Chan -> Nat] /\ \A d \in Chan : forgotten[d] <= said[d]
      /\ forgotten[c] = said[c]
  BY DEF Say, LogInv, Counted, Forgotten, KeptIsLatest
<1>4. forgotten' = [d \in Chan |-> IF d \in Remembered(history) \ Remembered(history')
                                   THEN said[d] ELSE forgotten[d]]
  BY DEF Say
<1>5. e \in Entry /\ e.name = c /\ e.messages = <<said[c] + 1>>
  BY <1>3 DEF Entry
<1> HIDE DEF r, e
<1>6. /\ DOMAIN history' = 1..Len(r) + 1 /\ DOMAIN r = 1..Len(r)
      /\ \A i \in DOMAIN history' :
           \/ i \in DOMAIN r /\ history'[i] = r[i]
           \/ i = Len(r) + 1 /\ history'[i] = e
      /\ history'[Len(r) + 1] = e /\ Len(r) + 1 \in DOMAIN history'
  BY <1>1, <1>2, <1>5
<1>7. c \in Remembered(history')
  BY <1>5, <1>6 DEF Remembered
<1>8. \A d \in Chan : d # c => said'[d] = said[d]
  BY <1>3
<1>9. forgotten' \in [Chan -> Nat] /\ \A d \in Chan : forgotten'[d] <= said[d]
  BY <1>3, <1>4
<1>10. Forgotten'
  <2>1. ASSUME NEW d \in Chan
        PROVE  forgotten'[d] <= said'[d]
    <3>1. forgotten'[d] \in Nat /\ said[d] \in Nat /\ forgotten'[d] <= said[d]
      BY <1>3, <1>9
    <3>2. said'[d] = said[d] \/ said'[d] = said[d] + 1
      BY <1>3
    <3> QED
      BY <3>1, <3>2
  <2> QED
    BY <1>9, <2>1 DEF Forgotten
<1>11. ASSUME NEW i \in DOMAIN history'
       PROVE  history'[i].messages =
                Newest(said'[history'[i].name], Least(said'[history'[i].name] - forgotten'[history'[i].name], Limit))
  <2>1. CASE history'[i] = e
    <3>1. /\ said[c] \in Nat /\ said'[c] = said[c] + 1
          /\ forgotten'[c] = said[c] /\ said'[c] - forgotten'[c] = 1
      BY <1>3, <1>4 DEF Since
    <3>2. Least(1, Limit) = 1
      BY LimitsAreEffective DEF Least
    <3>3. Newest(said[c] + 1, 1) = <<said[c] + 1>>
      <4>1. Newest(said[c] + 1, 1) \in Seq(Nat) /\ Len(Newest(said[c] + 1, 1)) = 1
        <5>1. said[c] + 1 \in Nat /\ 1 \in Nat /\ 1 <= said[c] + 1
          BY <3>1
        <5> QED
          BY <5>1, NewestIs
      <4>2. Newest(said[c] + 1, 1)[1] = said[c] + 1
        BY <3>1 DEF Newest
      <4> QED
        BY <4>1, <4>2
    <3> QED
      BY <1>5, <2>1, <3>1, <3>2, <3>3
  <2>2. CASE i \in DOMAIN r /\ history'[i] = r[i]
    <3>1. PICK k \in DOMAIN history : history'[i] = history[k]
      BY <1>2, <2>2
    <3> DEFINE d == history[k].name
    <3>2. d \in Chan /\ d \in Remembered(history) /\ d # c
      BY NamesAreChannels DEF LogInv
    <3>3. d \in Remembered(history')
      BY <3>1 DEF Remembered
    <3>4. said'[d] = said[d] /\ forgotten'[d] = forgotten[d] /\ said'[d] - forgotten'[d] = Since(d)
      BY <1>4, <1>8, <3>2, <3>3 DEF Since
    <3>5. history[k].messages = Newest(said[d], Least(Since(d), Limit))
      BY DEF LogInv, KeptIsLatest
    <3> QED
      BY <3>1, <3>4, <3>5
  <2> QED
    BY <1>6, <2>1, <2>2
<1>12. ASSUME NEW d \in Chan \ Remembered(history')
       PROVE  forgotten'[d] = said'[d]
  <2>1. d # c
    BY <1>7
  <2>2. CASE d \in Remembered(history)
    BY <1>4, <1>8, <2>1, <2>2
  <2>3. CASE d \notin Remembered(history)
    <3>1. forgotten[d] = said[d]
      BY <2>3 DEF LogInv, KeptIsLatest
    <3> QED
      BY <1>4, <1>8, <2>1, <2>3, <3>1
  <2> QED
    BY <2>2, <2>3
<1> QED
  BY <1>10, <1>11, <1>12 DEF KeptIsLatest, Since

\* A replay is the latest messages of the channel since it was last evicted, in
\* order and without a gap (recent of history.js).
THEOREM ReplayIsLatestAlways == LogSpec => []ReplayIsLatest
<1>1. LogInit => LogInv
  <2> SUFFICES ASSUME LogInit
               PROVE  LogInv
    OBVIOUS
  <2>1. history = <<>> /\ Remembered(history) = {}
    BY DEF LogInit, NoHistory, Remembered
  <2>2. Kept /\ Counted /\ MemoryIsBounded /\ Forgotten
    BY LimitsAreEffective DEF LogInit, Kept, Counted, MemoryIsBounded, NoHistory, Forgotten
  <2>3. KeptIsLatest
    BY <2>1 DEF KeptIsLatest, LogInit
  <2> QED
    BY <2>2, <2>3 DEF LogInv
<1>2. LogInv /\ [LogNext]_logVars => LogInv'
  <2> SUFFICES ASSUME LogInv, [LogNext]_logVars
               PROVE  LogInv'
    OBVIOUS
  <2>1. ASSUME NEW c \in Chan, Say(c)
        PROVE  LogInv'
    <3>1. said[c] + 1 \in Nat /\ history' = Add(history, c, said[c] + 1) /\ Counted'
      BY <2>1 DEF Say, LogInv, Counted
    <3>2. Kept' /\ MemoryIsBounded'
      BY <3>1, AddToKnown, AddToNew DEF LogInv
    <3>3. Forgotten' /\ KeptIsLatest'
      BY <2>1, KnownIsLatest, NewIsLatest
    <3> QED
      BY <3>1, <3>2, <3>3 DEF LogInv
  <2>2. CASE UNCHANGED logVars
    BY <2>2 DEF logVars, LogInv, Kept, Counted, MemoryIsBounded, Forgotten, KeptIsLatest,
                Since, Remembered
  <2> QED
    BY <2>1, <2>2 DEF LogNext, Quiet
<1>3. LogInv => ReplayIsLatest
  BY ReplayOfKept
<1> QED
  BY <1>1, <1>2, <1>3, PTL DEF LogSpec
=============================================================================
