--------------------------- MODULE ChatPageProofs ---------------------------
(***************************************************************************)
(* The page misses nobody.                                                 *)
(*                                                                         *)
(* What is on its way counts: the requests on their way to the gateway     *)
(* lead the session from where it is to the channel the page shows, one    *)
(* channel at a time (Leads), and once no join is among them the events on *)
(* their way to the page turn its list into one that misses nobody         *)
(* (Completes).  A session whose PART was refused is in two channels and   *)
(* nothing is claimed of it any more (held).                               *)
(***************************************************************************)
EXTENDS ChatPage, SequenceTheorems, TLAPS

USE AttemptsAreNumbered, NobodyHasNoName

-----------------------------------------------------------------------------
(***************************************************************************)
(* The list that a sequence of events makes of a list.                     *)
(***************************************************************************)

Requests ==
  [type : {"connect"}, nick : Nick, name : Name]
    \cup [type : {"part", "join"}, name : Name]
    \cup [type : {"nick"}, nick : Nick]
Events ==
  [type : {"hello", "ready", "disconnected"}]
    \cup [type : {"join", "part", "kick"}, nick : Nick]
    \cup [type : {"nick"}, nick : Nick, new : Nick]
    \cup [type : {"names"}, name : Name \cup {NoName}, names : SUBSET Nick]

\* What onGatewayMessage makes of the list l while the page shows ch.
After(l, e, ch) ==
  CASE e.type = "join" -> l \cup {e.nick}
    [] e.type \in {"part", "kick"} -> l \ {e.nick}
    [] e.type = "nick" ->
         IF e.nick \in l THEN (l \ {e.nick}) \cup {e.new} ELSE l
    [] e.type = "names" /\ e.name = ch -> l \cup e.names
    [] OTHER -> l

\* The lists at \in [0..Len(es) -> SUBSET Nick] are each at most what the next
\* event makes of the one before.
Lists(at, l, es, ch, P) ==
  /\ at \in [0..Len(es) -> SUBSET Nick]
  /\ at[0] \subseteq l
  /\ \A i \in 1..Len(es) : at[i] \subseteq After(at[i - 1], es[i], ch)
  /\ P \subseteq at[Len(es)]

\* The events es turn the list l into one that misses nobody of P.
Completes(l, es, ch, P) ==
  \E at \in [0..Len(es) -> SUBSET Nick] : Lists(at, l, es, ch, P)

\* The list after an event has who is in the list.
LEMMA AfterType ==
  ASSUME NEW e \in Events, NEW l \in SUBSET Nick, NEW ch
  PROVE  After(l, e, ch) \in SUBSET Nick
<1>1. CASE e \in [type : {"hello", "ready", "disconnected"}]
  BY <1>1 DEF After
<1>2. CASE e \in [type : {"join", "part", "kick"}, nick : Nick]
  BY <1>2 DEF After
<1>3. CASE e \in [type : {"nick"}, nick : Nick, new : Nick]
  BY <1>3 DEF After
<1>4. CASE e \in [type : {"names"}, name : Name \cup {NoName}, names : SUBSET Nick]
  BY <1>4 DEF After
<1>. QED BY <1>1, <1>2, <1>3, <1>4 DEF Events

\* A longer list is longer afterwards.
LEMMA AfterGrows ==
  ASSUME NEW e \in Events, NEW l \in SUBSET Nick, NEW m \in SUBSET Nick, NEW ch,
         l \subseteq m
  PROVE  After(l, e, ch) \subseteq After(m, e, ch)
<1>1. CASE e \in [type : {"hello", "ready", "disconnected"}]
  BY <1>1 DEF After
<1>2. CASE e \in [type : {"join", "part", "kick"}, nick : Nick]
  BY <1>2 DEF After
<1>3. CASE e \in [type : {"nick"}, nick : Nick, new : Nick]
  BY <1>3 DEF After
<1>4. CASE e \in [type : {"names"}, name : Name \cup {NoName}, names : SUBSET Nick]
  BY <1>4 DEF After
<1>. QED BY <1>1, <1>2, <1>3, <1>4 DEF Events

\* When nothing is on its way the list itself misses nobody.
LEMMA CompletesNow ==
  ASSUME NEW l, NEW es, NEW ch, NEW P, es = <<>>, Completes(l, es, ch, P)
  PROVE  P \subseteq l
<1>1. PICK at : Lists(at, l, es, ch, P)
  BY DEF Completes
<1>2. Len(es) = 0
  OBVIOUS
<1>. QED BY <1>1, <1>2 DEF Lists

\* One who is gone need not be in the list.
LEMMA CompletesFewer ==
  ASSUME NEW l, NEW es, NEW ch, NEW P, NEW Q, Completes(l, es, ch, P), Q \subseteq P
  PROVE  Completes(l, es, ch, Q)
<1>1. PICK at \in [0..Len(es) -> SUBSET Nick] : Lists(at, l, es, ch, P)
  BY DEF Completes
<1>2. Lists(at, l, es, ch, Q)
  BY <1>1 DEF Lists
<1>. QED BY <1>2 DEF Completes

\* A sequence with one more element.
LEMMA Appended ==
  ASSUME NEW S, NEW es \in Seq(S), NEW e \in S
  PROVE  /\ Append(es, e) \in Seq(S)
         /\ Len(es) \in Nat /\ Len(Append(es, e)) = Len(es) + 1
         /\ \A i \in 1..Len(es) : Append(es, e)[i] = es[i]
         /\ Append(es, e)[Len(es) + 1] = e
OBVIOUS

\* A sequence without its first element.
LEMMA Behead ==
  ASSUME NEW S, NEW es \in Seq(S), es # <<>>
  PROVE  /\ Tail(es) \in Seq(S) /\ Head(es) \in S
         /\ Len(es) \in Nat /\ Len(es) > 0 /\ Len(Tail(es)) = Len(es) - 1
         /\ Head(es) = es[1]
         /\ \A i \in 1..Len(Tail(es)) : Tail(es)[i] = es[i + 1]
OBVIOUS

\* One more event.
LEMMA CompletesMore ==
  ASSUME NEW es \in Seq(Events), NEW e \in Events, NEW l \in SUBSET Nick, NEW ch,
         NEW P \in SUBSET Nick, NEW Q \in SUBSET Nick,
         Completes(l, es, ch, P), Q \subseteq After(P, e, ch)
  PROVE  Completes(l, Append(es, e), ch, Q)
<1>1. PICK at \in [0..Len(es) -> SUBSET Nick] : Lists(at, l, es, ch, P)
  BY DEF Completes
<1>2. PICK n \in Nat : n = Len(es)
  BY Appended
<1>3. PICK es2 \in Seq(Events) : es2 = Append(es, e)
  BY Appended
<1>4. /\ Len(es2) = n + 1 /\ es2[n + 1] = e
      /\ \A i \in 1..n : es2[i] = es[i]
  BY <1>2, <1>3, Appended
<1>5. /\ at \in [0..n -> SUBSET Nick] /\ at[0] \subseteq l
      /\ \A i \in 1..n : at[i] \subseteq After(at[i - 1], es[i], ch)
      /\ P \subseteq at[n]
  BY <1>1, <1>2 DEF Lists
<1> DEFINE at2 == [i \in 0..(n + 1) |-> IF i = n + 1 THEN Q ELSE at[i]]
<1>6. /\ at2 \in [0..(n + 1) -> SUBSET Nick] /\ at2[n + 1] = Q
      /\ \A i \in 0..n : at2[i] = at[i]
  BY <1>5
<1>. HIDE DEF at2
<1>7. ASSUME NEW i \in 1..(n + 1)
      PROVE  at2[i] \subseteq After(at2[i - 1], es2[i], ch)
  <2>1. CASE i = n + 1
    <3>1. at[n] \in SUBSET Nick /\ n \in 0..n
      BY <1>5
    <3>2. After(P, e, ch) \subseteq After(at[n], e, ch)
      BY <1>5, <3>1, AfterGrows
    <3>3. at2[i] = Q /\ at2[i - 1] = at[n] /\ es2[i] = e
      <4>1. i - 1 = n
        BY <2>1
      <4>. QED BY <1>4, <1>6, <2>1, <3>1, <4>1
    <3>. QED BY <3>2, <3>3
  <2>2. CASE i \in 1..n
    <3>1. i - 1 \in 0..n /\ i \in 0..n
      BY <2>2
    <3>. QED BY <1>4, <1>5, <1>6, <2>2, <3>1
  <2>. QED BY <2>1, <2>2
<1>8. at2[0] \subseteq l
  <2>1. 0 \in 0..n
    OBVIOUS
  <2>. QED BY <1>5, <1>6, <2>1
<1>9. Lists(at2, l, es2, ch, Q)
  BY <1>4, <1>6, <1>7, <1>8 DEF Lists
<1>. QED BY <1>3, <1>4, <1>6, <1>9 DEF Completes

\* The names of everybody complete any list.
LEMMA NamesComplete ==
  ASSUME NEW es \in Seq(Events), NEW e \in Events, NEW l \in SUBSET Nick, NEW ch,
         NEW P \in SUBSET Nick, e.type = "names", e.name = ch, P \subseteq e.names
  PROVE  Completes(l, Append(es, e), ch, P)
<1>1. PICK n \in Nat : n = Len(es)
  BY Appended
<1> DEFINE at == [i \in 0..n |-> {}]
<1>2. at \in [0..n -> SUBSET Nick] /\ \A i \in 0..n : at[i] = {}
  OBVIOUS
<1>. HIDE DEF at
<1>3. Lists(at, l, es, ch, {})
  <2>1. 0 \in 0..n /\ n \in 0..n /\ \A i \in 1..n : i \in 0..n
    OBVIOUS
  <2>. QED BY <1>1, <1>2, <2>1 DEF Lists
<1>4. Completes(l, es, ch, {})
  BY <1>1, <1>2, <1>3 DEF Completes
<1>5. P \subseteq After({}, e, ch)
  BY DEF After
<1>6. {} \in SUBSET Nick
  OBVIOUS
<1>. QED BY <1>4, <1>5, <1>6, CompletesMore

\* The page has taken the first event.
LEMMA CompletesRest ==
  ASSUME NEW es \in Seq(Events), es # <<>>, NEW l \in SUBSET Nick, NEW ch,
         NEW P, Completes(l, es, ch, P)
  PROVE  Completes(After(l, Head(es), ch), Tail(es), ch, P)
<1>1. PICK at \in [0..Len(es) -> SUBSET Nick] : Lists(at, l, es, ch, P)
  BY DEF Completes
<1>2. PICK n \in Nat : n = Len(Tail(es)) /\ Len(es) = n + 1
  BY Behead
<1>3. PICK es2 \in Seq(Events) : es2 = Tail(es)
  BY Behead
<1>4. Head(es) = es[1] /\ Head(es) \in Events /\ \A i \in 1..n : es2[i] = es[i + 1]
  BY <1>2, <1>3, Behead
<1>5. /\ at \in [0..(n + 1) -> SUBSET Nick] /\ at[0] \subseteq l
      /\ \A i \in 1..(n + 1) : at[i] \subseteq After(at[i - 1], es[i], ch)
      /\ P \subseteq at[n + 1]
  BY <1>1, <1>2 DEF Lists
<1> DEFINE at2 == [i \in 0..n |-> at[i + 1]]
<1>6. /\ at2 \in [0..n -> SUBSET Nick]
      /\ \A i \in 0..n : at2[i] = at[i + 1]
  BY <1>5
<1>. HIDE DEF at2
<1>7. at2[0] \subseteq After(l, Head(es), ch)
  <2>1. 0 \in 0..n /\ 0 \in 0..(n + 1) /\ 1 \in 1..(n + 1) /\ 1 - 1 = 0 /\ 0 + 1 = 1
    OBVIOUS
  <2>2. at2[0] = at[1] /\ at[0] \in SUBSET Nick /\ at[1] \subseteq After(at[0], es[1], ch)
    BY <1>5, <1>6, <2>1
  <2>3. After(at[0], Head(es), ch) \subseteq After(l, Head(es), ch)
    BY <1>4, <1>5, <2>2, AfterGrows
  <2>. QED BY <1>4, <2>2, <2>3
<1>8. ASSUME NEW i \in 1..n
      PROVE  at2[i] \subseteq After(at2[i - 1], es2[i], ch)
  <2>1. /\ i \in 0..n /\ i - 1 \in 0..n /\ i + 1 \in 1..(n + 1)
        /\ (i - 1) + 1 = i /\ (i + 1) - 1 = i
    OBVIOUS
  <2>2. at2[i] = at[i + 1] /\ at2[i - 1] = at[i] /\ es2[i] = es[i + 1]
    BY <1>4, <1>6, <2>1
  <2>3. at[i + 1] \subseteq After(at[i], es[i + 1], ch)
    BY <1>5, <2>1
  <2>. QED BY <2>2, <2>3
<1>9. P \subseteq at2[n]
  <2>1. n \in 0..n
    OBVIOUS
  <2>. QED BY <1>5, <1>6, <2>1
<1>10. Lists(at2, After(l, Head(es), ch), es2, ch, P)
  BY <1>2, <1>3, <1>6, <1>7, <1>8, <1>9 DEF Lists
<1>. QED BY <1>2, <1>3, <1>6, <1>10 DEF Completes

-----------------------------------------------------------------------------
(***************************************************************************)
(* Where a sequence of requests leads a session.                           *)
(***************************************************************************)

\* The channels a session may be in after the request r, if it may be in those
\* of a before.
Go(a, r) ==
  CASE r.type = "join" -> {r.name.chan}
    [] r.type = "part" -> {}
    [] OTHER -> a

\* A session joins only when it is in no channel, and leaves the one it is in.
Allowed(a, r) ==
  /\ r.type = "join" => a = {}
  /\ r.type = "part" => a \subseteq {r.name.chan}

\* The sets at are where a session may be after each of the requests q.
Path(at, here, q, there) ==
  /\ at \in [0..Len(q) -> SUBSET Channel]
  /\ \A i \in 0..Len(q) : \A c, d \in at[i] : c = d
  /\ here \subseteq at[0]
  /\ \A i \in 1..Len(q) : Allowed(at[i - 1], q[i]) /\ at[i] = Go(at[i - 1], q[i])
  /\ at[Len(q)] \subseteq there

\* The requests q lead a session that is in the channels here to those of
\* there, one at a time.
Leads(here, q, there) ==
  \E at \in [0..Len(q) -> SUBSET Channel] : Path(at, here, q, there)

\* A session is in one channel at most.
LEMMA OneChannel ==
  ASSUME NEW q \in Seq(Requests), NEW here, NEW there, Leads(here, q, there),
         NEW c \in here, NEW d \in here
  PROVE  c = d
<1>1. PICK at : Path(at, here, q, there)
  BY DEF Leads
<1>2. 0 \in 0..Len(q)
  OBVIOUS
<1>. QED BY <1>1, <1>2 DEF Path

\* A session that has left is still on the way.
LEMMA LeadsFewer ==
  ASSUME NEW q, NEW here, NEW there, Leads(here, q, there),
         NEW h, h \subseteq here
  PROVE  Leads(h, q, there)
<1>1. PICK at \in [0..Len(q) -> SUBSET Channel] : Path(at, here, q, there)
  BY DEF Leads
<1>2. Path(at, h, q, there)
  BY <1>1 DEF Path
<1>. QED BY <1>2 DEF Leads

\* Without requests it goes nowhere.
LEMMA LeadsNowhere ==
  ASSUME NEW q, q = <<>>
  PROVE  Leads({}, q, {})
<1> DEFINE at == [i \in 0..0 |-> {}]
<1>1. Len(q) = 0 /\ at \in [0..0 -> SUBSET Channel] /\ \A i \in 0..0 : at[i] = {}
  OBVIOUS
<1>. HIDE DEF at
<1>2. Path(at, {}, q, {})
  <2>1. 0 \in 0..0 /\ 1..0 = {}
    OBVIOUS
  <2>. QED BY <1>1, <2>1 DEF Path
<1>. QED BY <1>1, <1>2 DEF Leads

\* Where a request leads is a set of at most one channel.
LEMMA GoType ==
  ASSUME NEW r \in Requests, NEW a \in SUBSET Channel, \A c, d \in a : c = d
  PROVE  Go(a, r) \in SUBSET Channel /\ \A c, d \in Go(a, r) : c = d
<1>1. CASE r \in [type : {"part", "join"}, name : Name]
  BY <1>1 DEF Go, Name
<1>2. CASE r \in [type : {"nick"}, nick : Nick]
  BY <1>2 DEF Go
<1>3. CASE r \in [type : {"connect"}, nick : Nick, name : Name]
  BY <1>3 DEF Go
<1>. QED BY <1>1, <1>2, <1>3 DEF Requests

\* One more request.
LEMMA LeadsMore ==
  ASSUME NEW q \in Seq(Requests), NEW r \in Requests, NEW here, NEW there,
         Leads(here, q, there), Allowed(there, r)
  PROVE  Leads(here, Append(q, r), Go(there, r))
<1>1. PICK at \in [0..Len(q) -> SUBSET Channel] : Path(at, here, q, there)
  BY DEF Leads
<1>2. PICK n \in Nat : n = Len(q)
  BY Appended
<1>3. PICK q2 \in Seq(Requests) : q2 = Append(q, r)
  BY Appended
<1>4. /\ Len(q2) = n + 1 /\ q2[n + 1] = r
      /\ \A i \in 1..n : q2[i] = q[i]
  BY <1>2, <1>3, Appended
<1>5. /\ at \in [0..n -> SUBSET Channel] /\ here \subseteq at[0]
      /\ \A i \in 0..n : \A c, d \in at[i] : c = d
      /\ \A i \in 1..n : Allowed(at[i - 1], q[i]) /\ at[i] = Go(at[i - 1], q[i])
      /\ at[n] \subseteq there
  BY <1>1, <1>2 DEF Path
<1>6. /\ n \in 0..n /\ 0 \in 0..n /\ at[n] \in SUBSET Channel
      /\ \A c, d \in at[n] : c = d
  <2>1. n \in 0..n /\ 0 \in 0..n
    OBVIOUS
  <2>. QED BY <1>5, <2>1
<1>7. PICK last \in SUBSET Channel : last = Go(at[n], r) /\ \A c, d \in last : c = d
  BY <1>6, GoType
<1> DEFINE at2 == [i \in 0..(n + 1) |-> IF i = n + 1 THEN last ELSE at[i]]
<1>8. /\ at2 \in [0..(n + 1) -> SUBSET Channel] /\ at2[n + 1] = last
      /\ \A i \in 0..n : at2[i] = at[i]
  BY <1>5
<1>. HIDE DEF at2
<1>9. ASSUME NEW i \in 1..(n + 1)
      PROVE  Allowed(at2[i - 1], q2[i]) /\ at2[i] = Go(at2[i - 1], q2[i])
  <2>1. CASE i = n + 1
    <3>1. i - 1 = n
      BY <2>1
    <3>2. at2[i] = last /\ at2[i - 1] = at[n] /\ q2[i] = r
      BY <1>4, <1>6, <1>8, <2>1, <3>1
    <3>3. Allowed(at[n], r)
      BY <1>5 DEF Allowed
    <3>. QED BY <1>7, <3>2, <3>3
  <2>2. CASE i \in 1..n
    <3>1. i - 1 \in 0..n /\ i \in 0..n
      BY <2>2
    <3>. QED BY <1>4, <1>5, <1>8, <2>2, <3>1
  <2>. QED BY <2>1, <2>2
<1>10. ASSUME NEW i \in 0..(n + 1) PROVE \A c, d \in at2[i] : c = d
  <2>1. i = n + 1 \/ i \in 0..n
    OBVIOUS
  <2>. QED BY <1>5, <1>7, <1>8, <2>1
<1>11. last \subseteq Go(there, r)
  BY <1>5, <1>7 DEF Go
<1>12. Path(at2, here, q2, Go(there, r))
  BY <1>4, <1>5, <1>6, <1>8, <1>9, <1>10, <1>11 DEF Path
<1>. QED BY <1>3, <1>4, <1>8, <1>12 DEF Leads

\* The next request is allowed, and the others lead on from there.
LEMMA LeadsRest ==
  ASSUME NEW q \in Seq(Requests), q # <<>>, NEW here, NEW there, Leads(here, q, there)
  PROVE  Allowed(here, Head(q)) /\ Leads(Go(here, Head(q)), Tail(q), there)
<1>1. PICK at \in [0..Len(q) -> SUBSET Channel] : Path(at, here, q, there)
  BY DEF Leads
<1>2. PICK n \in Nat : n = Len(Tail(q)) /\ Len(q) = n + 1
  BY Behead
<1>3. PICK q2 \in Seq(Requests) : q2 = Tail(q)
  BY Behead
<1>4. Head(q) = q[1] /\ \A i \in 1..n : q2[i] = q[i + 1]
  BY <1>2, <1>3, Behead
<1>5. /\ at \in [0..(n + 1) -> SUBSET Channel] /\ here \subseteq at[0]
      /\ \A i \in 0..(n + 1) : \A c, d \in at[i] : c = d
      /\ \A i \in 1..(n + 1) : Allowed(at[i - 1], q[i]) /\ at[i] = Go(at[i - 1], q[i])
      /\ at[n + 1] \subseteq there
  BY <1>1, <1>2 DEF Path
<1> DEFINE at2 == [i \in 0..n |-> at[i + 1]]
<1>6. /\ at2 \in [0..n -> SUBSET Channel] /\ \A i \in 0..n : at2[i] = at[i + 1]
  BY <1>5
<1>. HIDE DEF at2
<1>7. Allowed(at[0], q[1]) /\ at[1] = Go(at[0], q[1])
  <2>1. 1 \in 1..(n + 1) /\ 1 - 1 = 0
    OBVIOUS
  <2>. QED BY <1>5, <2>1
<1>8. Allowed(here, Head(q))
  BY <1>4, <1>5, <1>7 DEF Allowed
<1>9. Go(here, Head(q)) \subseteq at2[0]
  <2>1. 0 \in 0..n /\ 0 + 1 = 1
    OBVIOUS
  <2>2. at2[0] = at[1]
    BY <1>6, <2>1
  <2>3. Go(here, q[1]) \subseteq Go(at[0], q[1])
    BY <1>5 DEF Go
  <2>. QED BY <1>4, <1>7, <2>2, <2>3
<1>10. ASSUME NEW i \in 1..n
       PROVE  Allowed(at2[i - 1], q2[i]) /\ at2[i] = Go(at2[i - 1], q2[i])
  <2>1. /\ i \in 0..n /\ i - 1 \in 0..n /\ i + 1 \in 1..(n + 1)
        /\ (i - 1) + 1 = i /\ (i + 1) - 1 = i
    OBVIOUS
  <2>2. at2[i] = at[i + 1] /\ at2[i - 1] = at[i] /\ q2[i] = q[i + 1]
    BY <1>4, <1>6, <2>1
  <2>3. Allowed(at[i], q[i + 1]) /\ at[i + 1] = Go(at[i], q[i + 1])
    BY <1>5, <2>1
  <2>. QED BY <2>2, <2>3
<1>11. ASSUME NEW i \in 0..n PROVE \A c, d \in at2[i] : c = d
  <2>1. i + 1 \in 0..(n + 1)
    OBVIOUS
  <2>. QED BY <1>5, <1>6, <2>1
<1>12. at2[n] \subseteq there
  <2>1. n \in 0..n
    OBVIOUS
  <2>. QED BY <1>5, <1>6, <2>1
<1>13. Path(at2, Go(here, Head(q)), q2, there)
  BY <1>2, <1>3, <1>6, <1>9, <1>10, <1>11, <1>12 DEF Path
<1>. QED BY <1>2, <1>3, <1>6, <1>8, <1>13 DEF Leads

-----------------------------------------------------------------------------
(***************************************************************************)
(* Types.                                                                  *)
(***************************************************************************)

PageTypes ==
  /\ socket \in Sockets \cup {0} /\ dialog \in BOOLEAN
  /\ readyState \in [Sockets -> {"none", "connecting", "open", "closing", "closed"}]
  /\ nickname \in Nick \cup {NoNick} /\ channel \in Name \cup {NoName}
  /\ listed \in SUBSET Nick
  /\ requests \in [Sockets -> Seq(Requests)] /\ events \in [Sockets -> Seq(Events)]
  /\ session \in [Sockets -> {"none", "asked", "in", "over"}]
  /\ wanted \in [Sockets -> [nick : Nick \cup {NoNick}, name : Name \cup {NoName}]]
  /\ nick \in [Sockets -> Nick \cup {NoNick}]
  /\ present \in [Channel -> SUBSET Nick]
  /\ founded \in [Channel -> Name \cup {NoName}]
  /\ held \in SUBSET Sockets

Only(q, types) == \A i \in 1..Len(q) : q[i].type \in types

\* How far a session is, and what is then on its way.
Talk == {"join", "part", "nick"}
News == {"ready", "disconnected", "join", "part", "kick", "nick", "names"}
Phase(k) ==
  /\ session[k] = "none" =>
       /\ nick[k] = NoNick
       /\ Len(requests[k]) <= 1 /\ Only(requests[k], {"connect"})
       /\ readyState[k] = "open" =>
            /\ Len(events[k]) <= 1 /\ Only(events[k], {"hello"})
            /\ events[k] = <<>> \/ requests[k] = <<>>
  /\ session[k] = "asked" =>
       /\ nick[k] = NoNick /\ requests[k] = <<>>
       /\ wanted[k].nick \in Nick /\ wanted[k].name \in Name
       /\ readyState[k] = "open" => events[k] = <<>>
  /\ session[k] = "in" =>
       /\ nick[k] \in Nick /\ Only(requests[k], Talk)
       /\ readyState[k] = "open" => Only(events[k], News)
  /\ session[k] = "over" =>
       /\ nick[k] = NoNick
       /\ readyState[k] = "open" => Only(events[k], News)
  /\ readyState[k] \in {"none", "connecting"} =>
       session[k] = "none" /\ requests[k] = <<>>

Phases == \A k \in Sockets : Phase(k)

\* The last socket is the one in use, and no two sessions have one nickname.
SocketsInOrder ==
  \A k \in Sockets :
    /\ readyState[k] \in {"connecting", "open"} => k = socket
    /\ k > socket => readyState[k] = "none"

NicksDiffer ==
  \A j, k \in Sockets : nick[j] = nick[k] /\ nick[j] # NoNick => j = k

\* Until the session is in, it is about the channel the page shows.
PageKnows ==
  /\ socket = 0 => dialog
  /\ socket # 0 =>
       /\ nickname \in Nick /\ channel \in Name
       /\ session[socket] = "none" =>
            \A i \in 1..Len(requests[socket]) : requests[socket][i].name = channel
       /\ session[socket] = "asked" => wanted[socket].name = channel
       /\ session[socket] \in {"none", "asked"} => dialog

\* The session of the page is in, and no PART of its was refused.
Followed ==
  /\ socket # 0 /\ socket \notin held
  /\ session[socket] = "in" /\ readyState[socket] = "open"

Leading ==
  Followed =>
    Leads(ChannelsOf(nick[socket]), requests[socket], {channel.chan})

\* The session is in the channel of the page and will stay there.
Shown ==
  /\ Followed
  /\ Only(requests[socket], {"part", "nick"})
  /\ nick[socket] \in present[channel.chan] /\ founded[channel.chan] = channel

Completing ==
  Shown => Completes(listed, events[socket], channel, present[channel.chan])

\* The inductive invariant.
PageInv ==
  /\ PageTypes /\ Phases /\ SocketsInOrder /\ NicksDiffer /\ PageKnows
  /\ Leading /\ Completing

-----------------------------------------------------------------------------
\* What everybody of a set is told.
LEMMA ToldIs ==
  ASSUME PageTypes, NEW who, NEW e \in Events
  PROVE  /\ Told(who, e) \in [Sockets -> Seq(Events)]
         /\ \A k \in Sockets :
              Told(who, e)[k] = IF k \in who /\ readyState[k] = "open"
                                THEN Append(events[k], e) ELSE events[k]
<1>1. \A k \in Sockets : events[k] \in Seq(Events)
  BY DEF PageTypes
<1>2. \A k \in Sockets : Append(events[k], e) \in Seq(Events)
  BY <1>1, Appended
<1>. QED BY <1>1, <1>2 DEF Told

\* A nickname in a channel is one of a session that is in, or nobody's here.
LEMMA WatchersAreIn ==
  ASSUME PageTypes, Phases, NEW cs, cs \subseteq Channel, NEW k \in Watching(cs)
  PROVE  k \in Sockets /\ session[k] = "in"
<1>1. k \in Sockets /\ nick[k] \in Nick
  BY DEF Watching, PageTypes
<1>2. session[k] \in {"none", "asked", "in", "over"}
  BY <1>1 DEF PageTypes
<1>. QED BY <1>1, <1>2 DEF Phases, Phase

\* A nickname that nobody uses.
LEMMA Unused ==
  ASSUME PageTypes, NEW n \in Nick, n \notin InUse
  PROVE  /\ \A c \in Channel : n \notin present[c]
         /\ \A k \in Sockets : nick[k] # n
<1>1. \A c \in Channel : n \notin present[c]
  BY DEF InUse, ChannelsOf
<1>2. \A k \in Sockets : nick[k] # n
  BY DEF InUse, Range, PageTypes
<1>. QED BY <1>1, <1>2

\* Another user has no session here.
LEMMA OthersDiffer ==
  ASSUME PageTypes, NEW n \in Others
  PROVE  n \in Nick /\ \A k \in Sockets : nick[k] # n
BY DEF Others, Range, PageTypes

\* A channel somebody has left.
LEMMA LeaveIs ==
  ASSUME PageTypes, NEW n, NEW cs, Leave(n, cs)
  PROVE  /\ present' \in [Channel -> SUBSET Nick]
         /\ founded' \in [Channel -> Name \cup {NoName}]
         /\ \A c \in Channel :
              /\ present'[c] = IF c \in cs THEN present[c] \ {n} ELSE present[c]
              /\ founded'[c] = IF present'[c] = {} THEN NoName ELSE founded[c]
<1>1. present' = [c \in Channel |-> IF c \in cs THEN present[c] \ {n} ELSE present[c]]
  BY DEF Leave
<1>2. /\ present' \in [Channel -> SUBSET Nick]
      /\ \A c \in Channel :
           present'[c] = IF c \in cs THEN present[c] \ {n} ELSE present[c]
  BY <1>1 DEF PageTypes
<1>3. founded' = [c \in Channel |-> IF present'[c] = {} THEN NoName ELSE founded[c]]
  BY DEF Leave
<1>. QED BY <1>2, <1>3 DEF PageTypes

\* A channel somebody has entered.
LEMMA EnterIs ==
  ASSUME PageTypes, NEW n \in Nick, NEW name \in Name, Enter(n, name)
  PROVE  /\ present' \in [Channel -> SUBSET Nick]
         /\ founded' \in [Channel -> Name \cup {NoName}]
         /\ name.chan \in Channel
         /\ \A c \in Channel :
              /\ present'[c] = IF c = name.chan THEN present[c] \cup {n} ELSE present[c]
              /\ present[c] # {} => founded'[c] = founded[c]
<1>1. name.chan \in Channel
  BY DEF Name
<1>2. present' = [present EXCEPT ![name.chan] = @ \cup {n}]
  BY DEF Enter
<1>3. founded' = IF present[name.chan] = {}
                 THEN [founded EXCEPT ![name.chan] = name] ELSE founded
  BY DEF Enter
<1>. QED BY <1>1, <1>2, <1>3 DEF PageTypes

\* A sequence of requests or events of some types, longer or shorter by one.
LEMMA OnlyMore ==
  ASSUME NEW S, NEW q \in Seq(S), NEW r \in S, NEW types
  PROVE  Only(q, types) /\ r.type \in types <=> Only(Append(q, r), types)
<1>1. PICK n \in Nat : n = Len(q)
  BY Appended
<1>2. PICK q2 : q2 = Append(q, r)
  OBVIOUS
<1>3. Len(q2) = n + 1 /\ q2[n + 1] = r /\ \A i \in 1..n : q2[i] = q[i]
  BY <1>1, <1>2, Appended
<1>4. \A i \in 1..(n + 1) : i = n + 1 \/ i \in 1..n
  OBVIOUS
<1>5. n + 1 \in 1..(n + 1) /\ \A i \in 1..n : i \in 1..(n + 1)
  OBVIOUS
<1>6. Only(q, types) /\ r.type \in types <=> Only(q2, types)
  BY <1>1, <1>3, <1>4, <1>5 DEF Only
<1>. QED BY <1>2, <1>6

LEMMA OnlyRest ==
  ASSUME NEW S, NEW q \in Seq(S), q # <<>>, NEW types
  PROVE  Only(q, types) <=> Head(q).type \in types /\ Only(Tail(q), types)
<1>1. PICK n \in Nat : n = Len(Tail(q)) /\ Len(q) = n + 1
  BY Behead
<1>2. PICK q2 : q2 = Tail(q)
  OBVIOUS
<1>3. Head(q) = q[1] /\ \A i \in 1..n : q2[i] = q[i + 1]
  BY <1>1, <1>2, Behead
<1>4. /\ 1 \in 1..(n + 1)
      /\ \A i \in 1..n : i + 1 \in 1..(n + 1)
      /\ \A i \in 1..(n + 1) : i = 1 \/ (i - 1 \in 1..n /\ (i - 1) + 1 = i)
  OBVIOUS
<1>5. Only(q, types) <=> Head(q).type \in types /\ Only(q2, types)
  <2>1. ASSUME Only(q, types) PROVE Head(q).type \in types /\ Only(q2, types)
    BY <1>1, <1>2, <1>3, <1>4, <2>1 DEF Only
  <2>2. ASSUME Head(q).type \in types, Only(q2, types) PROVE Only(q, types)
    <3>1. ASSUME NEW i \in 1..(n + 1) PROVE q[i].type \in types
      <4>1. CASE i = 1
        BY <1>3, <2>2, <4>1
      <4>2. CASE i - 1 \in 1..n /\ (i - 1) + 1 = i
        <5>1. q2[i - 1] = q[i] /\ q2[i - 1].type \in types
          BY <1>1, <1>2, <1>3, <2>2, <4>2 DEF Only
        <5>. QED BY <5>1
      <4>. QED BY <1>4, <4>1, <4>2
    <3>. QED BY <1>1, <3>1 DEF Only
  <2>. QED BY <2>1, <2>2
<1>. QED BY <1>2, <1>5

-----------------------------------------------------------------------------
(***************************************************************************)
(* What the gateway and the IRC server do.                                 *)
(***************************************************************************)

\* What the page knows of a session changes with the session only, and what is
\* on its way with it only while the session is in.
LEMMA PhasesKept ==
  ASSUME PageInv,
         UNCHANGED <<socket, dialog, nickname, channel, readyState, session, wanted>>,
         \A j \in Sockets :
           \/ requests'[j] = requests[j] /\ nick'[j] = nick[j] /\ events'[j] = events[j]
           \/ /\ session[j] = "in" /\ nick'[j] \in Nick
              /\ Only(requests[j], Talk) => Only(requests'[j], Talk)
              /\ Only(events[j], News) => Only(events'[j], News)
  PROVE  Phases' /\ SocketsInOrder' /\ PageKnows'
<1>1. ASSUME NEW j \in Sockets PROVE Phase(j)'
  <2>1. Phase(j)
    BY DEF PageInv, Phases
  <2>2. /\ session'[j] = session[j] /\ readyState'[j] = readyState[j]
        /\ wanted'[j] = wanted[j]
    OBVIOUS
  <2>3. CASE requests'[j] = requests[j] /\ nick'[j] = nick[j] /\ events'[j] = events[j]
    BY <2>1, <2>2, <2>3 DEF Phase
  <2>4. CASE /\ session[j] = "in" /\ nick'[j] \in Nick
             /\ Only(requests[j], Talk) => Only(requests'[j], Talk)
             /\ Only(events[j], News) => Only(events'[j], News)
    BY <2>1, <2>2, <2>4 DEF Phase
  <2>. QED BY <2>3, <2>4
<1>2. SocketsInOrder'
  BY DEF PageInv, SocketsInOrder
<1>3. PageKnows'
  <2>1. CASE socket = 0
    BY <2>1 DEF PageInv, PageKnows
  <2>2. CASE socket # 0
    <3>1. socket \in Sockets
      BY <2>2 DEF PageInv, PageTypes
    <3>2. session[socket] = "none" => requests'[socket] = requests[socket]
      BY <3>1
    <3>. QED BY <2>2, <3>2 DEF PageInv, PageKnows
  <2>. QED BY <2>1, <2>2
<1>. QED BY <1>1, <1>2, <1>3 DEF Phases

\* What happens to others is told to the page if it happens in its channel.
LEMMA HearsOfIt ==
  ASSUME PageInv, PageTypes', UNCHANGED <<socket, channel, listed, held, readyState>>,
         socket # 0 => /\ requests'[socket] = requests[socket]
                       /\ session'[socket] = session[socket]
                       /\ nick'[socket] = nick[socket]
                       /\ \A c \in Channel :
                            nick[socket] \in present'[c] => nick[socket] \in present[c],
         \A c \in Channel :
           present[c] # {} /\ founded'[c] # NoName => founded'[c] = founded[c],
         NEW cs \in SUBSET Channel, NEW e \in Events,
         socket # 0 =>
           events'[socket] = IF socket \in Watching(cs) /\ readyState[socket] = "open"
                             THEN Append(events[socket], e) ELSE events[socket],
         \A c \in cs : present'[c] \subseteq After(present[c], e, channel),
         \A c \in Channel \ cs : present'[c] \subseteq present[c]
  PROVE  Leading' /\ Completing'
<1>1. CASE socket = 0
  BY <1>1 DEF Leading, Completing, Shown, Followed
<1>2. CASE /\ socket # 0 /\ socket \notin held
           /\ session[socket] = "in" /\ readyState[socket] = "open"
  <2>1. socket \in Sockets
    BY <1>2 DEF PageInv, PageTypes
  <2>2. Leads(ChannelsOf(nick[socket]), requests[socket], {channel.chan})
    BY <1>2 DEF PageInv, Leading, Followed
  <2>3. requests[socket] \in Seq(Requests) /\ events[socket] \in Seq(Events)
    BY <2>1 DEF PageInv, PageTypes
  <2>4. ChannelsOf(nick[socket])' \subseteq ChannelsOf(nick[socket])
    BY <1>2 DEF ChannelsOf
  <2>5. Leading'
    <3>1. PICK here : here = ChannelsOf(nick[socket])'
      OBVIOUS
    <3>2. Leads(here, requests[socket], {channel.chan})
      BY <2>2, <2>4, <3>1, LeadsFewer
    <3>. QED BY <1>2, <3>1, <3>2 DEF Leading, Followed
  <2>6. Completing'
    <3>1. SUFFICES ASSUME Shown'
                   PROVE  Completes(listed, events'[socket], channel,
                                    present'[channel.chan])
      BY DEF Completing
    <3>2. channel \in Name /\ channel.chan \in Channel
      BY <1>2 DEF PageInv, PageKnows, Name
    <3>3. PICK c : c = channel.chan
      OBVIOUS
    <3>4. /\ Only(requests[socket], {"part", "nick"})
          /\ nick[socket] \in present[c] /\ founded'[c] = channel
      BY <1>2, <3>1, <3>2, <3>3 DEF Shown, Followed
    <3>5. founded[c] = channel
      BY <3>2, <3>3, <3>4
    <3>6. Completes(listed, events[socket], channel, present[c])
      BY <1>2, <3>3, <3>4, <3>5 DEF PageInv, Completing, Shown, Followed
    <3>7. listed \in SUBSET Nick /\ present[c] \in SUBSET Nick /\ present'[c] \in SUBSET Nick
      BY <3>2, <3>3 DEF PageInv, PageTypes
    <3>8. CASE c \in cs
      <4>1. socket \in Watching(cs)
        BY <2>1, <3>4, <3>8 DEF Watching
      <4>2. events'[socket] = Append(events[socket], e)
        BY <1>2, <4>1
      <4>3. present'[c] \subseteq After(present[c], e, channel)
        BY <3>8
      <4>4. Completes(listed, Append(events[socket], e), channel, present'[c])
        BY <2>3, <3>6, <3>7, <4>3, CompletesMore
      <4>. QED BY <3>3, <4>2, <4>4
    <3>9. CASE c \notin cs
      <4>1. socket \notin Watching(cs)
        <5>1. SUFFICES ASSUME NEW d \in cs, nick[socket] \in present[d] PROVE FALSE
          BY DEF Watching
        <5>2. c \in ChannelsOf(nick[socket]) /\ d \in ChannelsOf(nick[socket])
          BY <3>2, <3>3, <3>4, <5>1 DEF ChannelsOf
        <5>. QED BY <2>2, <2>3, <3>9, <5>2, OneChannel
      <4>2. events'[socket] = events[socket] /\ present'[c] \subseteq present[c]
        BY <1>2, <3>2, <3>3, <3>9, <4>1
      <4>3. Completes(listed, events[socket], channel, present'[c])
        BY <3>6, <4>2, CompletesFewer
      <4>. QED BY <3>3, <4>2, <4>3
    <3>. QED BY <3>8, <3>9
  <2>. QED BY <2>5, <2>6
<1>3. CASE ~(/\ socket # 0 /\ socket \notin held
             /\ session[socket] = "in" /\ readyState[socket] = "open")
  BY <1>3 DEF Leading, Completing, Shown, Followed
<1>. QED BY <1>1, <1>2, <1>3

\* What others do leaves a session alone, and the page hears of it.
LEMMA OthersHeard ==
  ASSUME PageInv, UNCHANGED <<pageVars, readyState, requests, session, wanted, nick>>,
         present' \in [Channel -> SUBSET Nick],
         founded' \in [Channel -> Name \cup {NoName}],
         \A k \in Sockets : \A c \in Channel :
           nick[k] \in present'[c] => nick[k] \in present[c],
         \A c \in Channel :
           present[c] # {} /\ founded'[c] # NoName => founded'[c] = founded[c],
         NEW cs \in SUBSET Channel, NEW e \in Events, e.type \in News,
         events' = Told(Watching(cs), e),
         \A c \in cs : present'[c] \subseteq After(present[c], e, channel),
         \A c \in Channel \ cs : present'[c] \subseteq present[c]
  PROVE  PageInv'
<1>1. PageTypes /\ Phases
  BY DEF PageInv
<1>2. /\ events' \in [Sockets -> Seq(Events)]
      /\ \A k \in Sockets :
           events'[k] = IF k \in Watching(cs) /\ readyState[k] = "open"
                        THEN Append(events[k], e) ELSE events[k]
  BY <1>1, ToldIs
<1>3. PageTypes'
  BY <1>1, <1>2 DEF PageTypes, pageVars
<1>4. Phases' /\ SocketsInOrder' /\ PageKnows'
  <2>1. ASSUME NEW j \in Sockets
        PROVE  \/ /\ requests'[j] = requests[j] /\ nick'[j] = nick[j]
                  /\ events'[j] = events[j]
               \/ /\ session[j] = "in" /\ nick'[j] \in Nick
                  /\ Only(requests[j], Talk) => Only(requests'[j], Talk)
                  /\ Only(events[j], News) => Only(events'[j], News)
    <3>1. CASE j \in Watching(cs) /\ readyState[j] = "open"
      <4>1. session[j] = "in"
        BY <1>1, <3>1, WatchersAreIn
      <4>2. nick[j] \in Nick
        BY <1>1, <4>1 DEF Phases, Phase
      <4>3. events[j] \in Seq(Events) /\ events'[j] = Append(events[j], e)
        BY <1>1, <1>2, <3>1 DEF PageTypes
      <4>4. Only(events[j], News) => Only(events'[j], News)
        BY <4>3, OnlyMore
      <4>. QED BY <4>1, <4>2, <4>4
    <3>2. CASE ~(j \in Watching(cs) /\ readyState[j] = "open")
      BY <1>2, <3>2
    <3>. QED BY <3>1, <3>2
  <2>. QED BY <2>1, PhasesKept DEF pageVars
<1>5. NicksDiffer'
  BY DEF PageInv, NicksDiffer
<1>6. Leading' /\ Completing'
  <2>1. socket # 0 => socket \in Sockets
    BY <1>1 DEF PageTypes
  <2>2. UNCHANGED <<socket, channel, listed, held, readyState>>
    BY DEF pageVars
  <2>3. socket # 0 =>
          /\ requests'[socket] = requests[socket] /\ session'[socket] = session[socket]
          /\ nick'[socket] = nick[socket]
          /\ \A c \in Channel :
               nick[socket] \in present'[c] => nick[socket] \in present[c]
    BY <2>1
  <2>4. socket # 0 =>
          events'[socket] = IF socket \in Watching(cs) /\ readyState[socket] = "open"
                            THEN Append(events[socket], e) ELSE events[socket]
    BY <1>2, <2>1
  <2>. QED BY <1>3, <2>2, <2>3, <2>4, HearsOfIt
<1>. QED BY <1>3, <1>4, <1>5, <1>6 DEF PageInv

\* Another user enters a channel.
LEMMA OtherJoinsKept ==
  ASSUME PageInv, NEW n \in Nick, NEW name \in Name, OtherJoins(n, name)
  PROVE  PageInv'
<1>1. PageTypes
  BY DEF PageInv
<1>2. n \in Nick /\ \A k \in Sockets : nick[k] # n
  BY <1>1, OthersDiffer DEF OtherJoins
<1>3. /\ present' \in [Channel -> SUBSET Nick]
      /\ founded' \in [Channel -> Name \cup {NoName}]
      /\ name.chan \in Channel
      /\ \A c \in Channel :
           /\ present'[c] = IF c = name.chan THEN present[c] \cup {n} ELSE present[c]
           /\ present[c] # {} => founded'[c] = founded[c]
  BY <1>1, EnterIs DEF OtherJoins
<1>4. PICK e : e = [type |-> "join", nick |-> n]
  OBVIOUS
<1>5. e \in Events /\ e.type \in News
  BY <1>4 DEF Events, News
<1>6. PICK cs \in SUBSET Channel : cs = {name.chan}
  BY <1>3
<1>7. events' = Told(Watching(cs), e)
  BY <1>4, <1>6 DEF OtherJoins
<1>8. \A c \in cs : present'[c] \subseteq After(present[c], e, channel)
  BY <1>3, <1>4, <1>6 DEF After
<1>9. \A c \in Channel \ cs : present'[c] \subseteq present[c]
  BY <1>3, <1>6
<1>10. \A k \in Sockets : \A c \in Channel :
         nick[k] \in present'[c] => nick[k] \in present[c]
  BY <1>2, <1>3
<1>11. UNCHANGED <<pageVars, readyState, requests, session, wanted, nick>>
  BY DEF OtherJoins
<1>. QED BY <1>3, <1>5, <1>7, <1>8, <1>9, <1>10, <1>11, OthersHeard

\* Somebody is gone from some channels, and those who watch them are told.
LEMMA LeavingHeard ==
  ASSUME PageInv, UNCHANGED <<pageVars, readyState, requests, session, wanted, nick>>,
         NEW n \in Nick, NEW cs \in SUBSET Channel, Leave(n, cs),
         NEW told \in SUBSET Channel, NEW e \in Events, e.type \in News,
         events' = Told(Watching(told), e),
         \A c \in told : present[c] \ {n} \subseteq After(present[c], e, channel),
         told \subseteq cs
  PROVE  PageInv'
<1>1. PageTypes
  BY DEF PageInv
<1>2. /\ present' \in [Channel -> SUBSET Nick]
      /\ founded' \in [Channel -> Name \cup {NoName}]
      /\ \A c \in Channel :
           /\ present'[c] = IF c \in cs THEN present[c] \ {n} ELSE present[c]
           /\ founded'[c] = IF present'[c] = {} THEN NoName ELSE founded[c]
  BY <1>1, LeaveIs
<1>3. \A c \in told : present'[c] \subseteq After(present[c], e, channel)
  BY <1>2
<1>4. \A c \in Channel \ told : present'[c] \subseteq present[c]
  BY <1>2
<1>5. \A k \in Sockets : \A c \in Channel :
        nick[k] \in present'[c] => nick[k] \in present[c]
  BY <1>2
<1>6. \A c \in Channel :
        present[c] # {} /\ founded'[c] # NoName => founded'[c] = founded[c]
  BY <1>2
<1>. QED BY <1>2, <1>3, <1>4, <1>5, <1>6, OthersHeard

LEMMA OtherPartsKept ==
  ASSUME PageInv, NEW n \in Nick, NEW c \in Channel, OtherParts(n, c)
  PROVE  PageInv'
<1>1. PICK e : e = [type |-> "part", nick |-> n]
  OBVIOUS
<1>2. e \in Events /\ e.type \in News
  BY <1>1 DEF Events, News
<1>3. \A d \in {c} : present[d] \ {n} \subseteq After(present[d], e, channel)
  BY <1>1 DEF After
<1>4. /\ UNCHANGED <<pageVars, readyState, requests, session, wanted, nick>>
      /\ Leave(n, {c}) /\ events' = Told(Watching({c}), e)
  BY <1>1 DEF OtherParts
<1>5. PICK cs \in SUBSET Channel : cs = {c}
  OBVIOUS
<1>. QED BY <1>2, <1>3, <1>4, <1>5, LeavingHeard

LEMMA OtherKicksKept ==
  ASSUME PageInv, NEW n \in Nick, NEW c \in Channel, OtherKicks(n, c)
  PROVE  PageInv'
<1>1. PICK e : e = [type |-> "kick", nick |-> n]
  OBVIOUS
<1>2. e \in Events /\ e.type \in News
  BY <1>1 DEF Events, News
<1>3. \A d \in {c} : present[d] \ {n} \subseteq After(present[d], e, channel)
  BY <1>1 DEF After
<1>4. /\ UNCHANGED <<pageVars, readyState, requests, session, wanted, nick>>
      /\ Leave(n, {c}) /\ events' = Told(Watching({c}), e)
  BY <1>1 DEF OtherKicks
<1>5. PICK cs \in SUBSET Channel : cs = {c}
  OBVIOUS
<1>. QED BY <1>2, <1>3, <1>4, <1>5, LeavingHeard

\* A QUIT means nothing to the page.
LEMMA OtherQuitsKept ==
  ASSUME PageInv, NEW n \in Nick, OtherQuits(n)
  PROVE  PageInv'
<1>1. PICK e : e = [type |-> "part", nick |-> n]
  OBVIOUS
<1>2. e \in Events /\ e.type \in News
  BY <1>1 DEF Events, News
<1>3. PICK told \in SUBSET Channel : told = {}
  OBVIOUS
<1>4. Watching(told) = {}
  BY <1>3 DEF Watching
<1>5. events' = Told(Watching(told), e)
  BY <1>4 DEF Told, OtherQuits, PageInv, PageTypes
<1>6. PICK cs \in SUBSET Channel : cs = Channel
  OBVIOUS
<1>7. /\ UNCHANGED <<pageVars, readyState, requests, session, wanted, nick>>
      /\ Leave(n, cs)
  BY <1>6 DEF OtherQuits
<1>. QED BY <1>2, <1>3, <1>5, <1>7, LeavingHeard

\* Those who are told of a renaming share a channel with the old name.
LEMMA OtherRenamesKept ==
  ASSUME PageInv, NEW n \in Nick, NEW new \in Nick, OtherRenames(n, new)
  PROVE  PageInv'
<1>1. PageTypes
  BY DEF PageInv
<1>2. Rename(n, new, {})
  BY DEF OtherRenames
<1>3. /\ new \notin InUse /\ present' \in [Channel -> SUBSET Nick]
      /\ \A c \in Channel :
           present'[c] = IF n \in present[c] THEN (present[c] \ {n}) \cup {new}
                         ELSE present[c]
      /\ nick' \in [Sockets -> Nick \cup {NoNick}]
      /\ \A k \in Sockets : nick'[k] = IF k \in {} THEN new ELSE nick[k]
  BY <1>1, <1>2 DEF Rename, PageTypes
<1>4. nick' = nick
  <2>1. nick' = [k \in Sockets |-> nick[k]]
    BY <1>2 DEF Rename
  <2>2. nick = [k \in Sockets |-> nick[k]]
    BY <1>1 DEF PageTypes
  <2>. QED BY <2>1, <2>2
<1>5. UNCHANGED <<pageVars, readyState, requests, session, wanted, nick, founded>>
  BY <1>4 DEF OtherRenames
<1>6. PICK cs \in SUBSET Channel : cs = ChannelsOf(n)
  BY DEF ChannelsOf
<1>7. PICK e : e = [type |-> "nick", nick |-> n, new |-> new]
  OBVIOUS
<1>8. e \in Events /\ e.type \in News
  BY <1>7 DEF Events, News
<1>9. events' = Told(Watching(cs), e)
  BY <1>2, <1>6, <1>7 DEF Rename
<1>10. \A c \in cs : present'[c] \subseteq After(present[c], e, channel)
  BY <1>3, <1>6, <1>7 DEF After, ChannelsOf
<1>11. \A c \in Channel \ cs : present'[c] \subseteq present[c]
  BY <1>3, <1>6 DEF ChannelsOf
<1>12. \A k \in Sockets : \A c \in Channel :
         nick[k] \in present'[c] => nick[k] \in present[c]
  BY <1>1, <1>3, Unused
<1>13. founded' \in [Channel -> Name \cup {NoName}] /\ founded' = founded
  BY <1>1, <1>5 DEF PageTypes
<1>. QED BY <1>3, <1>5, <1>8, <1>9, <1>10, <1>11, <1>12, <1>13, OthersHeard

-----------------------------------------------------------------------------
\* The next request of a page.
LEMMA RequestIs ==
  ASSUME PageTypes, NEW k \in Sockets, NEW type, Received(k, type)
  PROVE  /\ session[k] # "over" /\ requests[k] \in Seq(Requests) /\ requests[k] # <<>>
         /\ Head(requests[k]) \in Requests /\ Head(requests[k]).type = type
         /\ Tail(requests[k]) \in Seq(Requests)
         /\ requests' \in [Sockets -> Seq(Requests)]
         /\ \A j \in Sockets :
              requests'[j] = IF j = k THEN Tail(requests[k]) ELSE requests[j]
<1>1. session[k] # "over" /\ requests[k] # <<>> /\ Head(requests[k]).type = type
  BY DEF Received
<1>2. requests[k] \in Seq(Requests)
  BY DEF PageTypes
<1>3. Head(requests[k]) \in Requests /\ Tail(requests[k]) \in Seq(Requests)
  BY <1>1, <1>2, Behead
<1>4. requests' = [requests EXCEPT ![k] = Tail(@)]
  BY DEF Received
<1>. QED BY <1>1, <1>2, <1>3, <1>4 DEF PageTypes

\* Only a session that is in joins, leaves and takes names.
LEMMA TalksWhenIn ==
  ASSUME PageInv, NEW k \in Sockets, NEW type \in Talk, Received(k, type)
  PROVE  /\ session[k] = "in" /\ nick[k] \in Nick
         /\ Only(requests[k], Talk) /\ Only(requests'[k], Talk)
<1>1. PageTypes /\ Phase(k)
  BY DEF PageInv, Phases
<1>2. /\ session[k] # "over" /\ requests[k] \in Seq(Requests) /\ requests[k] # <<>>
      /\ Head(requests[k]).type = type /\ requests'[k] = Tail(requests[k])
  BY <1>1, RequestIs
<1>3. session[k] # "none"
  <2>1. SUFFICES ASSUME Only(requests[k], {"connect"}) PROVE FALSE
    BY <1>1 DEF Phase
  <2>2. type \in {"connect"}
    BY <1>2, <2>1, OnlyRest
  <2>. QED BY <2>2 DEF Talk
<1>4. session[k] # "asked"
  BY <1>1, <1>2 DEF Phase
<1>5. session[k] = "in"
  BY <1>1, <1>2, <1>3, <1>4 DEF PageTypes
<1>6. nick[k] \in Nick /\ Only(requests[k], Talk)
  BY <1>1, <1>5 DEF Phase
<1>7. Only(Tail(requests[k]), Talk)
  BY <1>2, <1>6, OnlyRest
<1>. QED BY <1>2, <1>5, <1>6, <1>7

\* The request is allowed to the session in use and leads it on.
LEMMA OwnLeads ==
  ASSUME PageInv, NEW k \in Sockets, NEW type \in Talk, Received(k, type),
         k = socket, k \notin held, readyState[k] = "open"
  PROVE  /\ Allowed(ChannelsOf(nick[k]), Head(requests[k]))
         /\ Leads(Go(ChannelsOf(nick[k]), Head(requests[k])), Tail(requests[k]),
                  {channel.chan})
         /\ channel \in Name /\ channel.chan \in Channel
<1>1. PageTypes
  BY DEF PageInv
<1>2. requests[k] \in Seq(Requests) /\ requests[k] # <<>>
  BY <1>1, RequestIs
<1>3. session[k] = "in"
  BY TalksWhenIn
<1>4. Leads(ChannelsOf(nick[k]), requests[k], {channel.chan})
  BY <1>3 DEF PageInv, Leading, Followed
<1>5. channel \in Name
  BY DEF PageInv, PageKnows
<1>6. channel.chan \in Channel
  BY <1>5 DEF Name
<1>. QED BY <1>2, <1>4, <1>5, <1>6, LeadsRest

\* What a request of a session that is in leaves as it was.
LEMMA TalkKept ==
  ASSUME PageInv, NEW k \in Sockets, NEW type \in Talk, Received(k, type),
         UNCHANGED <<socket, dialog, nickname, channel, listed, readyState>>,
         held' \in SUBSET Sockets, UNCHANGED <<session, wanted>>,
         nick' \in [Sockets -> Nick \cup {NoNick}], nick'[k] \in Nick,
         \A j \in Sockets \ {k} : nick'[j] = nick[j],
         present' \in [Channel -> SUBSET Nick],
         founded' \in [Channel -> Name \cup {NoName}],
         events' \in [Sockets -> Seq(Events)],
         \A j \in Sockets : Only(events[j], News) => Only(events'[j], News),
         \A j \in Sockets \ {k} : session[j] # "in" => events'[j] = events[j]
  PROVE  PageTypes' /\ Phases' /\ SocketsInOrder' /\ PageKnows'
<1>1. PageTypes
  BY DEF PageInv
<1>3. /\ requests' \in [Sockets -> Seq(Requests)]
      /\ \A j \in Sockets \ {k} : requests'[j] = requests[j]
  BY <1>1, RequestIs
<1>4. PageTypes'
  BY <1>1, <1>3 DEF PageTypes
<1>5. session[k] = "in" /\ Only(requests'[k], Talk)
  BY TalksWhenIn
<1>6. ASSUME NEW j \in Sockets
      PROVE  \/ requests'[j] = requests[j] /\ nick'[j] = nick[j] /\ events'[j] = events[j]
             \/ /\ session[j] = "in" /\ nick'[j] \in Nick
                /\ Only(requests[j], Talk) => Only(requests'[j], Talk)
                /\ Only(events[j], News) => Only(events'[j], News)
  <2>1. CASE j = k
    BY <1>5, <2>1
  <2>2. CASE j # k /\ session[j] # "in"
    BY <1>3, <2>2
  <2>3. CASE j # k /\ session[j] = "in"
    <3>1. nick[j] \in Nick
      BY <2>3 DEF PageInv, Phases, Phase
    <3>. QED BY <1>3, <2>3, <3>1
  <2>. QED BY <2>1, <2>2, <2>3
<1>7. Phases' /\ SocketsInOrder' /\ PageKnows'
  BY <1>6, PhasesKept
<1>. QED BY <1>4, <1>7

\* The server refuses: the user is in the channel already or may not enter, is
\* not there, or the nickname is in use.
LEMMA RefusalKept ==
  ASSUME PageInv, NEW k \in Sockets, NEW type \in Talk, Request(k, type),
         UNCHANGED <<session, wanted, nick, present, founded, events>>,
         type = "part" => nick[k] \notin present[Head(requests[k]).name.chan]
  PROVE  PageInv'
<1>1. PageTypes
  BY DEF PageInv
<1>2. /\ Received(k, type)
      /\ UNCHANGED <<socket, dialog, nickname, channel, listed, held, readyState>>
  BY DEF Request, pageVars
<1>3. /\ requests[k] \in Seq(Requests) /\ requests[k] # <<>>
      /\ Head(requests[k]) \in Requests /\ Head(requests[k]).type = type
      /\ \A j \in Sockets :
           requests'[j] = IF j = k THEN Tail(requests[k]) ELSE requests[j]
  BY <1>1, <1>2, RequestIs
<1>4. session[k] = "in" /\ nick[k] \in Nick
  BY <1>2, TalksWhenIn
<1>5. PageTypes' /\ Phases' /\ SocketsInOrder' /\ PageKnows'
  <2>1. /\ nick' \in [Sockets -> Nick \cup {NoNick}]
        /\ present' \in [Channel -> SUBSET Nick]
        /\ founded' \in [Channel -> Name \cup {NoName}]
        /\ events' \in [Sockets -> Seq(Events)]
    BY <1>1 DEF PageTypes
  <2>. QED BY <1>1, <1>2, <1>4, <2>1, TalkKept DEF PageTypes
<1>6. NicksDiffer'
  BY DEF PageInv, NicksDiffer
<1>7. Leading' /\ Completing'
  <2>1. CASE socket = k /\ k \notin held /\ readyState[k] = "open"
    <3>1. PICK here : here = ChannelsOf(nick[k])
      OBVIOUS
    <3>2. /\ Allowed(here, Head(requests[k]))
          /\ Leads(Go(here, Head(requests[k])), Tail(requests[k]), {channel.chan})
          /\ channel \in Name /\ channel.chan \in Channel
      BY <1>2, <2>1, <3>1, OwnLeads
    <3>3. here' = here /\ ChannelsOf(nick[k])' = here
      BY <3>1 DEF ChannelsOf
    <3>4. type \in {"join", "part"} => here = {}
      BY <1>3, <3>1, <3>2 DEF Allowed, ChannelsOf
    <3>5. here \subseteq Go(here, Head(requests[k]))
      BY <1>3, <3>4 DEF Go, Talk
    <3>6. Leads(here, Tail(requests[k]), {channel.chan})
      BY <3>2, <3>5, LeadsFewer
    <3>7. Leading'
      <4>1. requests'[k] = Tail(requests[k]) /\ channel' = channel /\ socket' = k
        BY <1>2, <1>3, <2>1
      <4>. QED BY <3>3, <3>6, <4>1 DEF Leading, Followed
    <3>8. Completing'
      <4>1. SUFFICES ASSUME Shown' PROVE Completing'
        BY DEF Completing
      <4>2. /\ nick[k] \in present[channel.chan] /\ founded[channel.chan] = channel
            /\ Only(Tail(requests[k]), {"part", "nick"})
        BY <1>2, <1>3, <2>1, <4>1 DEF Shown, Followed
      <4>3. channel.chan \in here
        BY <3>1, <3>2, <4>2 DEF ChannelsOf
      <4>4. type = "nick"
        BY <3>4, <4>3 DEF Talk
      <4>5. Only(requests[k], {"part", "nick"})
        BY <1>3, <4>2, <4>4, OnlyRest
      <4>6. Shown
        BY <1>4, <2>1, <4>2, <4>5, <1>1, k \in Sockets DEF Shown, Followed
      <4>. QED BY <1>2, <4>6 DEF PageInv, Completing
    <3>. QED BY <3>7, <3>8
  <2>2. CASE socket = k /\ ~(k \notin held /\ readyState[k] = "open")
    BY <1>2, <2>2 DEF Leading, Completing, Shown, Followed
  <2>3. CASE socket # k
    <3>1. requests'[socket] = requests[socket] \/ socket = 0
      BY <1>1, <1>3, <2>3 DEF PageTypes
    <3>2. socket' = socket /\ channel' = channel /\ listed' = listed
      BY <1>2
    <3>3. ChannelsOf(nick[socket])' = ChannelsOf(nick[socket])
      BY <3>2 DEF ChannelsOf
    <3>4. Leading'
      BY <1>2, <3>1, <3>2, <3>3 DEF PageInv, Leading, Followed
    <3>5. Completing'
      BY <1>2, <3>1, <3>2 DEF PageInv, Completing, Shown, Followed
    <3>. QED BY <3>4, <3>5
  <2>. QED BY <2>1, <2>2, <2>3
<1>. QED BY <1>5, <1>6, <1>7 DEF PageInv

\* What a session that is in is told are news.
LEMMA ToldNews ==
  ASSUME PageTypes, NEW who, NEW e \in Events, e.type \in News, NEW j \in Sockets,
         Only(events[j], News)
  PROVE  Only(Told(who, e)[j], News)
<1>1. events[j] \in Seq(Events)
  BY DEF PageTypes
<1>2. Only(Append(events[j], e), News)
  BY <1>1, OnlyMore
<1>3. Told(who, e)[j] = IF j \in who /\ readyState[j] = "open"
                        THEN Append(events[j], e) ELSE events[j]
  BY ToldIs
<1>4. CASE j \in who /\ readyState[j] = "open"
  BY <1>2, <1>3, <1>4
<1>5. CASE ~(j \in who /\ readyState[j] = "open")
  BY <1>3, <1>5
<1>. QED BY <1>4, <1>5

\* "part": the session is then in no channel.
LEMMA OnPartKept ==
  ASSUME PageInv, NEW k \in Sockets, OnPart(k)
  PROVE  PageInv'
<1>1. PageTypes /\ Phases
  BY DEF PageInv
<1>2. PICK r : r = Head(requests[k])
  OBVIOUS
<1>3. PICK type \in Talk : type = "part"
  BY DEF Talk
<1>4. /\ Request(k, type) /\ Received(k, type)
      /\ UNCHANGED <<session, wanted, nick>>
  BY <1>3 DEF OnPart, Request
<1>5. /\ r \in Requests /\ r.type = "part"
      /\ \A j \in Sockets :
           requests'[j] = IF j = k THEN Tail(requests[k]) ELSE requests[j]
  BY <1>1, <1>2, <1>3, <1>4, RequestIs
<1>6. UNCHANGED <<socket, dialog, nickname, channel, listed, held, readyState>>
  BY <1>4 DEF Request, pageVars
<1>7. session[k] = "in" /\ nick[k] \in Nick
  BY <1>4, TalksWhenIn
<1>8. r.name \in Name /\ r.name.chan \in Channel
  BY <1>5 DEF Requests, Name
<1>9. CASE nick[k] \notin present[r.name.chan]
  <2>1. UNCHANGED <<events, present, founded>>
    BY <1>2, <1>9 DEF OnPart
  <2>. QED BY <1>2, <1>4, <1>9, <2>1, RefusalKept
<1>10. CASE nick[k] \in present[r.name.chan]
  <2>1. PICK cs \in SUBSET Channel : cs = {r.name.chan}
    BY <1>8
  <2>2. PICK n \in Nick : n = nick[k]
    BY <1>7
  <2>3. PICK e : e = [type |-> "part", nick |-> n]
    OBVIOUS
  <2>4. e \in Events /\ e.type \in News
    BY <2>3 DEF Events, News
  <2>5. events' = Told(Watching(cs), e) /\ Leave(n, cs)
    BY <1>2, <1>10, <2>1, <2>2, <2>3 DEF OnPart
  <2>6. /\ events' \in [Sockets -> Seq(Events)]
        /\ \A j \in Sockets :
             events'[j] = IF j \in Watching(cs) /\ readyState[j] = "open"
                          THEN Append(events[j], e) ELSE events[j]
    BY <1>1, <2>4, <2>5, ToldIs
  <2>7. /\ present' \in [Channel -> SUBSET Nick]
        /\ founded' \in [Channel -> Name \cup {NoName}]
        /\ \A c \in Channel :
             /\ present'[c] = IF c \in cs THEN present[c] \ {n} ELSE present[c]
             /\ founded'[c] = IF present'[c] = {} THEN NoName ELSE founded[c]
    BY <1>1, <2>5, LeaveIs
  <2>8. PageTypes' /\ Phases' /\ SocketsInOrder' /\ PageKnows'
    <3>1. \A j \in Sockets : Only(events[j], News) => Only(events'[j], News)
      BY <1>1, <2>4, <2>5, ToldNews
    <3>2. \A j \in Sockets : session[j] # "in" => events'[j] = events[j]
      BY <1>1, <2>1, <2>6, WatchersAreIn
    <3>3. nick' \in [Sockets -> Nick \cup {NoNick}]
      BY <1>1, <1>4 DEF PageTypes
    <3>. QED BY <1>1, <1>4, <1>6, <1>7, <2>6, <2>7, <3>1, <3>2, <3>3, TalkKept
           DEF PageTypes
  <2>9. NicksDiffer'
    BY <1>4 DEF PageInv, NicksDiffer
  <2>10. Leading' /\ Completing'
    <3>1. CASE socket = k /\ k \notin held /\ readyState[k] = "open"
      <4>1. PICK here : here = ChannelsOf(n)
        OBVIOUS
      <4>2. /\ Allowed(here, r)
            /\ Leads(Go(here, r), Tail(requests[k]), {channel.chan})
            /\ channel \in Name /\ channel.chan \in Channel
        BY <1>2, <1>4, <2>2, <3>1, <4>1, OwnLeads
      <4>3. here \subseteq cs /\ Go(here, r) = {}
        BY <1>5, <2>1, <4>2 DEF Allowed, Go
      <4>4. ChannelsOf(nick[k])' = {}
        BY <1>4, <2>2, <2>7, <4>1, <4>3 DEF ChannelsOf
      <4>5. Leading'
        <5>1. requests'[k] = Tail(requests[k]) /\ channel' = channel /\ socket' = k
          BY <1>5, <1>6, <3>1 DEF pageVars
        <5>. QED BY <4>2, <4>3, <4>4, <5>1 DEF Leading, Followed
      <4>6. ~Shown'
        BY <1>6, <3>1, <4>2, <4>4 DEF Shown, ChannelsOf, pageVars, Followed
      <4>. QED BY <4>5, <4>6 DEF Completing
    <3>2. CASE socket = k /\ ~(k \notin held /\ readyState[k] = "open")
      BY <1>6, <3>2 DEF Leading, Completing, Shown, pageVars, Followed
    <3>3. CASE socket # k
      <4>1. socket # 0 => socket \in Sockets
        BY <1>1 DEF PageTypes
      <4>2. UNCHANGED <<socket, channel, listed, held, readyState>>
        BY <1>6 DEF pageVars
      <4>3. socket # 0 =>
              /\ requests'[socket] = requests[socket]
              /\ session'[socket] = session[socket] /\ nick'[socket] = nick[socket]
              /\ \A c \in Channel :
                   nick[socket] \in present'[c] => nick[socket] \in present[c]
        BY <1>4, <1>5, <2>7, <3>3, <4>1
      <4>4. \A c \in Channel :
              present[c] # {} /\ founded'[c] # NoName => founded'[c] = founded[c]
        BY <2>7
      <4>5. socket # 0 =>
              events'[socket] =
                IF socket \in Watching(cs) /\ readyState[socket] = "open"
                THEN Append(events[socket], e) ELSE events[socket]
        BY <2>6, <4>1
      <4>6. \A c \in cs : present'[c] \subseteq After(present[c], e, channel)
        BY <2>3, <2>7 DEF After
      <4>7. \A c \in Channel \ cs : present'[c] \subseteq present[c]
        BY <2>7
      <4>. QED BY <2>4, <2>8, <4>2, <4>3, <4>4, <4>5, <4>6, <4>7, HearsOfIt
    <3>. QED BY <3>1, <3>2, <3>3
  <2>. QED BY <2>8, <2>9, <2>10 DEF PageInv
<1>. QED BY <1>9, <1>10

\* "join": the session is then in the channel, and the names of all who are
\* there are on their way to it.
LEMMA OnJoinKept ==
  ASSUME PageInv, NEW k \in Sockets, OnJoin(k)
  PROVE  PageInv'
<1>1. PageTypes /\ Phases
  BY DEF PageInv
<1>2. PICK r : r = Head(requests[k])
  OBVIOUS
<1>3. PICK type \in Talk : type = "join"
  BY DEF Talk
<1>4. /\ Request(k, type) /\ Received(k, type)
      /\ UNCHANGED <<session, wanted, nick>>
  BY <1>3 DEF OnJoin, Request
<1>5. /\ r \in Requests /\ r.type = "join"
      /\ \A j \in Sockets :
           requests'[j] = IF j = k THEN Tail(requests[k]) ELSE requests[j]
  BY <1>1, <1>2, <1>3, <1>4, RequestIs
<1>6. UNCHANGED <<socket, dialog, nickname, channel, listed, held, readyState>>
  BY <1>4 DEF Request, pageVars
<1>7. session[k] = "in" /\ nick[k] \in Nick
  BY <1>4, TalksWhenIn
<1>8. PICK name \in Name : name = r.name /\ name.chan \in Channel
  BY <1>5 DEF Requests, Name
<1>9. PICK c \in Channel : c = name.chan
  BY <1>8
<1>10. PICK n \in Nick : n = nick[k]
  BY <1>7
<1>11. PICK e : e = [type |-> "join", nick |-> n]
  OBVIOUS
<1>12. PICK told : told = Told(Watching({c}) \cup {k}, e)
  OBVIOUS
<1>13. CASE UNCHANGED <<events, present, founded>>
  BY <1>3, <1>4, <1>13, RefusalKept
<1>14. CASE /\ Enter(n, name)
            /\ events' = [told EXCEPT ![k] = IF readyState[k] # "open" THEN @ ELSE
                 Append(@, [type |-> "names", name |-> founded'[c],
                            names |-> present'[c]])]
  <2>1. /\ present' \in [Channel -> SUBSET Nick]
        /\ founded' \in [Channel -> Name \cup {NoName}]
        /\ \A d \in Channel :
             /\ present'[d] = IF d = c THEN present[d] \cup {n} ELSE present[d]
             /\ present[d] # {} => founded'[d] = founded[d]
    <3>1. Enter(n, name)
      BY <1>14
    <3>2. /\ present' \in [Channel -> SUBSET Nick]
          /\ founded' \in [Channel -> Name \cup {NoName}]
          /\ \A d \in Channel :
               /\ present'[d] = IF d = name.chan THEN present[d] \cup {n} ELSE present[d]
               /\ present[d] # {} => founded'[d] = founded[d]
      BY <1>1, <3>1, EnterIs
    <3>. QED BY <1>9, <3>2
  <2>2. e \in Events /\ e.type \in News
    BY <1>11 DEF Events, News
  <2>3. PICK all : all = [type |-> "names", name |-> founded'[c], names |-> present'[c]]
    OBVIOUS
  <2>4. all \in Events /\ all.type \in News
    BY <2>1, <2>3 DEF Events, News
  <2>5. /\ told \in [Sockets -> Seq(Events)]
        /\ \A j \in Sockets :
             told[j] = IF j \in Watching({c}) \cup {k} /\ readyState[j] = "open"
                       THEN Append(events[j], e) ELSE events[j]
    <3>1. PICK who : who = Watching({c}) \cup {k}
      OBVIOUS
    <3>2. /\ Told(who, e) \in [Sockets -> Seq(Events)]
          /\ \A j \in Sockets :
               Told(who, e)[j] = IF j \in who /\ readyState[j] = "open"
                                 THEN Append(events[j], e) ELSE events[j]
      BY <1>1, <2>2, ToldIs
    <3>. QED BY <1>12, <3>1, <3>2
  <2>6. Append(told[k], all) \in Seq(Events)
    BY <2>4, <2>5, Appended
  <2>7. /\ events' \in [Sockets -> Seq(Events)]
        /\ readyState[k] = "open" => events'[k] = Append(told[k], all)
        /\ readyState[k] # "open" => events'[k] = told[k]
        /\ \A j \in Sockets \ {k} : events'[j] = told[j]
    BY <1>14, <2>3, <2>5, <2>6
  <2>8. PageTypes' /\ Phases' /\ SocketsInOrder' /\ PageKnows'
    <3>1. \A j \in Sockets : Only(events[j], News) => Only(told[j], News)
      BY <1>1, <1>12, <2>2, ToldNews
    <3>2. Only(told[k], News) => Only(Append(told[k], all), News)
      BY <2>4, <2>5, OnlyMore
    <3>3. \A j \in Sockets : Only(events[j], News) => Only(events'[j], News)
      BY <2>7, <3>1, <3>2
    <3>4. \A j \in Sockets \ {k} : session[j] # "in" => events'[j] = events[j]
      BY <1>1, <2>5, <2>7, WatchersAreIn
    <3>5. nick' \in [Sockets -> Nick \cup {NoNick}]
      BY <1>1, <1>4 DEF PageTypes
    <3>. QED BY <1>1, <1>4, <1>6, <1>7, <2>1, <2>7, <3>3, <3>4, <3>5, TalkKept
           DEF PageTypes
  <2>9. NicksDiffer'
    BY <1>4 DEF PageInv, NicksDiffer
  <2>10. Leading' /\ Completing'
    <3>1. CASE socket = k /\ k \notin held /\ readyState[k] = "open"
      <4>1. PICK here : here = ChannelsOf(n)
        OBVIOUS
      <4>2. /\ Allowed(here, r)
            /\ Leads(Go(here, r), Tail(requests[k]), {channel.chan})
            /\ channel \in Name /\ channel.chan \in Channel
        BY <1>2, <1>4, <1>10, <3>1, <4>1, OwnLeads
      <4>3. here = {} /\ Go(here, r) = {c}
        BY <1>5, <1>8, <1>9, <4>2 DEF Allowed, Go
      <4>4. ChannelsOf(nick[k])' = {c}
        BY <1>4, <1>10, <2>1, <4>1, <4>3 DEF ChannelsOf
      <4>5. requests'[k] = Tail(requests[k]) /\ channel' = channel /\ socket' = k
        BY <1>5, <1>6, <3>1 DEF pageVars
      <4>6. Leading'
        BY <4>2, <4>3, <4>4, <4>5 DEF Leading, Followed
      <4>7. Completing'
        <5>1. SUFFICES ASSUME Shown'
                       PROVE  Completes(listed', events'[k], channel, present'[channel.chan])
          BY <4>5 DEF Completing
        <5>2. channel.chan = c /\ founded'[c] = channel
          BY <4>2, <4>4, <4>5, <5>1 DEF Shown, ChannelsOf, Followed
        <5>3. all.type = "names" /\ all.name = channel /\ present'[c] \subseteq all.names
          BY <2>3, <5>2
        <5>4. told[k] \in Seq(Events) /\ events'[k] = Append(told[k], all)
          BY <2>5, <2>7, <3>1
        <5>5. listed' \in SUBSET Nick /\ present'[c] \in SUBSET Nick
          BY <2>1, <2>8 DEF PageTypes
        <5>6. Completes(listed', Append(told[k], all), channel, present'[c])
          BY <2>4, <5>3, <5>4, <5>5, NamesComplete
        <5>. QED BY <5>2, <5>4, <5>6
      <4>. QED BY <4>6, <4>7
    <3>2. CASE socket = k /\ ~(k \notin held /\ readyState[k] = "open")
      BY <1>6, <3>2 DEF Leading, Completing, Shown, pageVars, Followed
    <3>3. CASE socket # k
      <4>1. socket # 0 => socket \in Sockets
        BY <1>1 DEF PageTypes
      <4>2. UNCHANGED <<socket, channel, listed, held, readyState>>
        BY <1>6 DEF pageVars
      <4>3. socket # 0 =>
              /\ requests'[socket] = requests[socket]
              /\ session'[socket] = session[socket] /\ nick'[socket] = nick[socket]
              /\ \A d \in Channel :
                   nick[socket] \in present'[d] => nick[socket] \in present[d]
        <5>1. socket # 0 => nick[socket] # n
          BY <1>10, <3>3, <4>1 DEF PageInv, NicksDiffer
        <5>. QED BY <1>4, <1>5, <2>1, <3>3, <4>1, <5>1
      <4>4. PICK cs \in SUBSET Channel : cs = {c}
        OBVIOUS
      <4>5. socket # 0 =>
              events'[socket] =
                IF socket \in Watching(cs) /\ readyState[socket] = "open"
                THEN Append(events[socket], e) ELSE events[socket]
        BY <2>5, <2>7, <3>3, <4>1, <4>4
      <4>6. \A d \in cs : present'[d] \subseteq After(present[d], e, channel)
        BY <1>11, <2>1, <4>4 DEF After
      <4>7. \A d \in Channel \ cs : present'[d] \subseteq present[d]
        BY <2>1, <4>4
      <4>. QED BY <2>1, <2>2, <2>8, <4>2, <4>3, <4>5, <4>6, <4>7, HearsOfIt
    <3>. QED BY <3>1, <3>2, <3>3
  <2>. QED BY <2>8, <2>9, <2>10 DEF PageInv
<1>. QED BY <1>2, <1>8, <1>9, <1>10, <1>11, <1>12, <1>13, <1>14 DEF OnJoin

\* "nick": who is in a channel is there under the new name.
LEMMA OnNickKept ==
  ASSUME PageInv, NEW k \in Sockets, OnNick(k)
  PROVE  PageInv'
<1>1. PageTypes /\ Phases
  BY DEF PageInv
<1>2. PICK r : r = Head(requests[k])
  OBVIOUS
<1>3. PICK type \in Talk : type = "nick"
  BY DEF Talk
<1>4. /\ Request(k, type) /\ Received(k, type)
      /\ UNCHANGED <<session, wanted, founded>>
  BY <1>3 DEF OnNick, Request
<1>5. /\ r \in Requests /\ r.type = "nick" /\ requests[k] \in Seq(Requests)
      /\ requests[k] # <<>>
      /\ \A j \in Sockets :
           requests'[j] = IF j = k THEN Tail(requests[k]) ELSE requests[j]
  BY <1>1, <1>2, <1>3, <1>4, RequestIs
<1>6. UNCHANGED <<socket, dialog, nickname, channel, listed, held, readyState>>
  BY <1>4 DEF Request, pageVars
<1>7. session[k] = "in" /\ nick[k] \in Nick
  BY <1>4, TalksWhenIn
<1>8. PICK new \in Nick : new = r.nick
  BY <1>5 DEF Requests
<1>9. PICK old \in Nick : old = nick[k]
  BY <1>7
<1>10. CASE UNCHANGED <<events, nick, present>>
  BY <1>3, <1>4, <1>10, RefusalKept
<1>11. CASE Rename(old, new, {k})
  <2>1. /\ new \notin InUse /\ present' \in [Channel -> SUBSET Nick]
        /\ \A c \in Channel :
             present'[c] = IF old \in present[c] THEN (present[c] \ {old}) \cup {new}
                           ELSE present[c]
        /\ nick' \in [Sockets -> Nick \cup {NoNick}]
        /\ \A j \in Sockets : nick'[j] = IF j \in {k} THEN new ELSE nick[j]
    BY <1>1, <1>11 DEF Rename, PageTypes
  <2>2. /\ \A c \in Channel : new \notin present[c]
        /\ \A j \in Sockets : nick[j] # new
    BY <1>1, <2>1, Unused
  <2>3. PICK cs \in SUBSET Channel : cs = ChannelsOf(old)
    BY DEF ChannelsOf
  <2>4. PICK e : e = [type |-> "nick", nick |-> old, new |-> new]
    OBVIOUS
  <2>5. e \in Events /\ e.type \in News
    BY <2>4 DEF Events, News
  <2>6. events' = Told(Watching(cs) \cup {k}, e)
    BY <1>11, <2>3, <2>4 DEF Rename
  <2>7. /\ events' \in [Sockets -> Seq(Events)]
        /\ \A j \in Sockets :
             events'[j] = IF j \in Watching(cs) \cup {k} /\ readyState[j] = "open"
                          THEN Append(events[j], e) ELSE events[j]
    BY <1>1, <2>5, <2>6, ToldIs
  <2>8. PageTypes' /\ Phases' /\ SocketsInOrder' /\ PageKnows'
    <3>1. \A j \in Sockets : Only(events[j], News) => Only(events'[j], News)
      BY <1>1, <2>5, <2>6, ToldNews
    <3>2. \A j \in Sockets \ {k} : session[j] # "in" => events'[j] = events[j]
      BY <1>1, <2>7, WatchersAreIn
    <3>3. founded' \in [Channel -> Name \cup {NoName}]
      BY <1>1, <1>4 DEF PageTypes
    <3>4. nick'[k] \in Nick /\ \A j \in Sockets \ {k} : nick'[j] = nick[j]
      BY <2>1
    <3>. QED BY <1>1, <1>4, <1>6, <2>1, <2>7, <3>1, <3>2, <3>3, <3>4, TalkKept
           DEF PageTypes
  <2>9. NicksDiffer'
    BY <2>1, <2>2 DEF PageInv, NicksDiffer
  <2>10. \A c \in Channel : present'[c] \subseteq After(present[c], e, channel)
    BY <2>1, <2>4 DEF After
  <2>11. Leading' /\ Completing'
    <3>1. CASE socket = k /\ k \notin held /\ readyState[k] = "open"
      <4>1. PICK here : here = ChannelsOf(old)
        OBVIOUS
      <4>2. /\ Leads(Go(here, r), Tail(requests[k]), {channel.chan})
            /\ channel \in Name /\ channel.chan \in Channel
        BY <1>2, <1>4, <1>9, <3>1, <4>1, OwnLeads
      <4>3. Go(here, r) = here
        BY <1>5 DEF Go
      <4>4. ChannelsOf(nick[k])' = here
        <5>1. nick'[k] = new
          BY <2>1
        <5>2. \A c \in Channel : new \in present'[c] <=> old \in present[c]
          BY <2>1, <2>2
        <5>. QED BY <4>1, <5>1, <5>2 DEF ChannelsOf
      <4>5. requests'[k] = Tail(requests[k]) /\ channel' = channel /\ socket' = k
        BY <1>5, <1>6, <3>1 DEF pageVars
      <4>6. Leading'
        BY <4>2, <4>3, <4>4, <4>5 DEF Leading, Followed
      <4>7. Completing'
        <5>1. SUFFICES ASSUME Shown'
                       PROVE  Completes(listed, events'[k], channel,
                                        present'[channel.chan])
          BY <1>6, <4>5 DEF Completing, pageVars
        <5>2. PICK c \in Channel : c = channel.chan
          BY <4>2
        <5>3. /\ nick'[k] \in present'[c] /\ founded'[c] = channel
              /\ Only(Tail(requests[k]), {"part", "nick"})
          BY <4>5, <5>1, <5>2 DEF Shown, Followed
        <5>4. nick[k] \in present[c] /\ founded[c] = channel
          BY <1>4, <1>9, <2>1, <2>2, <5>3
        <5>5. Only(requests[k], {"part", "nick"})
          BY <1>2, <1>5, <5>3, OnlyRest
        <5>6. Completes(listed, events[k], channel, present[c])
          BY <1>7, <3>1, <5>2, <5>4, <5>5 DEF PageInv, Completing, Shown, Followed
        <5>7. /\ events[k] \in Seq(Events) /\ listed \in SUBSET Nick
              /\ present[c] \in SUBSET Nick /\ present'[c] \in SUBSET Nick
          BY <1>1, <2>1 DEF PageTypes
        <5>8. events'[k] = Append(events[k], e)
          BY <2>7, <3>1
        <5>9. Completes(listed, Append(events[k], e), channel, present'[c])
          BY <2>5, <2>10, <5>6, <5>7, CompletesMore
        <5>. QED BY <5>2, <5>8, <5>9
      <4>. QED BY <4>6, <4>7
    <3>2. CASE socket = k /\ ~(k \notin held /\ readyState[k] = "open")
      BY <1>6, <3>2 DEF Leading, Completing, Shown, pageVars, Followed
    <3>3. CASE socket # k
      <4>1. socket # 0 => socket \in Sockets
        BY <1>1 DEF PageTypes
      <4>2. UNCHANGED <<socket, channel, listed, held, readyState>>
        BY <1>6 DEF pageVars
      <4>3. socket # 0 =>
              /\ requests'[socket] = requests[socket]
              /\ session'[socket] = session[socket] /\ nick'[socket] = nick[socket]
              /\ \A c \in Channel :
                   nick[socket] \in present'[c] => nick[socket] \in present[c]
        <5>1. socket # 0 => /\ requests'[socket] = requests[socket]
                            /\ session'[socket] = session[socket]
          BY <1>4, <1>5, <3>3, <4>1
        <5>2. socket # 0 => nick'[socket] = nick[socket] /\ nick[socket] # new
          BY <2>1, <2>2, <3>3, <4>1
        <5>3. socket # 0 => \A c \in Channel :
                nick[socket] \in present'[c] => nick[socket] \in present[c]
          BY <2>1, <5>2
        <5>. QED BY <5>1, <5>2, <5>3
      <4>4. socket # 0 =>
              events'[socket] =
                IF socket \in Watching(cs) /\ readyState[socket] = "open"
                THEN Append(events[socket], e) ELSE events[socket]
        BY <2>7, <3>3, <4>1
      <4>5. \A c \in Channel \ cs : present'[c] \subseteq present[c]
        BY <2>1, <2>3 DEF ChannelsOf
      <4>. QED BY <1>4, <2>5, <2>8, <2>10, <4>2, <4>3, <4>4, <4>5, HearsOfIt
    <3>. QED BY <3>1, <3>2, <3>3
  <2>. QED BY <2>8, <2>9, <2>11 DEF PageInv
<1>. QED BY <1>2, <1>8, <1>9, <1>10, <1>11 DEF OnNick

\* The gateway refuses a request.  A join or a new nickname the server might as
\* well have refused; with a PART nothing is claimed of the session any more.
LEMMA SlowDownKept ==
  ASSUME PageInv, NEW k \in Sockets, SlowDown(k)
  PROVE  PageInv'
<1>1. PageTypes
  BY DEF PageInv
<1>2. PICK type \in Talk : Received(k, type)
  BY DEF SlowDown, Talk
<1>3. /\ Head(requests[k]).type = type /\ type \in {"part", "join", "nick"}
      /\ \A j \in Sockets \ {k} : requests'[j] = requests[j]
  BY <1>1, <1>2, RequestIs DEF Talk
<1>4. /\ UNCHANGED <<socket, connected, dialog, nickname, channel, listed>>
      /\ UNCHANGED <<readyState, events, session, wanted, nick, present, founded>>
  BY DEF SlowDown, ircVars
<1>5. CASE type # "part"
  <2>1. held' = held
    BY <1>3, <1>5 DEF SlowDown
  <2>2. Request(k, type)
    BY <1>2, <1>4, <2>1 DEF Request, pageVars
  <2>. QED BY <1>4, <1>5, <2>2, RefusalKept
<1>6. CASE type = "part"
  <2>1. held' = held \cup {k}
    BY <1>3, <1>6 DEF SlowDown
  <2>2. PageTypes' /\ Phases' /\ SocketsInOrder' /\ PageKnows'
    <3>1. session[k] = "in" /\ nick[k] \in Nick
      BY <1>2, TalksWhenIn
    <3>2. held' \in SUBSET Sockets
      BY <1>1, <2>1 DEF PageTypes
    <3>3. /\ nick' \in [Sockets -> Nick \cup {NoNick}]
          /\ present' \in [Channel -> SUBSET Nick]
          /\ founded' \in [Channel -> Name \cup {NoName}]
          /\ events' \in [Sockets -> Seq(Events)]
      BY <1>1, <1>4 DEF PageTypes
    <3>. QED BY <1>2, <1>4, <3>1, <3>2, <3>3, TalkKept
  <2>3. NicksDiffer'
    BY <1>4 DEF PageInv, NicksDiffer
  <2>4. Leading' /\ Completing'
    <3>1. CASE socket = k
      BY <1>4, <2>1, <3>1 DEF Leading, Completing, Shown, Followed
    <3>2. CASE socket # k
      <4>1. socket # 0 => socket \in Sockets \ {k}
        BY <1>1, <3>2 DEF PageTypes
      <4>2. /\ ChannelsOf(nick[socket])' = ChannelsOf(nick[socket])
            /\ Followed' => Followed
            /\ socket # 0 => requests'[socket] = requests[socket]
        BY <1>3, <1>4, <2>1, <4>1 DEF ChannelsOf, Followed
      <4>3. Leading'
        BY <1>4, <4>2 DEF PageInv, Leading, Followed
      <4>4. Completing'
        BY <1>4, <4>2 DEF PageInv, Completing, Shown, Followed
      <4>. QED BY <4>3, <4>4
    <3>. QED BY <3>1, <3>2
  <2>. QED BY <2>2, <2>3, <2>4 DEF PageInv
<1>. QED BY <1>5, <1>6

-----------------------------------------------------------------------------
\* What happens to other sockets leaves the page's channel as it was.
LEMMA ElsewhereKept ==
  ASSUME PageInv, UNCHANGED <<socket, channel, listed, held, present, founded>>,
         socket # 0 => /\ readyState'[socket] = readyState[socket]
                       /\ requests'[socket] = requests[socket]
                       /\ events'[socket] = events[socket]
                       /\ session'[socket] = session[socket]
                       /\ nick'[socket] = nick[socket]
  PROVE  Leading' /\ Completing'
<1>1. socket # 0 => ChannelsOf(nick[socket])' = ChannelsOf(nick[socket])
  BY DEF ChannelsOf
<1>2. Leading'
  BY <1>1 DEF PageInv, Leading, Followed
<1>3. Completing'
  BY DEF PageInv, Completing, Shown, Followed
<1>. QED BY <1>2, <1>3

\* What happens to one socket leaves the phases of the others as they were.
LEMMA OtherPhases ==
  ASSUME Phases, NEW k \in Sockets, Phase(k)',
         \A j \in Sockets \ {k} :
           /\ readyState'[j] = readyState[j] /\ requests'[j] = requests[j]
           /\ events'[j] = events[j] /\ session'[j] = session[j]
           /\ wanted'[j] = wanted[j] /\ nick'[j] = nick[j]
  PROVE  Phases'
<1>1. ASSUME NEW j \in Sockets \ {k} PROVE Phase(j)'
  BY <1>1 DEF Phases, Phase
<1>. QED BY <1>1 DEF Phases

\* A sequence of one element.
LEMMA OneIs ==
  ASSUME NEW S, NEW r \in S
  PROVE  /\ <<>> \in Seq(S) /\ Len(<<>>) = 0 /\ Append(<<>>, r) = <<r>>
         /\ <<r>> \in Seq(S) /\ Len(<<r>>) = 1 /\ <<r>>[1] = r /\ <<r>> # <<>>
OBVIOUS

\* The handshake succeeds.
LEMMA ConnectionKept ==
  ASSUME PageInv, NEW k \in Sockets, Connection(k)
  PROVE  PageInv'
<1>1. PageTypes /\ Phase(k)
  BY DEF PageInv, Phases
<1>2. UNCHANGED <<pageVars, requests, session, wanted, ircVars>>
  BY DEF Connection
<1>3. PICK e : e = [type |-> "hello"]
  OBVIOUS
<1>4. e \in Events
  BY <1>3 DEF Events
<1>5. /\ readyState[k] = "connecting"
      /\ readyState' = [readyState EXCEPT ![k] = "open"]
      /\ events' = [events EXCEPT ![k] = <<e>>]
  BY <1>3 DEF Connection
<1>6. <<e>> \in Seq(Events) /\ Len(<<e>>) = 1 /\ <<e>>[1] = e
  BY <1>4, OneIs
<1>7. PageTypes'
  BY <1>1, <1>2, <1>5, <1>6 DEF PageTypes, pageVars, ircVars
<1>8. session[k] = "none" /\ requests[k] = <<>> /\ k = socket
  BY <1>1, <1>5 DEF Phase, PageInv, SocketsInOrder
<1>9. Phases'
  <2>1. Phase(k)'
    <3>1. events'[k] = <<e>> /\ readyState'[k] = "open"
      BY <1>1, <1>5 DEF PageTypes
    <3>2. Only(events'[k], {"hello"}) /\ Len(events'[k]) <= 1
      BY <1>3, <1>6, <3>1 DEF Only
    <3>. QED BY <1>1, <1>2, <1>8, <3>1, <3>2 DEF Phase, ircVars
  <2>2. \A j \in Sockets \ {k} :
          /\ readyState'[j] = readyState[j] /\ requests'[j] = requests[j]
          /\ events'[j] = events[j] /\ session'[j] = session[j]
          /\ wanted'[j] = wanted[j] /\ nick'[j] = nick[j]
    BY <1>1, <1>2, <1>5 DEF PageTypes, ircVars
  <2>. QED BY <2>1, <2>2, OtherPhases DEF PageInv
<1>10. SocketsInOrder'
  BY <1>1, <1>2, <1>5, <1>8 DEF PageInv, PageTypes, SocketsInOrder, pageVars
<1>11. NicksDiffer' /\ PageKnows'
  BY <1>2 DEF PageInv, NicksDiffer, PageKnows, pageVars, ircVars
<1>12. Leading' /\ Completing'
  BY <1>2, <1>8 DEF Leading, Completing, Shown, pageVars, Followed
<1>. QED BY <1>7, <1>9, <1>10, <1>11, <1>12 DEF PageInv

\* A socket is closed, whoever closed it.
LEMMA OnSocketEndKept ==
  ASSUME PageInv, NEW k \in Sockets, OnSocketEnd(k)
  PROVE  PageInv'
<1>1. PageTypes /\ Phase(k)
  BY DEF PageInv, Phases
<1>2. /\ readyState' = [readyState EXCEPT ![k] = "closed"]
      /\ events' = [events EXCEPT ![k] = <<>>]
      /\ readyState[k] \in {"connecting", "open", "closing"}
      /\ UNCHANGED <<socket, dialog, nickname, channel, listed, held, requests,
                     session, wanted, ircVars>>
  BY DEF OnSocketEnd
<1>3. <<>> \in Seq(Events)
  OBVIOUS
<1>4. PageTypes'
  BY <1>1, <1>2, <1>3 DEF PageTypes, ircVars
<1>5. /\ readyState'[k] = "closed"
      /\ \A j \in Sockets \ {k} :
           readyState'[j] = readyState[j] /\ events'[j] = events[j]
  BY <1>1, <1>2 DEF PageTypes
<1>6. Phases'
  <2>1. Phase(k)'
    BY <1>1, <1>2, <1>5 DEF Phase, ircVars
  <2>. QED BY <1>2, <1>5, <2>1, OtherPhases DEF PageInv, ircVars
<1>7. SocketsInOrder'
  BY <1>1, <1>2, <1>5 DEF PageInv, PageTypes, SocketsInOrder
<1>8. NicksDiffer' /\ PageKnows'
  BY <1>2 DEF PageInv, NicksDiffer, PageKnows, ircVars
<1>9. Leading' /\ Completing'
  <2>1. CASE socket = k
    BY <1>2, <1>5, <2>1 DEF Leading, Completing, Shown, Followed
  <2>2. CASE socket # k
    <3>1. socket # 0 => socket \in Sockets \ {k}
      BY <1>1, <2>2 DEF PageTypes
    <3>. QED BY <1>2, <1>5, <3>1, ElsewhereKept DEF ircVars
  <2>. QED BY <2>1, <2>2
<1>. QED BY <1>4, <1>6, <1>7, <1>8, <1>9 DEF PageInv

\* "connect": the session is for the channel the page shows.
LEMMA OnConnectKept ==
  ASSUME PageInv, NEW k \in Sockets, OnConnect(k)
  PROVE  PageInv'
<1>1. PageTypes /\ Phase(k)
  BY DEF PageInv, Phases
<1>2. PICK r : r = Head(requests[k])
  OBVIOUS
<1>3. /\ Request(k, "connect") /\ Received(k, "connect")
      /\ session' = [session EXCEPT ![k] = "asked"]
      /\ wanted' = [wanted EXCEPT ![k] = [nick |-> r.nick, name |-> r.name]]
      /\ UNCHANGED <<events, ircVars>>
  BY <1>2 DEF OnConnect, Request
<1>4. UNCHANGED <<pageVars, readyState>>
  BY <1>3 DEF Request
<1>5. /\ session[k] # "over" /\ requests[k] \in Seq(Requests) /\ requests[k] # <<>>
      /\ r \in Requests /\ r.type = "connect"
      /\ requests' \in [Sockets -> Seq(Requests)]
      /\ \A j \in Sockets :
           requests'[j] = IF j = k THEN Tail(requests[k]) ELSE requests[j]
  BY <1>1, <1>2, <1>3, RequestIs
<1>6. session[k] = "none"
  <2>1. session[k] # "in"
    <3>1. SUFFICES ASSUME Only(requests[k], Talk) PROVE FALSE
      BY <1>1 DEF Phase
    <3>2. r.type \in Talk
      BY <1>2, <1>5, <3>1, OnlyRest
    <3>. QED BY <1>5, <3>2 DEF Talk
  <2>2. session[k] # "asked"
    BY <1>1, <1>5 DEF Phase
  <2>. QED BY <1>1, <1>5, <2>1, <2>2 DEF PageTypes
<1>7. r.nick \in Nick /\ r.name \in Name
  BY <1>5 DEF Requests
<1>8. r = requests[k][1] /\ 1 \in 1..Len(requests[k]) /\ Tail(requests[k]) = <<>>
  <2>1. Len(requests[k]) <= 1
    BY <1>1, <1>6 DEF Phase
  <2>. QED BY <1>2, <1>5, <2>1
<1>9. PageTypes'
  BY <1>1, <1>3, <1>4, <1>5, <1>7 DEF PageTypes, pageVars, ircVars
<1>10. /\ session'[k] = "asked" /\ wanted'[k] = [nick |-> r.nick, name |-> r.name]
       /\ \A j \in Sockets \ {k} :
            session'[j] = session[j] /\ wanted'[j] = wanted[j]
  BY <1>1, <1>3 DEF PageTypes
<1>11. Phases'
  <2>1. Phase(k)'
    <3>1. readyState[k] = "open" => events[k] = <<>>
      BY <1>1, <1>5, <1>6 DEF Phase
    <3>2. readyState[k] \notin {"none", "connecting"}
      BY <1>1, <1>5 DEF Phase
    <3>3. nick[k] = NoNick
      BY <1>1, <1>6 DEF Phase
    <3>4. wanted'[k].nick \in Nick /\ wanted'[k].name \in Name
      BY <1>7, <1>10
    <3>5. /\ requests'[k] = <<>> /\ nick'[k] = nick[k] /\ events'[k] = events[k]
          /\ readyState'[k] = readyState[k] /\ session'[k] = "asked"
      BY <1>3, <1>4, <1>5, <1>8, <1>10 DEF ircVars
    <3>. QED BY <3>1, <3>2, <3>3, <3>4, <3>5 DEF Phase
  <2>. QED BY <1>3, <1>4, <1>5, <1>10, <2>1, OtherPhases DEF PageInv, ircVars
<1>12. SocketsInOrder' /\ NicksDiffer'
  BY <1>3, <1>4 DEF PageInv, SocketsInOrder, NicksDiffer, pageVars, ircVars
<1>13. PageKnows'
  <2>1. CASE socket = k
    <3>1. r.name = channel /\ dialog
      BY <1>6, <1>8, <2>1 DEF PageInv, PageKnows
    <3>. QED BY <1>4, <1>10, <2>1, <3>1 DEF PageInv, PageKnows, pageVars
  <2>2. CASE socket # k
    <3>1. socket # 0 => socket \in Sockets \ {k}
      BY <1>1, <2>2 DEF PageTypes
    <3>. QED BY <1>4, <1>5, <1>10, <3>1 DEF PageInv, PageKnows, pageVars
  <2>. QED BY <2>1, <2>2
<1>14. Leading' /\ Completing'
  <2>1. CASE socket = k
    BY <1>4, <1>10, <2>1 DEF Leading, Completing, Shown, pageVars, Followed
  <2>2. CASE socket # k
    <3>1. socket # 0 => socket \in Sockets \ {k}
      BY <1>1, <2>2 DEF PageTypes
    <3>. QED BY <1>3, <1>4, <1>5, <1>10, <3>1, ElsewhereKept DEF pageVars, ircVars
  <2>. QED BY <2>1, <2>2
<1>. QED BY <1>9, <1>11, <1>12, <1>13, <1>14 DEF PageInv

\* 001: the new nickname is in no channel yet, and the join is on its way.
LEMMA WelcomeKept ==
  ASSUME PageInv, NEW k \in Sockets, Welcome(k)
  PROVE  PageInv'
<1>1. PageTypes /\ Phase(k)
  BY DEF PageInv, Phases
<1>2. PICK n \in Nick : n = wanted[k].nick
  BY <1>1 DEF Phase, Welcome
<1>3. PICK name \in Name : name = wanted[k].name
  BY <1>1 DEF Phase, Welcome
<1>4. PICK e : e = [type |-> "ready"]
  OBVIOUS
<1>5. e \in Events /\ e.type \in News
  BY <1>4 DEF Events, News
<1>6. PICK r : r = [type |-> "join", name |-> name]
  OBVIOUS
<1>7. r \in Requests /\ r.type \in Talk
  BY <1>6 DEF Requests, Talk
<1>8. /\ session[k] = "asked" /\ n \notin InUse
      /\ wanted' = [wanted EXCEPT ![k] = Nothing]
      /\ session' = [session EXCEPT ![k] = "in"]
      /\ nick' = [nick EXCEPT ![k] = n]
      /\ events' = Told({k}, e)
      /\ requests' = [requests EXCEPT ![k] = Append(@, r)]
      /\ UNCHANGED <<pageVars, readyState, present, founded>>
  BY <1>2, <1>3, <1>4, <1>6 DEF Welcome
<1>9. requests[k] = <<>> /\ (readyState[k] = "open" => events[k] = <<>>)
  BY <1>1, <1>8 DEF Phase
<1>10. /\ events' \in [Sockets -> Seq(Events)]
       /\ \A j \in Sockets :
            events'[j] = IF j \in {k} /\ readyState[j] = "open"
                         THEN Append(events[j], e) ELSE events[j]
  BY <1>1, <1>5, <1>8, ToldIs
<1>11. PICK q \in Seq(Requests) : q = Append(requests[k], r) /\ Only(q, Talk)
  <2>1. requests[k] \in Seq(Requests) /\ Only(requests[k], Talk)
    BY <1>1, <1>9 DEF PageTypes, Only
  <2>. QED BY <1>7, <2>1, Appended, OnlyMore
<1>12. /\ requests' \in [Sockets -> Seq(Requests)] /\ requests'[k] = q
       /\ session'[k] = "in" /\ nick'[k] = n
       /\ \A j \in Sockets \ {k} :
            /\ requests'[j] = requests[j] /\ session'[j] = session[j]
            /\ wanted'[j] = wanted[j] /\ nick'[j] = nick[j] /\ events'[j] = events[j]
  BY <1>1, <1>8, <1>10, <1>11 DEF PageTypes
<1>13. PageTypes'
  <2>1. Nothing \in [nick : Nick \cup {NoNick}, name : Name \cup {NoName}]
    BY DEF Nothing
  <2>. QED BY <1>1, <1>8, <1>10, <1>12, <2>1 DEF PageTypes, pageVars
<1>14. Phases'
  <2>1. Phase(k)'
    <3>1. readyState[k] = "open" => Only(events'[k], News)
      <4>1. Only(<<>>, News)
        BY DEF Only
      <4>2. events[k] = <<>> => Only(events'[k], News)
        BY <1>1, <1>5, <1>8, <4>1, ToldNews
      <4>. QED BY <1>9, <4>2
    <3>2. readyState[k] \notin {"none", "connecting"}
      BY <1>1, <1>8 DEF Phase
    <3>. QED BY <1>8, <1>11, <1>12, <3>1, <3>2 DEF Phase
  <2>. QED BY <1>8, <1>12, <2>1, OtherPhases DEF PageInv
<1>15. SocketsInOrder'
  BY <1>8 DEF PageInv, SocketsInOrder, pageVars
<1>16. /\ \A c \in Channel : n \notin present[c]
       /\ \A j \in Sockets : nick[j] # n
  BY <1>1, <1>8, Unused
<1>17. NicksDiffer'
  BY <1>12, <1>16 DEF PageInv, NicksDiffer
<1>18. PageKnows'
  <2>1. CASE socket = k
    BY <1>8, <1>12, <2>1 DEF PageInv, PageKnows, pageVars
  <2>2. CASE socket # k
    <3>1. socket # 0 => socket \in Sockets \ {k}
      BY <1>1, <2>2 DEF PageTypes
    <3>. QED BY <1>8, <1>12, <3>1 DEF PageInv, PageKnows, pageVars
  <2>. QED BY <2>1, <2>2
<1>19. Leading' /\ Completing'
  <2>1. CASE socket = k
    <3>1. ChannelsOf(nick[k])' = {}
      BY <1>8, <1>12, <1>16 DEF ChannelsOf
    <3>2. name = channel /\ channel \in Name /\ channel.chan \in Channel
      BY <1>3, <1>8, <2>1 DEF PageInv, PageKnows, Name
    <3>3. Leads({}, requests[k], {})
      BY <1>9, LeadsNowhere
    <3>4. Allowed({}, r) /\ Go({}, r) = {channel.chan}
      BY <1>6, <3>2 DEF Allowed, Go
    <3>5. Leads({}, q, {channel.chan})
      <4>1. requests[k] \in Seq(Requests)
        BY <1>1 DEF PageTypes
      <4>2. Leads({}, Append(requests[k], r), Go({}, r))
        BY <1>7, <3>3, <3>4, <4>1, LeadsMore
      <4>. QED BY <1>11, <3>4, <4>2
    <3>6. Leading'
      BY <1>8, <1>12, <2>1, <3>1, <3>5 DEF Leading, pageVars, Followed
    <3>7. ~Shown'
      BY <1>8, <2>1, <3>1, <3>2 DEF Shown, ChannelsOf, pageVars, Followed
    <3>. QED BY <3>6, <3>7 DEF Completing
  <2>2. CASE socket # k
    <3>1. socket # 0 => socket \in Sockets \ {k}
      BY <1>1, <2>2 DEF PageTypes
    <3>. QED BY <1>8, <1>12, <3>1, ElsewhereKept DEF pageVars
  <2>. QED BY <2>1, <2>2
<1>. QED BY <1>13, <1>14, <1>15, <1>17, <1>18, <1>19 DEF PageInv

\* The session is over, and its user is in no channel any more.
LEMMA OnCloseKept ==
  ASSUME PageInv, NEW k \in Sockets, OnClose(k)
  PROVE  PageInv'
<1>1. PageTypes /\ Phase(k)
  BY DEF PageInv, Phases
<1>2. PICK e : e = [type |-> "disconnected"]
  OBVIOUS
<1>3. e \in Events /\ e.type \in News
  BY <1>2 DEF Events, News
<1>4. PICK n : n = nick[k] /\ Leave(n, Channel)
  BY DEF OnClose
<1>5. /\ \/ readyState[k] = "open" /\ session[k] \in {"asked", "in"}
         \/ readyState[k] \in {"closing", "closed"}
      /\ wanted' = [wanted EXCEPT ![k] = Nothing]
      /\ session' = [session EXCEPT ![k] = "over"]
      /\ requests' = [requests EXCEPT ![k] = <<>>]
      /\ events' = IF readyState[k] = "open" THEN Told({k}, e) ELSE events
      /\ nick' = [nick EXCEPT ![k] = NoNick]
      /\ UNCHANGED <<pageVars, readyState>>
  BY <1>2 DEF OnClose
<1>6. /\ events' \in [Sockets -> Seq(Events)]
      /\ \A j \in Sockets \ {k} : events'[j] = events[j]
      /\ readyState[k] = "open" => events'[k] = Told({k}, e)[k]
  <2>1. CASE readyState[k] = "open"
    <3>1. events' = Told({k}, e)
      BY <1>5, <2>1
    <3>2. /\ Told({k}, e) \in [Sockets -> Seq(Events)]
          /\ \A j \in Sockets :
               Told({k}, e)[j] = IF j \in {k} /\ readyState[j] = "open"
                                 THEN Append(events[j], e) ELSE events[j]
      BY <1>1, <1>3, ToldIs
    <3>. QED BY <3>1, <3>2
  <2>2. CASE readyState[k] # "open"
    BY <1>1, <1>5, <2>2 DEF PageTypes
  <2>. QED BY <2>1, <2>2
<1>7. /\ present' \in [Channel -> SUBSET Nick]
      /\ founded' \in [Channel -> Name \cup {NoName}]
      /\ \A c \in Channel :
           /\ present'[c] = IF c \in Channel THEN present[c] \ {n} ELSE present[c]
           /\ founded'[c] = IF present'[c] = {} THEN NoName ELSE founded[c]
  BY <1>1, <1>4, LeaveIs
<1>8. /\ session'[k] = "over" /\ requests'[k] = <<>> /\ nick'[k] = NoNick
      /\ \A j \in Sockets \ {k} :
           /\ requests'[j] = requests[j] /\ session'[j] = session[j]
           /\ wanted'[j] = wanted[j] /\ nick'[j] = nick[j]
  BY <1>1, <1>5 DEF PageTypes
<1>9. PageTypes'
  <2>1. Nothing \in [nick : Nick \cup {NoNick}, name : Name \cup {NoName}]
    BY DEF Nothing
  <2>2. <<>> \in Seq(Requests)
    OBVIOUS
  <2>. QED BY <1>1, <1>5, <1>6, <1>7, <2>1, <2>2 DEF PageTypes, pageVars
<1>10. Phases'
  <2>1. Phase(k)'
    <3>1. readyState[k] = "open" => Only(events'[k], News)
      <4>1. Only(<<>>, News)
        BY DEF Only
      <4>2. readyState[k] = "open" => Only(events[k], News)
        BY <1>1, <1>5, <4>1 DEF Phase
      <4>3. Only(events[k], News) => Only(Told({k}, e)[k], News)
        BY <1>1, <1>3, ToldNews
      <4>. QED BY <1>6, <4>2, <4>3
    <3>. QED BY <1>5, <1>8, <3>1 DEF Phase
  <2>. QED BY <1>5, <1>6, <1>8, <2>1, OtherPhases DEF PageInv
<1>11. SocketsInOrder'
  BY <1>5 DEF PageInv, SocketsInOrder, pageVars
<1>12. NicksDiffer'
  BY <1>8 DEF PageInv, NicksDiffer
<1>13. PageKnows'
  <2>1. CASE socket = k
    BY <1>5, <1>8, <2>1 DEF PageInv, PageKnows, pageVars
  <2>2. CASE socket # k
    <3>1. socket # 0 => socket \in Sockets \ {k}
      BY <1>1, <2>2 DEF PageTypes
    <3>. QED BY <1>5, <1>8, <3>1 DEF PageInv, PageKnows, pageVars
  <2>. QED BY <2>1, <2>2
<1>14. Leading' /\ Completing'
  <2>1. CASE socket = k
    BY <1>5, <1>8, <2>1 DEF Leading, Completing, Shown, pageVars, Followed
  <2>2. CASE socket # k
    <3>1. socket # 0 => socket \in Sockets \ {k}
      BY <1>1, <2>2 DEF PageTypes
    <3>2. PICK cs \in SUBSET Channel : cs = {}
      OBVIOUS
    <3>3. socket \notin Watching(cs)
      BY <3>2 DEF Watching
    <3>4. UNCHANGED <<socket, channel, listed, held, readyState>>
      BY <1>5 DEF pageVars
    <3>5. socket # 0 =>
            /\ requests'[socket] = requests[socket]
            /\ session'[socket] = session[socket] /\ nick'[socket] = nick[socket]
            /\ \A c \in Channel :
                 nick[socket] \in present'[c] => nick[socket] \in present[c]
      BY <1>7, <1>8, <3>1
    <3>6. \A c \in Channel :
            present[c] # {} /\ founded'[c] # NoName => founded'[c] = founded[c]
      BY <1>7
    <3>7. socket # 0 =>
            events'[socket] =
              IF socket \in Watching(cs) /\ readyState[socket] = "open"
              THEN Append(events[socket], e) ELSE events[socket]
      BY <1>6, <3>1, <3>3
    <3>8. \A c \in cs : present'[c] \subseteq After(present[c], e, channel)
      BY <3>2
    <3>9. \A c \in Channel \ cs : present'[c] \subseteq present[c]
      BY <1>7
    <3>. QED BY <1>3, <1>9, <3>4, <3>5, <3>6, <3>7, <3>8, <3>9, HearsOfIt
  <2>. QED BY <2>1, <2>2
<1>. QED BY <1>9, <1>10, <1>11, <1>12, <1>13, <1>14 DEF PageInv

-----------------------------------------------------------------------------
(***************************************************************************)
(* What the page does.                                                     *)
(***************************************************************************)

\* A message: the list is the one that was expected after it.
LEMMA OnGatewayMessageKept ==
  ASSUME PageInv, NEW k \in Sockets, OnGatewayMessage(k)
  PROVE  PageInv'
<1>1. PageTypes /\ Phase(k)
  BY DEF PageInv, Phases
<1>2. readyState[k] = "open" /\ events[k] # <<>> /\ events[k] \in Seq(Events)
  BY <1>1 DEF OnGatewayMessage, PageTypes
<1>3. PICK e \in Events : e = Head(events[k])
  BY <1>2, Behead
<1>4. k = socket /\ k # 0 /\ nickname \in Nick /\ channel \in Name
  BY <1>2 DEF PageInv, SocketsInOrder, PageKnows
<1>5. PICK r : r = [type |-> "connect", nick |-> nickname, name |-> channel]
  OBVIOUS
<1>6. r \in Requests /\ r.type = "connect" /\ r.name = channel
  BY <1>4, <1>5 DEF Requests
<1>7. /\ requests' = IF e.type # "hello" THEN requests
                     ELSE [requests EXCEPT ![k] = Append(@, r)]
      /\ dialog' = (dialog /\ e.type # "ready")
      /\ nickname' = IF e.type = "nick" /\ e.nick = nickname THEN e.new ELSE nickname
      /\ events' = [events EXCEPT ![k] = Tail(@)]
      /\ UNCHANGED <<socket, channel, held, readyState, session, wanted, ircVars>>
  BY <1>3, <1>5 DEF OnGatewayMessage
<1>8. listed' = After(listed, e, channel)
  BY <1>3 DEF OnGatewayMessage, After, Renamed
<1>9. listed' \in SUBSET Nick
  BY <1>1, <1>8, AfterType DEF PageTypes
<1>10. nickname' \in Nick
  BY <1>4, <1>7 DEF Events
<1>11. Tail(events[k]) \in Seq(Events) /\ events'[k] = Tail(events[k])
  BY <1>1, <1>2, <1>7, Behead DEF PageTypes
<1>12. \A j \in Sockets \ {k} : events'[j] = events[j]
  BY <1>1, <1>7 DEF PageTypes
<1>13. requests[k] \in Seq(Requests) /\ Append(requests[k], r) \in Seq(Requests)
  BY <1>1, <1>6, Appended DEF PageTypes
<1>14. PageTypes'
  BY <1>1, <1>7, <1>9, <1>10, <1>11, <1>13 DEF PageTypes, ircVars
<1>15. /\ e.type = "hello" => requests'[k] = Append(requests[k], r)
       /\ e.type # "hello" => requests'[k] = requests[k]
       /\ \A j \in Sockets \ {k} : requests'[j] = requests[j]
  BY <1>1, <1>7 DEF PageTypes
<1>16. session[k] \in {"none", "in", "over"}
  BY <1>1, <1>2 DEF Phase, PageTypes
<1>17. session[k] = "none" => /\ e.type = "hello" /\ requests[k] = <<>>
                              /\ Tail(events[k]) = <<>>
  <2>1. SUFFICES ASSUME session[k] = "none"
                 PROVE  /\ e.type = "hello" /\ requests[k] = <<>>
                        /\ Tail(events[k]) = <<>>
    OBVIOUS
  <2>2. Len(events[k]) <= 1 /\ Only(events[k], {"hello"}) /\ requests[k] = <<>>
    BY <1>1, <1>2, <2>1 DEF Phase
  <2>3. e.type \in {"hello"}
    BY <1>2, <1>3, <2>2, OnlyRest
  <2>. QED BY <1>2, <2>2, <2>3
<1>18. session[k] # "none" => /\ e.type # "hello" /\ Only(Tail(events[k]), News)
  <2>1. SUFFICES ASSUME session[k] # "none"
                 PROVE  e.type # "hello" /\ Only(Tail(events[k]), News)
    OBVIOUS
  <2>2. Only(events[k], News)
    BY <1>1, <1>2, <1>16, <2>1 DEF Phase
  <2>3. e.type \in News /\ Only(Tail(events[k]), News)
    BY <1>2, <1>3, <2>2, OnlyRest
  <2>. QED BY <2>3 DEF News
<1>19. Phases'
  <2>1. Phase(k)'
    <3>1. CASE session[k] = "none"
      <4>1. PICK q \in Seq(Requests) : q = Append(requests[k], r)
        BY <1>13
      <4>2. Len(q) <= 1 /\ Only(q, {"connect"})
        <5>1. Only(requests[k], {"connect"}) /\ Len(requests[k]) = 0
          BY <1>17, <3>1 DEF Only
        <5>. QED BY <1>6, <1>13, <4>1, <5>1, Appended, OnlyMore
      <4>3. requests'[k] = q /\ events'[k] = <<>>
        BY <1>11, <1>15, <1>17, <3>1, <4>1
      <4>4. Len(<<>>) = 0 /\ Only(<<>>, {"hello"})
        BY DEF Only
      <4>. QED BY <1>1, <1>2, <1>7, <3>1, <4>2, <4>3, <4>4 DEF Phase, ircVars
    <3>2. CASE session[k] # "none"
      <4>1. Only(events'[k], News) /\ requests'[k] = requests[k]
        BY <1>11, <1>15, <1>18, <3>2
      <4>. QED BY <1>1, <1>2, <1>7, <1>16, <3>2, <4>1 DEF Phase, ircVars
    <3>. QED BY <3>1, <3>2
  <2>. QED BY <1>7, <1>12, <1>15, <2>1, OtherPhases DEF PageInv, ircVars
<1>20. SocketsInOrder' /\ NicksDiffer'
  BY <1>7 DEF PageInv, SocketsInOrder, NicksDiffer, ircVars
<1>21. PageKnows'
  <2>1. CASE session[k] = "none"
    <3>1. PICK q \in Seq(Requests) : q = Append(requests[k], r)
      BY <1>13
    <3>2. Len(q) = 1 /\ q[1] = r
      <4>1. Len(requests[k]) = 0
        BY <1>17, <2>1
      <4>. QED BY <1>6, <1>13, <3>1, <4>1, Appended
    <3>3. requests'[k] = q
      BY <1>15, <1>17, <2>1, <3>1
    <3>4. \A i \in 1..Len(requests'[k]) : requests'[k][i].name = channel
      <4>1. \A i \in 1..1 : i = 1
        OBVIOUS
      <4>. QED BY <1>6, <3>2, <3>3, <4>1
    <3>5. dialog'
      BY <1>4, <1>7, <1>17, <2>1 DEF PageInv, PageKnows
    <3>. QED BY <1>4, <1>7, <1>10, <2>1, <3>4, <3>5 DEF PageKnows
  <2>2. CASE session[k] # "none"
    BY <1>4, <1>7, <1>10, <1>16, <2>2 DEF PageKnows
  <2>. QED BY <2>1, <2>2
<1>22. CASE session[k] = "none" \/ session[k] = "over"
  BY <1>4, <1>7, <1>14, <1>19, <1>20, <1>21, <1>22
  DEF PageInv, Leading, Completing, Shown, Followed
<1>23. CASE session[k] = "in"
  <2>1. requests'[k] = requests[k]
    BY <1>15, <1>18, <1>23
  <2>2. Leading'
    BY <1>4, <1>7, <2>1 DEF PageInv, Leading, ChannelsOf, ircVars, Followed
  <2>3. Completing'
    <3>1. SUFFICES ASSUME Shown'
                   PROVE  Completes(listed', events'[k], channel, present[channel.chan])
      BY <1>4, <1>7 DEF Completing, ircVars
    <3>2. Shown
      BY <1>4, <1>7, <2>1, <3>1 DEF Shown, ircVars, Followed
    <3>3. Completes(listed, events[k], channel, present[channel.chan])
      BY <1>4, <3>2 DEF PageInv, Completing
    <3>4. listed \in SUBSET Nick
      BY <1>1 DEF PageTypes
    <3>5. Completes(After(listed, Head(events[k]), channel), Tail(events[k]), channel,
                    present[channel.chan])
      BY <1>2, <3>3, <3>4, CompletesRest
    <3>. QED BY <1>3, <1>8, <1>11, <3>5
  <2>. QED BY <1>14, <1>19, <1>20, <1>21, <2>2, <2>3 DEF PageInv
<1>. QED BY <1>16, <1>22, <1>23

\* The dialog: the session of the new socket is still to come.
LEMMA SubmitKept ==
  ASSUME PageInv, NEW n \in Nick, NEW name \in Name, Submit(n, name)
  PROVE  PageInv'
<1>1. PageTypes
  BY DEF PageInv
<1>2. PICK s \in Sockets : s = socket + 1
  BY DEF Submit
<1>3. /\ socket' = s /\ nickname' = n /\ channel' = name /\ listed' = {} /\ dialog'
      /\ readyState' = [k \in Sockets |->
                          IF k = s THEN "connecting"
                          ELSE IF k = socket /\ readyState[k] \in {"connecting", "open"}
                          THEN "closing" ELSE readyState[k]]
      /\ UNCHANGED <<connected, dialog, held, requests, events, session, wanted,
                     ircVars>>
  BY <1>2 DEF Submit, Show
<1>4. PageTypes'
  BY <1>1, <1>3 DEF PageTypes, ircVars
<1>5. s > socket /\ s # 0 /\ ~(s > s) /\ \A k \in Sockets : k > s => k > socket
  <2>1. socket \in Nat /\ Sockets \subseteq Nat
    BY <1>1 DEF PageTypes
  <2>. QED BY <1>2, <2>1
<1>6. readyState[s] = "none"
  BY <1>5 DEF PageInv, SocketsInOrder
<1>7. session[s] = "none" /\ requests[s] = <<>>
  BY <1>6 DEF PageInv, Phases, Phase
<1>8. Phases'
  <2>1. ASSUME NEW k \in Sockets PROVE Phase(k)'
    <3>1. Phase(k)
      BY DEF PageInv, Phases
    <3>2. CASE k = s
      <4>1. readyState'[k] = "connecting"
        BY <1>3, <3>2
      <4>. QED BY <1>3, <1>7, <3>1, <3>2, <4>1 DEF Phase, ircVars
    <3>3. CASE k # s
      <4>1. readyState'[k] = readyState[k] \/ readyState'[k] = "closing"
        BY <1>3, <3>3
      <4>. QED BY <1>3, <3>1, <4>1 DEF Phase, ircVars
    <3>. QED BY <3>2, <3>3
  <2>. QED BY <2>1 DEF Phases
<1>9. SocketsInOrder'
  <2>1. ASSUME NEW k \in Sockets
        PROVE  /\ readyState'[k] \in {"connecting", "open"} => k = s
               /\ k > s => readyState'[k] = "none"
    <3>1. CASE k = s
      BY <1>5, <3>1
    <3>2. CASE k # s /\ k = socket
      BY <1>1, <1>3, <1>5, <3>2 DEF PageTypes
    <3>3. CASE k # s /\ k # socket
      BY <1>3, <1>5, <3>3 DEF PageInv, SocketsInOrder
    <3>. QED BY <3>1, <3>2, <3>3
  <2>. QED BY <1>3, <2>1 DEF SocketsInOrder
<1>10. NicksDiffer'
  BY <1>3 DEF PageInv, NicksDiffer, ircVars
<1>11. PageKnows'
  <2>1. Len(<<>>) = 0
    OBVIOUS
  <2>. QED BY <1>3, <1>5, <1>7, <2>1 DEF PageKnows
<1>12. Leading' /\ Completing'
  BY <1>3, <1>7 DEF Leading, Completing, Shown, Followed
<1>. QED BY <1>4, <1>8, <1>9, <1>10, <1>11, <1>12 DEF PageInv

\* A sequence with two more elements.
LEMMA TwoMore ==
  ASSUME NEW S, NEW q \in Seq(S), NEW a \in S, NEW b \in S
  PROVE  q \o <<a, b>> = Append(Append(q, a), b) /\ q \o <<a>> = Append(q, a)
OBVIOUS

\* What the page asks of a session is heard while the session is in.
LEMMA AskingKept ==
  ASSUME PageInv, ~dialog, socket \in Sockets,
         UNCHANGED <<socket, dialog, nickname, held, readyState, events, session,
                     wanted, ircVars>>,
         channel' \in Name, listed' \in SUBSET Nick,
         requests' \in [Sockets -> Seq(Requests)],
         \A j \in Sockets \ {socket} : requests'[j] = requests[j],
         Only(requests[socket], Talk) => Only(requests'[socket], Talk),
         readyState[socket] # "open" => requests'[socket] = requests[socket]
  PROVE  PageTypes' /\ Phases' /\ SocketsInOrder' /\ NicksDiffer' /\ PageKnows'
<1>1. PageTypes /\ Phase(socket) /\ socket # 0
  BY DEF PageInv, Phases
<1>2. PageTypes'
  BY <1>1 DEF PageTypes, ircVars
<1>3. session[socket] = "in" \/ session[socket] = "over"
  BY <1>1 DEF PageInv, PageKnows, PageTypes
<1>4. Phases'
  <2>1. Phase(socket)'
    <3>1. readyState[socket] \in {"none", "connecting"} => FALSE
      BY <1>1, <1>3 DEF Phase
    <3>. QED BY <1>1, <1>3, <3>1 DEF Phase, ircVars
  <2>2. PICK k \in Sockets : k = socket
    OBVIOUS
  <2>3. Phase(k)'
    BY <2>1, <2>2
  <2>4. \A j \in Sockets \ {k} :
          /\ readyState'[j] = readyState[j] /\ requests'[j] = requests[j]
          /\ events'[j] = events[j] /\ session'[j] = session[j]
          /\ wanted'[j] = wanted[j] /\ nick'[j] = nick[j]
    BY <2>2 DEF ircVars
  <2>. QED BY <2>3, <2>4, OtherPhases DEF PageInv
<1>5. SocketsInOrder' /\ NicksDiffer'
  BY DEF PageInv, SocketsInOrder, NicksDiffer, ircVars
<1>6. PageKnows'
  BY <1>1, <1>3 DEF PageInv, PageKnows
<1>. QED BY <1>2, <1>4, <1>5, <1>6

\* Another channel: the session leaves the one it is in and joins the other.
LEMMA ChangeChannelKept ==
  ASSUME PageInv, NEW name \in Name, ChangeChannel(name)
  PROVE  PageInv'
<1>1. PageTypes
  BY DEF PageInv
<1>2. PICK k \in Sockets : k = socket
  BY DEF ChangeChannel
<1>3. k # 0 /\ ~dialog /\ channel \in Name
  BY <1>2 DEF ChangeChannel, PageInv, PageKnows
<1>4. PICK a : a = [type |-> "part", name |-> channel]
  OBVIOUS
<1>5. PICK b : b = [type |-> "join", name |-> name]
  OBVIOUS
<1>6. a \in Requests /\ b \in Requests /\ a.type \in Talk /\ b.type \in Talk
  BY <1>3, <1>4, <1>5 DEF Requests, Talk
<1>7. requests[k] \in Seq(Requests)
  BY <1>1 DEF PageTypes
<1>8. PICK q1 \in Seq(Requests) : q1 = Append(requests[k], a)
  BY <1>6, <1>7, Appended
<1>9. PICK q2 \in Seq(Requests) : q2 = Append(q1, b)
  BY <1>6, Appended
<1>10. requests[k] \o <<a, b>> = q2
  BY <1>6, <1>7, <1>8, <1>9, TwoMore
<1>11. requests' = IF readyState[k] = "open" THEN [requests EXCEPT ![k] = q2]
                   ELSE requests
  BY <1>1, <1>2, <1>4, <1>5, <1>10 DEF ChangeChannel, Send, PageTypes
<1>12. /\ channel' = name /\ listed' = {}
       /\ UNCHANGED <<socket, dialog, nickname, held, readyState, events, session,
                      wanted, ircVars>>
  BY DEF ChangeChannel, Show
<1>13. /\ requests' \in [Sockets -> Seq(Requests)]
       /\ \A j \in Sockets \ {k} : requests'[j] = requests[j]
       /\ readyState[k] = "open" => requests'[k] = q2
       /\ readyState[k] # "open" => requests'[k] = requests[k]
  BY <1>1, <1>11 DEF PageTypes
<1>14. Only(requests[k], Talk) => Only(q2, Talk)
  <2>1. Only(requests[k], Talk) => Only(q1, Talk)
    BY <1>6, <1>7, <1>8, OnlyMore
  <2>2. Only(q1, Talk) => Only(q2, Talk)
    BY <1>6, <1>9, OnlyMore
  <2>. QED BY <2>1, <2>2
<1>15. PageTypes' /\ Phases' /\ SocketsInOrder' /\ NicksDiffer' /\ PageKnows'
  <2>1. Only(requests[socket], Talk) => Only(requests'[socket], Talk)
    BY <1>2, <1>13, <1>14
  <2>2. channel' \in Name /\ listed' \in SUBSET Nick /\ socket \in Sockets
    BY <1>2, <1>12
  <2>. QED BY <1>2, <1>3, <1>12, <1>13, <2>1, <2>2, AskingKept
<1>16. CASE k \notin held /\ session[k] = "in" /\ readyState[k] = "open"
  <2>1. PICK here : here = ChannelsOf(nick[k])
    OBVIOUS
  <2>2. Leads(here, requests[k], {channel.chan})
    BY <1>2, <1>3, <1>16, <2>1 DEF PageInv, Leading, Followed
  <2>3. /\ Allowed({channel.chan}, a) /\ Go({channel.chan}, a) = {}
        /\ Allowed({}, b) /\ Go({}, b) = {name.chan}
    BY <1>4, <1>5 DEF Allowed, Go
  <2>4. Leads(here, q1, {})
    <3>1. Leads(here, Append(requests[k], a), Go({channel.chan}, a))
      BY <1>6, <1>7, <2>2, <2>3, LeadsMore
    <3>. QED BY <1>8, <2>3, <3>1
  <2>5. Leads(here, q2, {name.chan})
    <3>1. Leads(here, Append(q1, b), Go({}, b))
      BY <1>6, <2>3, <2>4, LeadsMore
    <3>. QED BY <1>9, <2>3, <3>1
  <2>6. ChannelsOf(nick[k])' = here
    BY <1>12, <2>1 DEF ChannelsOf, ircVars
  <2>7. requests'[k] = q2
    BY <1>13, <1>16
  <2>8. Leading'
    BY <1>2, <1>12, <2>5, <2>6, <2>7 DEF Leading, Followed
  <2>9. ~Only(q2, {"part", "nick"})
    <3>1. b.type \notin {"part", "nick"}
      BY <1>5
    <3>. QED BY <1>6, <1>9, <3>1, OnlyMore
  <2>10. ~Shown'
    BY <1>2, <1>12, <2>7, <2>9 DEF Shown, Followed
  <2>. QED BY <1>15, <2>8, <2>10 DEF PageInv, Completing
<1>17. CASE ~(k \notin held /\ session[k] = "in" /\ readyState[k] = "open")
  BY <1>2, <1>12, <1>15, <1>17 DEF PageInv, Leading, Completing, Shown, Followed
<1>. QED BY <1>16, <1>17

\* Another nickname leads nowhere else.
LEMMA ChangeNickKept ==
  ASSUME PageInv, NEW n \in Nick, ChangeNick(n)
  PROVE  PageInv'
<1>1. PageTypes
  BY DEF PageInv
<1>2. PICK k \in Sockets : k = socket
  BY DEF ChangeNick
<1>3. k # 0 /\ ~dialog /\ channel \in Name
  BY <1>2 DEF ChangeNick, PageInv, PageKnows
<1>4. PICK a : a = [type |-> "nick", nick |-> n]
  OBVIOUS
<1>5. a \in Requests /\ a.type \in Talk /\ a.type \in {"part", "nick"}
  BY <1>4 DEF Requests, Talk
<1>6. requests[k] \in Seq(Requests)
  BY <1>1 DEF PageTypes
<1>7. PICK q \in Seq(Requests) : q = Append(requests[k], a)
  BY <1>5, <1>6, Appended
<1>8. requests[k] \o <<a>> = q
  BY <1>5, <1>6, <1>7, TwoMore
<1>9. requests' = IF readyState[k] = "open" THEN [requests EXCEPT ![k] = q]
                  ELSE requests
  BY <1>1, <1>2, <1>4, <1>8 DEF ChangeNick, Send, PageTypes
<1>10. UNCHANGED <<socket, dialog, nickname, channel, listed, held, readyState,
                   events, session, wanted, ircVars>>
  BY DEF ChangeNick, pageVars
<1>11. /\ requests' \in [Sockets -> Seq(Requests)]
       /\ \A j \in Sockets \ {k} : requests'[j] = requests[j]
       /\ readyState[k] = "open" => requests'[k] = q
       /\ readyState[k] # "open" => requests'[k] = requests[k]
  BY <1>1, <1>9 DEF PageTypes
<1>12. /\ Only(requests[k], Talk) => Only(q, Talk)
       /\ Only(q, {"part", "nick"}) => Only(requests[k], {"part", "nick"})
  BY <1>5, <1>6, <1>7, OnlyMore
<1>13. PageTypes' /\ Phases' /\ SocketsInOrder' /\ NicksDiffer' /\ PageKnows'
  <2>1. Only(requests[socket], Talk) => Only(requests'[socket], Talk)
    BY <1>2, <1>11, <1>12
  <2>2. channel' \in Name /\ listed' \in SUBSET Nick /\ socket \in Sockets
    BY <1>1, <1>2, <1>3, <1>10 DEF PageTypes
  <2>. QED BY <1>2, <1>3, <1>10, <1>11, <2>1, <2>2, AskingKept
<1>14. CASE k \notin held /\ session[k] = "in" /\ readyState[k] = "open"
  <2>1. PICK here : here = ChannelsOf(nick[k])
    OBVIOUS
  <2>2. Leads(here, requests[k], {channel.chan})
    BY <1>2, <1>3, <1>14, <2>1 DEF PageInv, Leading, Followed
  <2>3. Allowed({channel.chan}, a) /\ Go({channel.chan}, a) = {channel.chan}
    BY <1>4 DEF Allowed, Go
  <2>4. Leads(here, q, {channel.chan})
    <3>1. Leads(here, Append(requests[k], a), Go({channel.chan}, a))
      BY <1>5, <1>6, <2>2, <2>3, LeadsMore
    <3>. QED BY <1>7, <2>3, <3>1
  <2>5. ChannelsOf(nick[k])' = here
    BY <1>10, <2>1 DEF ChannelsOf, ircVars
  <2>6. requests'[k] = q
    BY <1>11, <1>14
  <2>7. Leading'
    BY <1>2, <1>10, <2>4, <2>5, <2>6 DEF Leading, Followed
  <2>8. Shown' => Shown
    BY <1>2, <1>10, <1>12, <2>6 DEF Shown, ircVars, Followed
  <2>9. Completing'
    BY <1>10, <2>8 DEF PageInv, Completing, ircVars
  <2>. QED BY <1>13, <2>7, <2>9 DEF PageInv
<1>15. CASE ~(k \notin held /\ session[k] = "in" /\ readyState[k] = "open")
  BY <1>2, <1>10, <1>13, <1>15 DEF PageInv, Leading, Completing, Shown, Followed
<1>. QED BY <1>14, <1>15

-----------------------------------------------------------------------------
(***************************************************************************)
(* The theorem.                                                            *)
(***************************************************************************)

\* The page is loaded, and nobody is connected.
LEMMA PageInvStarts == PageInit => PageInv
<1>. SUFFICES ASSUME PageInit PROVE PageInv
  OBVIOUS
<1>1. PageTypes
  <2>1. Nothing \in [nick : Nick \cup {NoNick}, name : Name \cup {NoName}]
    BY DEF Nothing
  <2>2. <<>> \in Seq(Requests) /\ <<>> \in Seq(Events)
    OBVIOUS
  <2>. QED BY <2>1, <2>2 DEF PageInit, PageTypes
<1>2. Phases
  <2>1. Len(<<>>) = 0 /\ Only(<<>>, {"connect"})
    BY DEF Only
  <2>2. \A k \in Sockets :
          /\ session[k] = "none" /\ nick[k] = NoNick /\ requests[k] = <<>>
          /\ readyState[k] = "none"
    BY DEF PageInit
  <2>3. ASSUME NEW k \in Sockets PROVE Phase(k)
    <3>1. PICK q : q = requests[k]
      OBVIOUS
    <3>2. Len(q) <= 1 /\ Only(q, {"connect"}) /\ q = <<>>
      BY <2>1, <2>2, <3>1
    <3>3. Len(requests[k]) <= 1 /\ Only(requests[k], {"connect"})
      BY <3>1, <3>2
    <3>. QED BY <2>2, <3>3 DEF Phase
  <2>. QED BY <2>3 DEF Phases
<1>3. SocketsInOrder /\ NicksDiffer /\ PageKnows
  BY DEF PageInit, SocketsInOrder, NicksDiffer, PageKnows
<1>4. Leading /\ Completing
  BY DEF PageInit, Leading, Completing, Shown, Followed
<1>. QED BY <1>1, <1>2, <1>3, <1>4 DEF PageInv

\* Every step of the page, of what is behind it and of others keeps it.
LEMMA PageInvKept == PageInv /\ [PageNext]_pageWorld => PageInv'
<1>. SUFFICES ASSUME PageInv, [PageNext]_pageWorld PROVE PageInv'
  OBVIOUS
<1>1. CASE Page
  <2>1. ASSUME NEW k \in Sockets, OnGatewayMessage(k) PROVE PageInv'
    BY <2>1, OnGatewayMessageKept
  <2>2. ASSUME NEW k \in Sockets, OnSocketEnd(k) PROVE PageInv'
    BY <2>2, OnSocketEndKept
  <2>3. ASSUME NEW name \in Name, ChangeChannel(name) PROVE PageInv'
    BY <2>3, ChangeChannelKept
  <2>4. ASSUME NEW name \in Name, NEW n \in Nick, Submit(n, name) PROVE PageInv'
    BY <2>4, SubmitKept
  <2>5. ASSUME NEW n \in Nick, ChangeNick(n) PROVE PageInv'
    BY <2>5, ChangeNickKept
  <2>. QED BY <1>1, <2>1, <2>2, <2>3, <2>4, <2>5 DEF Page
<1>2. CASE Behind
  <2>. SUFFICES ASSUME NEW k \in Sockets,
                       \/ Connection(k) \/ OnConnect(k) \/ Welcome(k)
                       \/ OnJoin(k) \/ OnPart(k) \/ OnNick(k) \/ SlowDown(k)
                       \/ OnClose(k)
                PROVE  PageInv'
    BY <1>2 DEF Behind
  <2>1. CASE Connection(k)
    BY <2>1, ConnectionKept
  <2>2. CASE OnConnect(k)
    BY <2>2, OnConnectKept
  <2>3. CASE Welcome(k)
    BY <2>3, WelcomeKept
  <2>4. CASE OnJoin(k)
    BY <2>4, OnJoinKept
  <2>5. CASE OnPart(k)
    BY <2>5, OnPartKept
  <2>6. CASE OnNick(k)
    BY <2>6, OnNickKept
  <2>7. CASE OnClose(k)
    BY <2>7, OnCloseKept
  <2>8. CASE SlowDown(k)
    BY <2>8, SlowDownKept
  <2>. QED BY <2>1, <2>2, <2>3, <2>4, <2>5, <2>6, <2>7, <2>8
<1>3. CASE OtherUsers
  <2>. SUFFICES ASSUME NEW n \in Nick,
                       \/ OtherQuits(n)
                       \/ \E name \in Name : OtherJoins(n, name)
                       \/ \E c \in Channel : OtherParts(n, c) \/ OtherKicks(n, c)
                       \/ \E new \in Nick : OtherRenames(n, new)
                PROVE  PageInv'
    BY <1>3 DEF OtherUsers
  <2>1. CASE OtherQuits(n)
    BY <2>1, OtherQuitsKept
  <2>2. ASSUME NEW name \in Name, OtherJoins(n, name) PROVE PageInv'
    BY <2>2, OtherJoinsKept
  <2>3. ASSUME NEW c \in Channel, OtherParts(n, c) PROVE PageInv'
    BY <2>3, OtherPartsKept
  <2>4. ASSUME NEW c \in Channel, OtherKicks(n, c) PROVE PageInv'
    BY <2>4, OtherKicksKept
  <2>5. ASSUME NEW new \in Nick, OtherRenames(n, new) PROVE PageInv'
    BY <2>5, OtherRenamesKept
  <2>. QED BY <2>1, <2>2, <2>3, <2>4, <2>5
<1>4. CASE UNCHANGED pageWorld
  <2>1. UNCHANGED <<socket, dialog, nickname, channel, listed, held, readyState,
                    requests, events, session, wanted, nick, present, founded>>
    BY <1>4 DEF pageWorld, pageVars, ircVars
  <2>2. PageTypes'
    BY <2>1 DEF PageInv, PageTypes
  <2>3. Phases' /\ SocketsInOrder' /\ NicksDiffer' /\ PageKnows'
    BY <2>1 DEF PageInv, Phases, Phase, SocketsInOrder, NicksDiffer, PageKnows
  <2>4. Leading' /\ Completing'
    BY <2>1, ElsewhereKept
  <2>. QED BY <2>2, <2>3, <2>4 DEF PageInv
<1>. QED BY <1>1, <1>2, <1>3, <1>4 DEF PageNext

\* Once the session is in the channel of the page and nothing is on its way, the
\* list misses nobody, if no PART of the session was refused.
LEMMA SettledMissesNobody == PageInv => NobodyIsMissed
<1>. SUFFICES ASSUME PageInv, Settled, founded[channel.chan] = channel,
                     socket \notin held
              PROVE  present[channel.chan] \subseteq listed
  BY DEF NobodyIsMissed
<1>1. /\ socket \in Sockets /\ socket # 0
      /\ readyState[socket] = "open" /\ session[socket] = "in"
      /\ requests[socket] = <<>> /\ events[socket] = <<>>
      /\ nick[socket] \in present[channel.chan]
  BY DEF Settled
<1>2. Only(<<>>, {"part", "nick"})
  BY DEF Only
<1>3. Shown
  BY <1>1, <1>2 DEF Shown, Followed
<1>4. Completes(listed, events[socket], channel, present[channel.chan])
  BY <1>3 DEF PageInv, Completing
<1>. QED BY <1>1, <1>4, CompletesNow

\* The page misses nobody (NobodyIsMissed): when its session is in the channel
\* it shows (app.js: JOIN, NAMES, PART, KICK, NICK in onGatewayMessage) and
\* nothing is on its way, everybody who is there is in its list, whatever joins
\* and nicknames are refused, however often the user reconnects, and whatever
\* others do.  Provided the gateway's rate limiter refused no PART of the session
\* (server.js:199): without that it is false, see MembersAreShown.
THEOREM NobodyIsMissedAlways == PageSpec => []NobodyIsMissed
<1>1. PageInit => PageInv
  BY PageInvStarts
<1>2. PageInv /\ [PageNext]_pageWorld => PageInv'
  BY PageInvKept
<1>3. PageInv => NobodyIsMissed
  BY SettledMissesNobody
<1>. QED BY <1>1, <1>2, <1>3, PTL DEF PageSpec
=============================================================================
