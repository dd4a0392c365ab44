------------------------- MODULE IrcEventLoopProofs -------------------------
(***************************************************************************)
(* Proofs about IrcEventLoop, for any descriptors and bounds: the poll     *)
(* table is exact at every moment, POLLOUT is asked for exactly when there *)
(* is output, and the loop closes connections as DeferredClose says.       *)
(***************************************************************************)
EXTENDS IrcEventLoop, FiniteSetTheorems, WellFoundedInduction, TLAPS

USE DescriptorsAreOrdered, BoundsArePositive

(***************************************************************************)
(* Tables of poll entries.                                                 *)
(***************************************************************************)

\* A table with the listening socket first and every client of L once.
Table(s, L) ==
  /\ s \in Seq(Fd \cup {Listen}) /\ Len(s) > 0 /\ s[1] = Listen
  /\ \A i \in 1..Len(s) : s[i] \in L \cup {Listen}
  /\ \A f \in L : \E i \in 1..Len(s) : s[i] = f
  /\ \A i, j \in 1..Len(s) : s[i] = s[j] => i = j

\* addClientPollFd: a new client's entry is appended.
LEMMA TableAppend ==
  ASSUME NEW s, NEW L \in SUBSET Fd, Table(s, L), NEW f \in Fd \ L
  PROVE  /\ Table(Append(s, f), L \cup {f})
         /\ Len(Append(s, f)) = Len(s) + 1
<1> DEFINE t == Append(s, f)
<1>1. /\ t \in Seq(Fd \cup {Listen}) /\ Len(t) = Len(s) + 1
      /\ t[Len(s) + 1] = f
      /\ \A i \in 1..Len(s) : t[i] = s[i]
  BY DEF Table
<1>2. \A i \in 1..Len(t) : i \in 1..Len(s) \/ i = Len(s) + 1
  BY <1>1 DEF Table
<1>3. \A i \in 1..Len(s) : s[i] # f /\ s[i] \in L \cup {Listen}
  BY DEF Table
<1> HIDE DEF t
<1>4. \A i, j \in 1..Len(t) : t[i] = t[j] => i = j
  BY <1>1, <1>2, <1>3 DEF Table
<1>5. \A g \in L \cup {f} : \E i \in 1..Len(t) : t[i] = g
  BY <1>1 DEF Table
<1>6. \A i \in 1..Len(t) : t[i] \in L \cup {f} \cup {Listen}
  BY <1>1, <1>2, <1>3
<1>7. Len(t) > 0 /\ t[1] = Listen
  BY <1>1 DEF Table
<1> QED
  BY <1>1, <1>4, <1>5, <1>6, <1>7 DEF Table, t

\* removeClientPollFd: exactly the entry of the client goes, and the listening
\* socket stays first.
LEMMA TableRemove ==
  ASSUME NEW L \in SUBSET Fd, Table(pollFds, L), NEW f \in L
  PROVE  Table(EntriesAfterClose(f), L \ {f})
<1> DEFINE place == CHOOSE i \in DOMAIN pollFds : pollFds[i] = f
           n == Len(pollFds)
           t == [i \in 1..n - 1 |-> IF i < place THEN pollFds[i] ELSE pollFds[i + 1]]
<1>1. /\ pollFds \in Seq(Fd \cup {Listen}) /\ n \in Nat /\ n > 0
      /\ DOMAIN pollFds = 1..n
      /\ \A i \in 1..n : pollFds[i] \in Fd \cup {Listen}
  BY DEF Table
<1>2. place \in 1..n /\ pollFds[place] = f
  BY <1>1 DEF Table
<1>3. place # 1
  BY <1>2 DEF Table
<1>4. EntriesAfterClose(f) = t
  BY DEF EntriesAfterClose
<1> HIDE DEF place, n
<1>5. t \in Seq(Fd \cup {Listen}) /\ Len(t) = n - 1
  <2>1. t \in [1..n - 1 -> Fd \cup {Listen}]
    BY <1>1, <1>2
  <2> QED
    BY <1>1, <2>1
<1>6. ASSUME NEW i \in 1..n - 1
      PROVE  \E k \in 1..n : /\ k # place /\ t[i] = pollFds[k]
                             /\ k = IF i < place THEN i ELSE i + 1
  BY <1>1, <1>2, <1>6
<1>7. ASSUME NEW k \in 1..n, k # place
      PROVE  \E i \in 1..n - 1 : t[i] = pollFds[k]
  <2>1. CASE k < place
    <3>1. k \in 1..n - 1 /\ t[k] = pollFds[k]
      BY <1>1, <1>2, <2>1
    <3> QED
      BY <3>1
  <2>2. CASE k > place
    <3>1. k - 1 \in 1..n - 1 /\ t[k - 1] = pollFds[k]
      BY <1>1, <1>2, <2>2
    <3> QED
      BY <3>1
  <2> QED
    BY <1>1, <1>2, <1>7, <2>1, <2>2
<1>8. Len(t) > 0 /\ t[1] = Listen
  BY <1>1, <1>2, <1>3, <1>5 DEF Table, n
<1>9. \A i \in 1..n : i # place => pollFds[i] # f
  BY <1>2 DEF Table, n
<1>10. \A i, j \in 1..n : pollFds[i] = pollFds[j] => i = j
  BY DEF Table, n
<1>11. /\ \A i \in 1..n : pollFds[i] \in L \cup {Listen}
       /\ \A g \in L : \E i \in 1..n : pollFds[i] = g
  BY DEF Table, n
<1> HIDE DEF t
<1>12. \A i \in 1..n - 1 : t[i] \in (L \ {f}) \cup {Listen}
  BY <1>6, <1>9, <1>11
<1>13. \A g \in L \ {f} : \E i \in 1..n - 1 : t[i] = g
  BY <1>2, <1>7, <1>11
<1>14. ASSUME NEW i \in 1..n - 1, NEW j \in 1..n - 1, t[i] = t[j]
       PROVE  i = j
  <2>1. PICK k \in 1..n : /\ k # place /\ t[i] = pollFds[k]
                          /\ k = IF i < place THEN i ELSE i + 1
    BY <1>6
  <2>2. PICK l \in 1..n : /\ l # place /\ t[j] = pollFds[l]
                          /\ l = IF j < place THEN j ELSE j + 1
    BY <1>6
  <2>3. k = l
    BY <1>10, <1>14, <2>1, <2>2
  <2> QED
    BY <1>1, <1>2, <2>1, <2>2, <2>3
<1> QED
  BY <1>4, <1>5, <1>8, <1>12, <1>13, <1>14 DEF Table

\* A table has one entry for the listening socket and one for each client.
LEMMA TableCounts ==
  ASSUME NEW L \in SUBSET Fd, Table(pollFds, L)
  PROVE  Entries = L \cup {Listen} /\ Cardinality(Entries) = Len(pollFds)
<1> DEFINE n == Len(pollFds)
           b == [i \in 1..n |-> pollFds[i]]
<1>1. /\ n \in Nat /\ 1 \in 1..n /\ pollFds[1] = Listen
      /\ \A i \in 1..n : pollFds[i] \in L \cup {Listen}
      /\ \A f \in L : \E i \in 1..n : pollFds[i] = f
      /\ \A i, j \in 1..n : pollFds[i] = pollFds[j] => i = j
  BY DEF Table
<1>2. Entries = {pollFds[i] : i \in 1..n}
  BY DEF Entries
<1> HIDE DEF n
<1>3. Entries \subseteq L \cup {Listen}
  BY <1>1, <1>2
<1>4. L \cup {Listen} \subseteq Entries
  <2>1. \A f \in L : f \in Entries
    BY <1>1, <1>2
  <2>2. Listen \in Entries
    BY <1>1, <1>2
  <2> QED
    BY <2>1, <2>2
<1>5. b \in Injection(1..n, Entries)
  BY <1>1, <1>2 DEF Injection, IsInjective
<1>6. b \in Surjection(1..n, Entries)
  <2>1. b \in [1..n -> Entries]
    BY <1>2
  <2>2. \A e \in Entries : \E i \in 1..n : b[i] = e
    BY <1>2
  <2> QED
    BY <2>1, <2>2 DEF Surjection
<1>7. IsFiniteSet(1..n) /\ Cardinality(1..n) = n
  BY <1>1, FS_Interval
<1>8. ExistsBijection(1..n, Entries)
  BY <1>5, <1>6 DEF ExistsBijection, Bijection
<1> QED
  BY <1>3, <1>4, <1>7, <1>8, FS_Bijection DEF n

-----------------------------------------------------------------------------
(***************************************************************************)
(* The inductive invariant.                                                *)
(***************************************************************************)

InHandler == pc \in {"recv", "line", "send"}
InScan == pc = "scan" \/ InHandler

\* The scan stays inside the table although accept() lengthens it, a handler
\* works on a connected client, and what is closed or fresh belongs to the
\* part of the pass that made it so.
ScanInv ==
  /\ InScan => index >= 1 /\ snapshotSize <= Len(pollFds)
  /\ InHandler => index <= snapshotSize /\ Current \in live
  /\ pc = "line" => received > 0
  /\ closing # {} => pc = "close"
  /\ fresh # {} => InScan /\ index > 1
  /\ revents[Listen] # {} /\ index <= 1 => backlog > 0

LoopInv == TypeOK /\ Table(pollFds, live) /\ PolloutExact /\ ScanInv

\* A step of the loop keeps the invariant and is a step of DeferredClose.
Keeps == LoopInv' /\ [Lifecycle!Next]_lifeVars

LEMMA InitEstablishes ==
  Init => LoopInv /\ Lifecycle!Init
<1> SUFFICES ASSUME Init PROVE LoopInv /\ Lifecycle!Init
  OBVIOUS
<1>1. TypeOK
  <2>1. pollFds \in Seq(Fd \cup {Listen})
    BY DEF Init
  <2>2. /\ revents \in [Fd \cup {Listen} -> SUBSET {"IN", "OUT", "ERR"}]
        /\ gone \in [Fd -> {"no", "eof", "reset"}]
    BY DEF Init
  <2>3. input \in [Fd -> 0..MaxInput] /\ output \in [Fd -> 0..MaxOutput]
    BY DEF Init
  <2>4. pc = "check" /\ stopRequested = FALSE
    BY DEF Init
  <2>5. /\ live = {} /\ fresh = {} /\ pollout = {} /\ writable = {}
        /\ pending = {} /\ closing = {}
    BY DEF Init
  <2>6. /\ backlog \in 0..MaxBacklog /\ received \in 0..MaxInput
        /\ index \in Nat /\ snapshotSize \in Nat
    <3>1. backlog = 0 /\ received = 0 /\ index = 0 /\ snapshotSize = 0
      BY DEF Init
    <3> QED
      BY <3>1
  <2> QED
    BY <2>1, <2>2, <2>3, <2>4, <2>5, <2>6 DEF TypeOK
<1>2. Table(pollFds, live)
  BY DEF Init, Table
<1>3. PolloutExact /\ ScanInv
  BY DEF Init, PolloutExact, ScanInv, InScan, InHandler
<1> QED
  BY <1>1, <1>2, <1>3 DEF LoopInv, Init, Lifecycle!Init

\* The table when neither entries nor clients change.
LEMMA TableStays ==
  ASSUME Table(pollFds, live), UNCHANGED <<pollFds, live>>
  PROVE  Table(pollFds, live)'
BY DEF Table

\* Peers and the signal move nothing but their own variables, and pc from
\* "blocked" to "stopped".
LEMMA EnvironmentKeeps ==
  ASSUME LoopInv, Environment
  PROVE  Keeps
<1> USE DEF LoopInv
<1>1. UNCHANGED <<live, fresh, pending, closing, pollFds, pollout, revents,
                  index, snapshotSize, received, output>>
  BY DEF Environment, Connect, Signal, PeerSends, PeerReads, PeerLeaves,
     lifeVars, pollVars
<1>2. TypeOK'
  <2>1. CASE Connect
    BY <2>1 DEF Connect, TypeOK, lifeVars, pollVars
  <2>2. CASE Signal
    BY <2>2 DEF Signal, TypeOK, lifeVars, pollVars, peerVars
  <2>3. ASSUME NEW f \in Fd, PeerSends(f) PROVE TypeOK'
    BY SMTT(30), <2>3 DEF PeerSends, TypeOK, lifeVars, pollVars
  <2>4. ASSUME NEW f \in Fd, PeerReads(f) PROVE TypeOK'
    BY <2>4 DEF PeerReads, TypeOK, lifeVars, pollVars
  <2>5. ASSUME NEW f \in Fd, PeerLeaves(f) PROVE TypeOK'
    BY <2>5 DEF PeerLeaves, TypeOK, lifeVars, pollVars
  <2> QED
    BY <2>1, <2>2, <2>3, <2>4, <2>5 DEF Environment
<1>3. /\ pc' = pc \/ (pc = "blocked" /\ pc' = "stopped")
      /\ backlog' = backlog \/ backlog' = backlog + 1
  BY DEF Environment, Connect, Signal, PeerSends, PeerReads, PeerLeaves, peerVars
<1>4. PolloutExact'
  BY <1>1 DEF PolloutExact
<1>5. ScanInv'
  BY <1>1, <1>3 DEF ScanInv, InScan, InHandler, Current, TypeOK
<1> QED
  BY <1>1, <1>2, <1>4, <1>5, TableStays DEF Keeps, lifeVars

\* The loop condition and poll().
LEMMA PollKeeps ==
  ASSUME LoopInv, CheckStop \/ PollReturns \/ PollWaits \/ AllClosed
  PROVE  Keeps
<1> USE DEF LoopInv
<1>1. UNCHANGED <<live, fresh, pending, closing, pollFds, pollout, output>>
  BY DEF CheckStop, PollReturns, PollWaits, AllClosed, lifeVars, pollVars
<1>2. Len(pollFds) \in Nat /\ pollFds[1] = Listen /\ 1 \in 1..Len(pollFds)
  BY DEF Table
<1>3. fresh = {} /\ closing = {}
  BY DEF ScanInv, InScan, InHandler, CheckStop, PollReturns, PollWaits, AllClosed
<1>4. CASE PollReturns
  <2>1. Listen \in Entries
    BY <1>2 DEF Entries
  <2>2. revents' \in [Fd \cup {Listen} -> SUBSET {"IN", "OUT", "ERR"}]
    <3>1. \A f, R : Reported(f, R) \subseteq {"IN", "OUT", "ERR"}
      BY DEF Reported
    <3> QED
      BY <1>4, <3>1 DEF PollReturns
  <2>3. revents'[Listen] # {} => backlog > 0
    BY <1>4, <2>1 DEF PollReturns, Reported, TypeOK
  <2>4. TypeOK'
    BY <1>1, <1>2, <1>4, <2>2 DEF PollReturns, TypeOK, lifeVars, peerVars
  <2>5. ScanInv'
    BY <1>1, <1>2, <1>3, <1>4, <2>3
    DEF PollReturns, ScanInv, InScan, InHandler, peerVars
  <2> QED
    BY <1>1, <2>4, <2>5, TableStays DEF Keeps, PolloutExact, lifeVars
<1>5. CASE CheckStop \/ PollWaits \/ AllClosed
  <2>1. /\ UNCHANGED <<stopRequested, backlog, revents, index, snapshotSize,
                       received, input, gone, writable>>
        /\ pc' \in {"check", "poll", "blocked", "stopped"}
    BY <1>5 DEF CheckStop, PollWaits, AllClosed, pollVars, peerVars
  <2>2. TypeOK'
    BY <1>1, <2>1 DEF TypeOK
  <2>3. ScanInv'
    BY <1>1, <1>3, <2>1 DEF ScanInv, InScan, InHandler
  <2> QED
    BY <1>1, <2>2, <2>3, TableStays DEF Keeps, PolloutExact, lifeVars
<1> QED
  BY <1>4, <1>5

\* Where the scan is: at an entry of the table.
LEMMA AtAnEntry ==
  ASSUME LoopInv, Scanning \/ InHandler
  PROVE  /\ index \in 1..Len(pollFds) /\ index <= snapshotSize
         /\ index \in Nat /\ Len(pollFds) \in Nat /\ snapshotSize \in Nat
         /\ Current \in live \cup {Listen}
BY DEF LoopInv, ScanInv, InScan, InHandler, Scanning, Table, TypeOK, Current

\* The scan goes on, and nothing the invariant is about changes but the
\* clients that are scheduled.
LEMMA SkipEntryKeeps ==
  ASSUME LoopInv, SkipEntry
  PROVE  Keeps
<1>1. UNCHANGED <<live, fresh, pending, closing, pollFds, pollout, revents,
                  snapshotSize, backlog, output>>
      /\ index' = index + 1 /\ pc' = "scan" /\ pc = "scan"
  BY DEF SkipEntry, NextEntry, Scanning, lifeVars, peerVars
<1>2. TypeOK'
  BY <1>1 DEF SkipEntry, LoopInv, TypeOK, lifeVars, peerVars
<1>3. ScanInv'
  BY <1>1 DEF LoopInv, ScanInv, InScan, InHandler, TypeOK
<1> QED
  BY <1>1, <1>2, <1>3, TableStays DEF LoopInv, Keeps, PolloutExact, lifeVars

LEMMA HandleClientEventKeeps ==
  ASSUME LoopInv, HandleClientEvent
  PROVE  Keeps
<1>1. UNCHANGED <<live, fresh, pending, closing, pollFds, pollout, revents,
                  index, snapshotSize, backlog, output>>
      /\ pc' \in {"recv", "send"} /\ pc = "scan"
      /\ index <= snapshotSize /\ Current \in live
  BY DEF HandleClientEvent, Scanning, lifeVars, pollVars, peerVars
<1>2. TypeOK'
  BY <1>1 DEF HandleClientEvent, LoopInv, TypeOK, lifeVars, pollVars, peerVars
<1>3. ScanInv'
  BY <1>1 DEF LoopInv, ScanInv, InScan, InHandler, TypeOK, Current
<1> QED
  BY <1>1, <1>2, <1>3, TableStays DEF LoopInv, Keeps, PolloutExact, lifeVars

\* The lowest free descriptor exists.
LEMMA LowestOf ==
  ASSUME NEW S \in SUBSET Nat, S # {}
  PROVE  \E f \in S : \A g \in S : f <= g
<1>1. PICK f \in S : \A g \in S : ~(<<g, f>> \in OpToRel(<, Nat))
  BY NatLessThanWellFounded, WFMin
<1>2. \A g \in S : ~(g < f)
  BY <1>1 DEF OpToRel
<1> QED
  BY <1>2

\* A client is accepted only at the first entry, so once in a scan, with the
\* lowest free descriptor.
LEMMA AcceptClientKeeps ==
  ASSUME LoopInv, AcceptClient
  PROVE  Keeps
<1> USE DEF LoopInv
<1>1. /\ pc = "scan" /\ pc' = "scan" /\ index' = index + 1
      /\ Current = Listen /\ revents[Listen] # {}
      /\ UNCHANGED <<stopRequested, snapshotSize, received>>
  BY DEF AcceptClient, NextEntry, Scanning
<1>2. index = 1
  <2>1. /\ index \in 1..Len(pollFds) /\ pollFds[index] = Listen
        /\ 1 \in 1..Len(pollFds) /\ pollFds[1] = Listen
    BY <1>1, AtAnEntry DEF AcceptClient, Table, Current
  <2> QED
    BY <2>1 DEF Table
<1>3. backlog > 0 /\ fresh = {} /\ closing = {}
  BY <1>1, <1>2 DEF ScanInv
<1>4. CASE live = Fd
  <2>1. UNCHANGED <<live, fresh, pending, closing, pollFds, pollout, revents,
                    backlog, input, gone, writable, output>>
    BY <1>4 DEF AcceptClient, lifeVars, peerVars
  <2>2. TypeOK'
    BY <1>1, <1>2, <2>1 DEF TypeOK
  <2>3. ScanInv'
    BY <1>1, <1>2, <2>1 DEF ScanInv, InScan, InHandler, TypeOK
  <2> QED
    BY <2>1, <2>2, <2>3, TableStays DEF Keeps, PolloutExact, lifeVars
<1>5. CASE live # Fd
  <2> DEFINE f == CHOOSE g \in Fd \ live : \A h \in Fd \ live : g <= h
  <2>1. f \in Fd \ live /\ \A h \in Fd \ live : f <= h
    <3>1. Fd \ live \in SUBSET Nat /\ Fd \ live # {}
      BY <1>5 DEF TypeOK
    <3> QED
      BY <3>1, LowestOf
  <2>2. /\ backlog' = backlog - 1
        /\ live' = live \cup {f} /\ fresh' = {f}
        /\ pollFds' = Append(pollFds, f)
        /\ pollout' = pollout \ {f}
        /\ revents' = [revents EXCEPT ![f] = {}]
        /\ input' = [input EXCEPT ![f] = 0]
        /\ gone' = [gone EXCEPT ![f] = "no"]
        /\ writable' = writable \cup {f}
        /\ output' = [output EXCEPT ![f] = 0]
        /\ UNCHANGED <<pending, closing>>
    BY <1>5 DEF AcceptClient
  <2> HIDE DEF f
  <2>3. Table(pollFds, live)' /\ Len(pollFds') = Len(pollFds) + 1
    BY <2>1, <2>2, TableAppend DEF TypeOK
  <2>4. TypeOK'
    BY <1>1, <1>2, <1>3, <2>1, <2>2, <2>3 DEF TypeOK, Table
  <2>5. PolloutExact'
    BY <2>1, <2>2 DEF PolloutExact, TypeOK
  <2>6. ScanInv'
    <3>1. Len(pollFds) \in Nat
      BY DEF Table
    <3> QED
      BY <1>1, <1>2, <1>3, <2>2, <2>3, <3>1 DEF ScanInv, InScan, InHandler, TypeOK
  <2>7. Lifecycle!Accept(f)
    BY <1>3, <2>1, <2>2 DEF Lifecycle!Accept
  <2> QED
    BY <2>1, <2>3, <2>4, <2>5, <2>6, <2>7 DEF Keeps, Lifecycle!Next
<1> QED
  BY <1>4, <1>5

\* The handlers of an event schedule connected clients only, and leave the
\* clients and the table alone.
Handled ==
  /\ UNCHANGED <<live, fresh, closing, pollFds, revents, snapshotSize, backlog>>
  /\ pending \subseteq pending' /\ pending' \subseteq pending \cup live

LEMMA HandledSchedules ==
  ASSUME LoopInv, pc # "close", Handled
  PROVE  [Lifecycle!Next]_lifeVars
<1>1. closing = {}
  BY DEF LoopInv, ScanInv
<1>2. Lifecycle!Schedule
  BY <1>1 DEF Handled, Lifecycle!Schedule
<1> QED
  BY <1>2 DEF Lifecycle!Next

\* Where the scan goes after a handler.
LEMMA HandledKeepsScan ==
  ASSUME LoopInv, InHandler, Handled,
         \/ NextEntry
         \/ pc' \in {"line", "send"} /\ index' = index,
         pc' = "line" => received' > 0
  PROVE  ScanInv'
<1>1. index \in Nat /\ index >= 1
  BY DEF LoopInv, TypeOK, ScanInv, InScan
<1>2. /\ UNCHANGED <<live, fresh, closing, pollFds, revents, snapshotSize, backlog>>
      /\ pc' \in {"scan", "line", "send"}
      /\ index' = index \/ (index' = index + 1 /\ pc' = "scan")
  BY DEF Handled, NextEntry
<1>3. index' > 1 \/ index' = index
  BY <1>1, <1>2
<1> QED
  BY <1>1, <1>2, <1>3 DEF LoopInv, ScanInv, InScan, InHandler, Current

LEMMA ReceiveNothingKeeps ==
  ASSUME LoopInv, ReceiveNothing
  PROVE  Keeps
<1>1. Current \in live /\ InHandler /\ pc' = "scan"
  BY DEF ReceiveNothing, NextEntry, LoopInv, ScanInv, InHandler
<1>2. Handled /\ UNCHANGED <<output, pollout>>
  BY <1>1 DEF ReceiveNothing, Handled, peerVars
<1>3. TypeOK'
  BY <1>1 DEF ReceiveNothing, NextEntry, LoopInv, TypeOK, peerVars
<1>4. ScanInv'
  BY <1>1, <1>2, HandledKeepsScan DEF ReceiveNothing
<1> QED
  BY <1>1, <1>2, <1>3, <1>4, HandledSchedules, TableStays
  DEF Keeps, LoopInv, PolloutExact, Handled, InHandler

LEMMA ReceiveLinesKeeps ==
  ASSUME LoopInv, ReceiveLines
  PROVE  Keeps
<1>1. Current \in live /\ Current \in Fd /\ InHandler /\ pc' = "line"
      /\ index' = index
  BY DEF ReceiveLines, LoopInv, ScanInv, InHandler, TypeOK
<1>2. Handled /\ UNCHANGED <<output, pollout>>
  BY DEF ReceiveLines, Handled, lifeVars
<1>3. PICK n \in 1..input[Current] :
        received' = n /\ input' = [input EXCEPT ![Current] = @ - n]
  BY DEF ReceiveLines
<1>4. TypeOK'
  <2>1. received' \in 0..MaxInput /\ input' \in [Fd -> 0..MaxInput]
    BY <1>1, <1>3 DEF LoopInv, TypeOK
  <2> QED
    BY <1>1, <2>1 DEF ReceiveLines, LoopInv, TypeOK, lifeVars
<1>5. ScanInv'
  BY <1>1, <1>2, <1>3, HandledKeepsScan
<1> QED
  BY <1>1, <1>2, <1>4, <1>5, HandledSchedules, TableStays
  DEF Keeps, LoopInv, PolloutExact, Handled, InHandler

\* Queueing gives every recipient whose buffer has room a message and asks
\* for POLLOUT, and changes nobody else.
LEMMA QueueKeeps ==
  ASSUME TypeOK, PolloutExact, NEW rcpt \in SUBSET live, Queue(rcpt), live' = live
  PROVE  /\ output' \in [Fd -> 0..MaxOutput] /\ pollout' \subseteq Fd
         /\ PolloutExact'
         /\ Full(rcpt) \subseteq live
<1>1. \A f \in rcpt : f \notin Full(rcpt) => output[f] # MaxOutput
  BY DEF Full
<1>2. output' \in [Fd -> 0..MaxOutput]
  BY <1>1 DEF Queue, TypeOK
<1>3. \A f \in live : f \in pollout' <=> output'[f] > 0
  BY DEF Queue, PolloutExact, TypeOK
<1>4. Full(rcpt) \subseteq live /\ pollout' \subseteq Fd
  BY DEF Full, Queue, TypeOK
<1> QED
  BY <1>2, <1>3, <1>4 DEF PolloutExact

LEMMA ProcessLineKeeps ==
  ASSUME LoopInv, ProcessLine
  PROVE  Keeps
<1>1. Current \in live /\ Current \in Fd /\ InHandler /\ received > 0
  BY DEF ProcessLine, LoopInv, ScanInv, InHandler, TypeOK
<1>2. /\ UNCHANGED <<stopRequested, live, fresh, closing, pollFds, revents,
                     snapshotSize, backlog, input, gone, writable>>
      /\ received' = IF Current \in pending' THEN 0 ELSE received - 1
  BY DEF ProcessLine, peerVars
<1>3. /\ output' \in [Fd -> 0..MaxOutput] /\ pollout' \subseteq Fd
      /\ PolloutExact'
      /\ pending \subseteq pending' /\ pending' \subseteq pending \cup live
  <2>1. ASSUME NEW rcpt \in SUBSET live, Queue(rcpt),
               pending' = pending \cup Full(rcpt)
        PROVE  <1>3
    BY <1>2, <2>1, QueueKeeps DEF LoopInv
  <2>2. CASE UNCHANGED <<output, pollout>> /\ pending' = pending \cup {Current}
    BY <1>1, <1>2, <2>2 DEF LoopInv, TypeOK, PolloutExact
  <2>3. CASE Queue({Current}) /\ pending' = pending \cup {Current}
    BY <1>1, <1>2, <2>3, QueueKeeps DEF LoopInv
  <2> QED
    BY <2>1, <2>2, <2>3 DEF ProcessLine
<1>4. /\ \/ NextEntry
         \/ pc' \in {"line", "send"} /\ index' = index
      /\ pc' = "line" => received' > 0
  <2>1. received \in Nat
    BY DEF LoopInv, TypeOK
  <2> QED
    BY <1>1, <2>1 DEF ProcessLine, NextEntry
<1>5. Handled
  BY <1>2, <1>3 DEF Handled
<1>6. TypeOK'
  <2>1. received' \in 0..MaxInput
    BY <1>1, <1>2 DEF LoopInv, TypeOK
  <2>2. index' \in Nat /\ pc' \in {"scan", "line", "send"}
    BY <1>4 DEF NextEntry, LoopInv, TypeOK
  <2> QED
    BY <1>2, <1>3, <2>1, <2>2 DEF LoopInv, TypeOK
<1>7. ScanInv'
  BY <1>1, <1>4, <1>5, HandledKeepsScan
<1> QED
  BY <1>1, <1>3, <1>5, <1>6, <1>7, HandledSchedules, TableStays
  DEF Keeps, LoopInv, Handled, InHandler

LEMMA FlushSendBufferKeeps ==
  ASSUME LoopInv, FlushSendBuffer
  PROVE  Keeps
<1> DEFINE f == Current
<1>1. f \in live /\ f \in Fd /\ InHandler /\ pc' = "scan"
  BY DEF FlushSendBuffer, NextEntry, LoopInv, ScanInv, InHandler, TypeOK
<1>2. /\ UNCHANGED <<stopRequested, live, fresh, closing, pollFds, revents,
                     snapshotSize, received, backlog, input, gone>>
      /\ NextEntry
      /\ pending' = pending \/ pending' = pending \cup {f}
      /\ writable' = writable \/ writable' = writable \ {f}
  BY DEF FlushSendBuffer
<1>3. /\ output' \in [Fd -> 0..MaxOutput] /\ pollout' \subseteq Fd
      /\ PolloutExact'
  <2>1. CASE UNCHANGED <<output, pollout>>
    BY <1>2, <2>1 DEF LoopInv, TypeOK, PolloutExact
  <2>2. ASSUME NEW n \in 0..output[f], output' = [output EXCEPT ![f] = @ - n],
               pollout' = FlushedPollout(f)
        PROVE  <1>3
    <3>1. output[f] \in 0..MaxOutput /\ output[f] - n \in 0..MaxOutput
      BY <1>1, <2>2 DEF LoopInv, TypeOK
    <3>2. output' \in [Fd -> 0..MaxOutput]
      BY <1>1, <2>2, <3>1 DEF LoopInv, TypeOK
    <3>3. /\ output'[f] = output[f] - n
          /\ \A g \in Fd : g # f => output'[g] = output[g]
      BY <1>1, <2>2 DEF LoopInv, TypeOK
    <3>4. pollout' = IF output'[f] = 0 THEN pollout \ {f} ELSE pollout
      BY <2>2 DEF FlushedPollout
    <3> HIDE DEF f
    <3>5. f \in pollout' <=> output'[f] > 0
      BY <1>1, <3>1, <3>3, <3>4 DEF LoopInv, PolloutExact
    <3>6. \A g \in live : g \in pollout' <=> output'[g] > 0
      BY <3>3, <3>4, <3>5 DEF LoopInv, PolloutExact, TypeOK
    <3> QED
      BY <1>2, <3>2, <3>4, <3>6 DEF LoopInv, TypeOK, PolloutExact
  <2> QED
    BY <2>1, <2>2 DEF FlushSendBuffer
<1>4. Handled
  BY <1>1, <1>2 DEF Handled
<1>5. TypeOK'
  <2>1. pending' \subseteq Fd /\ writable' \subseteq Fd
    BY <1>1, <1>2 DEF LoopInv, TypeOK
  <2>2. index' \in Nat
    BY <1>2 DEF NextEntry, LoopInv, TypeOK
  <2> QED
    BY <1>1, <1>2, <1>3, <2>1, <2>2 DEF LoopInv, TypeOK
<1>6. ScanInv'
  BY <1>1, <1>2, <1>4, HandledKeepsScan
<1> QED
  BY <1>1, <1>3, <1>4, <1>5, <1>6, HandledSchedules, TableStays
  DEF Keeps, LoopInv, Handled, InHandler

\* processPendingDisconnects takes the set over.
LEMMA EndScanKeeps ==
  ASSUME LoopInv, EndScan
  PROVE  Keeps
<1>1. /\ UNCHANGED <<live, pollFds, pollout, output, backlog>>
      /\ pc' = "close" /\ fresh' = {} /\ closing = {}
      /\ closing' = pending /\ pending' = {}
      /\ revents' = [f \in Fd \cup {Listen} |-> {}]
  BY DEF EndScan, peerVars, LoopInv, ScanInv
<1>2. TypeOK'
  BY <1>1 DEF EndScan, LoopInv, TypeOK, peerVars
<1>3. ScanInv'
  BY <1>1 DEF ScanInv, InScan, InHandler
<1>4. Lifecycle!EndScan
  BY <1>1 DEF Lifecycle!EndScan
<1> QED
  BY <1>1, <1>2, <1>3, <1>4, TableStays
  DEF Keeps, LoopInv, PolloutExact, Lifecycle!Next

\* disconnectClient removes the client, its entry and its output together.
LEMMA DisconnectClientKeeps ==
  ASSUME LoopInv, NEW f \in Fd, DisconnectClient(f)
  PROVE  Keeps
<1>1. /\ pc = "close" /\ f \in closing /\ \A g \in closing : f <= g
      /\ closing' = closing \ {f}
      /\ UNCHANGED <<pc, stopRequested, fresh, revents, index, snapshotSize,
                     received, backlog>>
  BY DEF DisconnectClient, ClosesNext
<1>2. fresh = {}
  BY <1>1 DEF LoopInv, ScanInv, InScan, InHandler
<1>3. ScanInv'
  BY <1>1, <1>2 DEF LoopInv, ScanInv, InScan, InHandler
<1>4. CASE f \notin live
  <2>1. UNCHANGED <<live, pending, pollFds, pollout, output, input, gone, writable>>
    BY <1>4 DEF DisconnectClient
  <2>2. TypeOK'
    BY <1>1, <2>1 DEF LoopInv, TypeOK
  <2>3. Lifecycle!Close(f)
    BY <1>1, <1>4, <2>1 DEF Lifecycle!Close
  <2> QED
    BY <1>3, <2>1, <2>2, <2>3, TableStays
    DEF Keeps, LoopInv, PolloutExact, Lifecycle!Next
<1>5. CASE f \in live
  <2>1. PICK rcpt \in SUBSET (live \ {f}) :
          /\ pending' = pending \cup Full(rcpt)
          /\ output' = [g \in Fd |->
               IF g = f THEN 0
               ELSE IF g \in rcpt \ Full(rcpt) THEN output[g] + 1
               ELSE output[g]]
          /\ pollout' = (pollout \cup (rcpt \ Full(rcpt))) \ {f}
    BY <1>5 DEF DisconnectClient
  <2>2. /\ pollFds' = EntriesAfterClose(f)
        /\ live' = live \ {f}
        /\ input' = [input EXCEPT ![f] = 0]
        /\ gone' = [gone EXCEPT ![f] = "no"]
        /\ writable' = writable \ {f}
    BY <1>5 DEF DisconnectClient
  <2>3. Table(pollFds, live)'
    BY <1>5, <2>2, TableRemove DEF LoopInv, TypeOK
  <2>4. Full(rcpt) \subseteq live \ {f}
        /\ \A g \in rcpt : g \notin Full(rcpt) => output[g] # MaxOutput
    BY DEF Full
  <2>5. output' \in [Fd -> 0..MaxOutput]
    BY <2>1, <2>4 DEF LoopInv, TypeOK
  <2>6. \A g \in live \ {f} : g \in pollout' <=> output'[g] > 0
    BY <2>1 DEF LoopInv, PolloutExact, TypeOK
  <2>7. TypeOK'
    <3>1. /\ live' \subseteq Fd /\ pending' \subseteq Fd /\ closing' \subseteq Fd
          /\ pollout' \subseteq Fd /\ writable' \subseteq Fd
      BY <1>1, <2>1, <2>2, <2>4 DEF LoopInv, TypeOK
    <3>2. input' \in [Fd -> 0..MaxInput] /\ gone' \in [Fd -> {"no", "eof", "reset"}]
      BY <2>2 DEF LoopInv, TypeOK
    <3> QED
      BY <1>1, <2>3, <2>5, <3>1, <3>2 DEF LoopInv, TypeOK, Table
  <2>8. Lifecycle!Close(f)
    BY <1>1, <1>5, <2>1, <2>2, <2>4 DEF Lifecycle!Close
  <2> QED
    BY <1>3, <2>2, <2>3, <2>6, <2>7, <2>8
    DEF Keeps, LoopInv, PolloutExact, Lifecycle!Next
<1> QED
  BY <1>4, <1>5

-----------------------------------------------------------------------------
(***************************************************************************)
(* The theorems.                                                           *)
(***************************************************************************)

LEMMA NextKeeps ==
  ASSUME LoopInv, [Next]_vars
  PROVE  Keeps
<1>1. CASE Next
  <2>1. CASE Stopped
    <3>1. UNCHANGED vars
      BY <2>1 DEF Stopped
    <3> QED
      BY <3>1, TableStays
      DEF Keeps, LoopInv, TypeOK, PolloutExact, ScanInv, InScan, InHandler,
          Current, vars, lifeVars, pollVars, peerVars
  <2> QED
    BY <1>1, <2>1, EnvironmentKeeps, PollKeeps, SkipEntryKeeps,
       AcceptClientKeeps, HandleClientEventKeeps, ReceiveNothingKeeps,
       ReceiveLinesKeeps, ProcessLineKeeps, FlushSendBufferKeeps,
       EndScanKeeps, DisconnectClientKeeps
    DEF Next, ServerStep
<1>2. CASE UNCHANGED vars
  BY <1>2, TableStays
  DEF Keeps, LoopInv, TypeOK, PolloutExact, ScanInv, InScan, InHandler,
      Current, vars, lifeVars, pollVars, peerVars
<1> QED
  BY <1>1, <1>2

\* The invariant of the loop: the table, the POLLOUT requests and the place of
\* the scan agree with the clients at every step.
THEOREM LoopInvAlways == Spec => []LoopInv
<1>1. LoopInv /\ [Next]_vars => LoopInv'
  BY NextKeeps DEF Keeps
<1> QED
  BY <1>1, InitEstablishes, PTL DEF Spec

\* A client is polled for POLLOUT exactly while it has output, in every state.
THEOREM PolloutExactAlways == Spec => []PolloutExact
<1>1. LoopInv => PolloutExact
  BY DEF LoopInv
<1> QED
  BY <1>1, LoopInvAlways, PTL

\* The poll table holds the listening socket first and every client once, and
\* is never shorter than the snapshot a scan is walking.
THEOREM PollEntriesExactAlways == Spec => []PollEntriesExact
<1>1. ASSUME LoopInv PROVE PollEntriesExact
  <2>1. live \in SUBSET Fd /\ Table(pollFds, live)
    BY <1>1 DEF LoopInv, TypeOK
  <2>2. Entries = live \cup {Listen} /\ Cardinality(Entries) = Len(pollFds)
    BY <2>1, TableCounts
  <2> QED
    BY <1>1, <2>1, <2>2
    DEF PollEntriesExact, LoopInv, ScanInv, InScan, InHandler, Table
<1> QED
  BY <1>1, LoopInvAlways, PTL

\* Every run of the loop is a run of DeferredClose.
THEOREM LoopDefersClose == Spec => ImplementsDeferredClose
<1>1. LoopInv /\ [Next]_vars => [Lifecycle!Next]_lifeVars
  BY NextKeeps DEF Keeps
<1>2. lifeVars = Lifecycle!lifeVars
  BY DEF lifeVars, Lifecycle!lifeVars
<1>3. LoopInv /\ [Next]_vars => [Lifecycle!Next]_(Lifecycle!lifeVars)
  BY <1>1 DEF lifeVars, Lifecycle!lifeVars
<1> QED
  BY <1>3, InitEstablishes, LoopInvAlways, PTL
  DEF Spec, ImplementsDeferredClose, Lifecycle!Spec

=============================================================================
