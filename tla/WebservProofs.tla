--------------------------- MODULE WebservProofs ---------------------------
(***************************************************************************)
(* The web server's tables, for any numbers of connections, scripts and    *)
(* descriptors and any limits: descriptors, poll table and children are    *)
(* exact, output is passed on whole, and the loop implements RequestLife.  *)
(* And the path of a request, whatever its target: it makes no detour, and *)
(* it is found in the location that it leads to.                           *)
(***************************************************************************)
EXTENDS MCWebserv, FiniteSetTheorems, SequenceTheorems, WellFoundedInduction, TLAPS

(***************************************************************************)
(* Sequences                                                               *)
(***************************************************************************)

LEMMA LeastOf ==
  ASSUME NEW S \in SUBSET Nat, S # {}
  PROVE  \E m \in S : \A n \in S : m <= n
<1>1. PICK m \in S : \A n \in S : ~(<<n, m>> \in OpToRel(<, Nat))
  BY NatLessThanWellFounded, WFMin
<1>2. \A n \in S : ~(n < m)
  BY <1>1 DEF OpToRel
<1> QED
  BY <1>2

\* The members of a set of numbers, by rank.
Rank(K, j) == Cardinality({m \in K : m <= j})

LEMMA PlacesAreFinite ==
  ASSUME NEW n \in Nat, NEW K, \A m \in K : m \in 1..n
  PROVE  IsFiniteSet(K) /\ Cardinality(K) \in Nat
<1>1. IsFiniteSet(1..n)
  BY FS_Interval
<1>2. IsFiniteSet(K)
  BY <1>1, FS_Subset
<1> QED
  BY <1>2, FS_CardinalityType

LEMMA RankStep ==
  ASSUME NEW n \in Nat, NEW K, \A m \in K : m \in 1..n, NEW j \in Nat
  PROVE  /\ Rank(K, j) \in Nat
         /\ Rank(K, j + 1) = IF j + 1 \in K THEN Rank(K, j) + 1 ELSE Rank(K, j)
         /\ Rank(K, j) <= Cardinality(K)
<1> DEFINE B(b) == {m \in K : m <= b}
<1>1. IsFiniteSet(K)
  BY PlacesAreFinite
<1>2. IsFiniteSet(B(j)) /\ Cardinality(B(j)) \in Nat /\ Cardinality(B(j)) <= Cardinality(K)
  <2>1. B(j) \in SUBSET K
    OBVIOUS
  <2> QED
    BY <1>1, <2>1, FS_Subset, FS_CardinalityType
<1>3. CASE j + 1 \in K
  <2>1. B(j + 1) = B(j) \cup {j + 1} /\ j + 1 \notin B(j)
    BY <1>3
  <2> QED
    BY <1>2, <1>3, <2>1, FS_AddElement DEF Rank
<1>4. CASE j + 1 \notin K
  <2>1. B(j + 1) = B(j)
    BY <1>4
  <2> QED
    BY <1>2, <1>4, <2>1 DEF Rank
<1> QED
  BY <1>2, <1>3, <1>4 DEF Rank

\* Ranks grow from one member to the next.
LEMMA RankGrows ==
  ASSUME NEW n \in Nat, NEW K, \A m \in K : m \in 1..n, NEW a \in K, NEW b \in K, a < b
  PROVE  Rank(K, a) < Rank(K, b)
<1> DEFINE A == {m \in K : m <= a}
           B == {m \in K : m <= b}
<1>1. A \in SUBSET B /\ b \in B /\ b \notin A
  OBVIOUS
<1>2. IsFiniteSet(K)
  BY PlacesAreFinite
<1>3. B \in SUBSET K
  OBVIOUS
<1>4. IsFiniteSet(B)
  BY <1>2, <1>3, FS_Subset
<1>5. Cardinality(A) <= Cardinality(B) /\ (Cardinality(B) = Cardinality(A) => B = A)
      /\ IsFiniteSet(A)
  BY <1>1, <1>4, FS_Subset
<1>6. Cardinality(A) \in Nat /\ Cardinality(B) \in Nat
  BY <1>4, <1>5, FS_CardinalityType
<1> QED
  BY <1>1, <1>5, <1>6 DEF Rank

\* Every rank up to the number of members is taken.
LEMMA RankTaken ==
  ASSUME NEW n \in Nat, NEW K, \A m \in K : m \in 1..n, NEW r \in 1..Cardinality(K)
  PROVE  \E j \in K : Rank(K, j) = r
<1> DEFINE S == {j \in Nat : Rank(K, j) >= r}
<1>0. Cardinality(K) \in Nat
  BY PlacesAreFinite
<1>1. n \in S
  <2>1. {m \in K : m <= n} = K
    OBVIOUS
  <2> QED
    BY <2>1, <1>0 DEF Rank
<1>2. PICK m \in S : \A j \in S : m <= j
  BY <1>1, LeastOf
<1>3. m # 0
  <2>1. {j \in K : j <= 0} = {}
    OBVIOUS
  <2>2. Rank(K, 0) = 0
    BY <2>1, FS_EmptySet DEF Rank
  <2> QED
    BY <2>2
<1>4. m - 1 \in Nat /\ m - 1 \notin S /\ (m - 1) + 1 = m
  BY <1>2, <1>3
<1>5. Rank(K, m - 1) < r /\ Rank(K, m - 1) \in Nat
  BY <1>4, RankStep
<1>6. Rank(K, (m - 1) + 1) = IF (m - 1) + 1 \in K THEN Rank(K, m - 1) + 1 ELSE Rank(K, m - 1)
  BY <1>4, RankStep
<1>7. Rank(K, m) = IF m \in K THEN Rank(K, m - 1) + 1 ELSE Rank(K, m - 1)
  BY <1>4, <1>6
<1> QED
  BY <1>2, <1>5, <1>7

\* A subsequence has the chosen places, each once and in order.
LEMMA SubsequenceIs ==
  ASSUME NEW X, NEW s \in Seq(X), NEW K \in SUBSET (1..Len(s))
  PROVE  \E at \in [1..Cardinality(K) -> K] :
           /\ Subsequence(s, K) = [n \in 1..Cardinality(K) |-> s[at[n]]]
           /\ \A a, b \in 1..Cardinality(K) : at[a] = at[b] => a = b
           /\ \A j \in K : \E n \in 1..Cardinality(K) : at[n] = j
           /\ Subsequence(s, K) \in Seq(X) /\ Len(Subsequence(s, K)) = Cardinality(K)
<1> DEFINE at == [n \in 1..Cardinality(K) |-> CHOOSE j \in K : Rank(K, j) = n]
<1> DEFINE last == Len(s)
<1>b. last \in Nat /\ \A m \in K : m \in 1..last
  OBVIOUS
<1>0. Cardinality(K) \in Nat /\ IsFiniteSet(K)
  BY <1>b, PlacesAreFinite
<1>1. \A n \in 1..Cardinality(K) : at[n] \in K /\ Rank(K, at[n]) = n
  <2> TAKE n \in 1..Cardinality(K)
  <2>1. \E j \in K : Rank(K, j) = n
    BY <1>b, RankTaken
  <2> QED
    BY <2>1
<1>2. at \in [1..Cardinality(K) -> K]
  BY <1>1
<1>3. Subsequence(s, K) = [n \in 1..Cardinality(K) |-> s[at[n]]]
  BY DEF Subsequence, Rank
<1>4. \A j \in K : \E n \in 1..Cardinality(K) : at[n] = j
  <2> TAKE j \in K
  <2> DEFINE r == Rank(K, j)
  <2>0. \A m \in K : m \in Nat
    BY <1>b
  <2>1. r \in Nat /\ r <= Cardinality(K)
    BY <1>b, <2>0, RankStep
  <2>2. r # 0
    <3> DEFINE below == {m \in K : m <= j}
    <3>1. j \in below
      BY <2>0
    <3>2. IsFiniteSet(below)
      BY <1>0, FS_Subset
    <3>3. Cardinality(below) # 0
      BY <3>1, <3>2, FS_EmptySet
    <3> QED
      BY <3>3 DEF Rank
  <2>4. r \in 1..Cardinality(K)
    BY <1>0, <2>1, <2>2
  <2>5. PICK x \in K : x = at[r] /\ Rank(K, x) = r
    BY <1>1, <2>4
  <2>6. \A a, b \in K : a < b => Rank(K, a) < Rank(K, b)
    BY <1>b, RankGrows
  <2>7. x = j
    <3> HIDE DEF at, last
    <3>1. ~(x < j) /\ ~(j < x)
      BY <2>1, <2>5, <2>6
    <3> QED
      BY <2>0, <3>1
  <2> QED
    BY <2>4, <2>5, <2>7
<1>5. \A a, b \in 1..Cardinality(K) : at[a] = at[b] => a = b
  BY <1>1
<1>6. Subsequence(s, K) \in Seq(X) /\ Len(Subsequence(s, K)) = Cardinality(K)
  <2> HIDE DEF at
  <2>1. \A j \in K : s[j] \in X
    BY <1>b
  <2>2. \A n \in 1..Cardinality(K) : s[at[n]] \in X
    BY <1>2, <2>1
  <2> QED
    BY <1>0, <1>3, <2>2
<1> QED
  BY <1>2, <1>3, <1>4, <1>5, <1>6

(***************************************************************************)
(* The inductive invariant                                                 *)
(***************************************************************************)

\* A client has pipes only with a script, and a script only without an answer.
ClientInv ==
  \A f \in DOMAIN clients :
    /\ f \in Sockets /\ clients[f] \in ClientState
    /\ clients[f].cgiPid = None =>
         clients[f].cgiInputFd = None /\ clients[f].cgiOutputFd = None
    /\ clients[f].cgiPid # None => clients[f].output = "none"

\* Every open descriptor is known by what it is, and every client finds its
\* pipes and is found by them.
FilesInv ==
  /\ DOMAIN files = {Listener} \cup DOMAIN clients \cup DOMAIN cgiInputOwners
                      \cup DOMAIN cgiOutputOwners
  /\ DOMAIN files \subseteq Descriptors
  /\ files[Listener] = <<"listener", None>>
  /\ \A f \in DOMAIN clients :
       LET c == clients[f]
       IN /\ files[f] = <<"client", None>>
          /\ c.cgiInputFd # None =>
               c.cgiInputFd \in DOMAIN cgiInputOwners /\ cgiInputOwners[c.cgiInputFd] = f
          /\ c.cgiOutputFd # None =>
               c.cgiOutputFd \in DOMAIN cgiOutputOwners /\ cgiOutputOwners[c.cgiOutputFd] = f
  /\ \A fd \in DOMAIN cgiInputOwners :
       LET f == cgiInputOwners[fd]
       IN /\ f \in DOMAIN clients /\ clients[f].cgiInputFd = fd
          /\ files[fd] = <<"stdin", clients[f].cgiPid>>
  /\ \A fd \in DOMAIN cgiOutputOwners :
       LET f == cgiOutputOwners[fd]
       IN /\ f \in DOMAIN clients /\ clients[f].cgiOutputFd = fd
          /\ files[fd] = <<"stdout", clients[f].cgiPid>>

\* A poll table with every open descriptor once, watched for what it needs.
TableOK(table) ==
  /\ table \in Seq(PollEntry)
  /\ \A j \in 1..Len(table) :
       table[j].fd \in DOMAIN files /\ table[j].events = Wanted(table[j].fd)
  /\ \A j, m \in 1..Len(table) : table[j].fd = table[m].fd => j = m
  /\ \A fd \in DOMAIN files : \E j \in 1..Len(table) : table[j].fd = fd

\* What the poll reported and the scan has not looked at is still so: a socket
\* is reported for what it is watched for, and a script's output for data or
\* its end.
ReportOK(table) ==
  \A j \in 1..Len(table) :
    /\ table[j].fd \in DOMAIN clients =>
         table[j].revents \subseteq table[j].events \cup {"ERR"}
    /\ table[j].fd \in DOMAIN cgiOutputOwners /\ table[j].revents # {} =>
         LET script == scripts[clients[cgiOutputOwners[table[j].fd]].cgiPid]
         IN script.data \/ ~script.writer

\* A script whose output has been read to its end has nothing more to say.
OutputInv ==
  \A f \in RunningCgi : clients[f].cgiOutputFd = None =>
    ~scripts[clients[f].cgiPid].data /\ ~scripts[clients[f].cgiPid].writer

ScriptsInv ==
  /\ ChildrenExact
  /\ DOMAIN scripts \subseteq Pids
  /\ \A pid \in DOMAIN scripts : scripts[pid] \in Script
  /\ OutputInv

LimitsInv ==
  /\ Cardinality(DOMAIN clients) <= MaxConnections
  /\ Cardinality(RunningCgi) <= MaxCgiProcesses

UpInv ==
  /\ ClientInv /\ FilesInv /\ TableOK(pollfds) /\ ScriptsInv /\ LimitsInv
  /\ pc \in {"poll", "scan", "expire"} /\ i \in Nat
  /\ pc = "scan" => i > 0 /\ ReportOK(pollfds)

DownInv ==
  /\ pc = "stopped" /\ i = 0 /\ pollfds = <<>>
  /\ DOMAIN clients = {} /\ DOMAIN cgiInputOwners = {} /\ DOMAIN cgiOutputOwners = {}
  /\ DOMAIN files = {} /\ DOMAIN scripts = {}

WebInv == UpInv \/ DownInv

(***************************************************************************)
(* What a handler other than accept and the start of a script does to the  *)
(* tables: clients and pipes go, and what is left asks for other events.   *)
(***************************************************************************)

WantedOf(c) == IF c.cgiPid # None THEN {} ELSE IF c.output = "none" THEN {"IN"} ELSE {"OUT"}

\* Clients become cs, gone are the descriptors given up, and the clients whose
\* needs have changed are asked for anew.
Shrinks(cs, gone, asks) ==
  /\ DOMAIN asks \subseteq DOMAIN cs /\ DOMAIN cs \subseteq DOMAIN clients
  /\ \A f \in DOMAIN cs :
       LET c == clients[f]
           d == cs[f]
       IN /\ d \in ClientState
          /\ d.cgiPid \in {None, c.cgiPid}
          /\ d.cgiInputFd \in {None, c.cgiInputFd}
          /\ d.cgiOutputFd \in {None, c.cgiOutputFd}
          /\ d.cgiPid = None => d.cgiInputFd = None /\ d.cgiOutputFd = None
          /\ d.cgiPid # None => d.output = "none"
          /\ d.cgiPid # c.cgiPid \/ c.output # "none" => d.output # "none"
          /\ IF f \in DOMAIN asks THEN asks[f] = WantedOf(d)
             ELSE WantedOf(d) = WantedOf(c)
  /\ gone = (DOMAIN clients \ DOMAIN cs)
             \cup {fd \in DOMAIN cgiInputOwners :
                    \/ cgiInputOwners[fd] \notin DOMAIN cs
                    \/ cs[cgiInputOwners[fd]].cgiInputFd = None}
             \cup {fd \in DOMAIN cgiOutputOwners :
                    \/ cgiOutputOwners[fd] \notin DOMAIN cs
                    \/ cs[cgiOutputOwners[fd]].cgiOutputFd = None}

\* Clients and pipes have different descriptors.
LEMMA KindsDiffer ==
  ASSUME ClientInv, FilesInv
  PROVE  /\ Listener \notin DOMAIN clients
         /\ Listener \notin DOMAIN cgiInputOwners /\ Listener \notin DOMAIN cgiOutputOwners
         /\ \A fd \in DOMAIN clients :
              fd \notin DOMAIN cgiInputOwners /\ fd \notin DOMAIN cgiOutputOwners
         /\ \A fd \in DOMAIN cgiInputOwners : fd \notin DOMAIN cgiOutputOwners
BY DEF ClientInv, FilesInv

LEMMA ShrinkClients ==
  ASSUME ClientInv, NEW cs, NEW gone, NEW asks, Shrinks(cs, gone, asks), clients' = cs
  PROVE  ClientInv'
BY DEF ClientInv, Shrinks

LEMMA ShrinkFiles ==
  ASSUME ClientInv, FilesInv, NEW cs, NEW gone, NEW asks, Shrinks(cs, gone, asks),
         clients' = cs, Close(gone)
  PROVE  FilesInv'
<1>1. /\ DOMAIN files' = DOMAIN files \ gone
      /\ DOMAIN cgiInputOwners' = DOMAIN cgiInputOwners \ gone
      /\ DOMAIN cgiOutputOwners' = DOMAIN cgiOutputOwners \ gone
      /\ \A fd \in DOMAIN files' : files'[fd] = files[fd]
      /\ \A fd \in DOMAIN cgiInputOwners' : cgiInputOwners'[fd] = cgiInputOwners[fd]
      /\ \A fd \in DOMAIN cgiOutputOwners' : cgiOutputOwners'[fd] = cgiOutputOwners[fd]
  BY DEF Close, Drop, Restrict
<1>2. /\ \A fd \in DOMAIN clients : fd \notin gone <=> fd \in DOMAIN cs
      /\ Listener \notin gone
  BY KindsDiffer DEF Shrinks
<1>3. \A fd \in DOMAIN cgiInputOwners : fd \notin gone <=>
        cgiInputOwners[fd] \in DOMAIN cs /\ cs[cgiInputOwners[fd]].cgiInputFd # None
  BY KindsDiffer DEF Shrinks
<1>4. \A fd \in DOMAIN cgiOutputOwners : fd \notin gone <=>
        cgiOutputOwners[fd] \in DOMAIN cs /\ cs[cgiOutputOwners[fd]].cgiOutputFd # None
  BY KindsDiffer DEF Shrinks
<1>5. DOMAIN cs \subseteq DOMAIN clients
  BY DEF Shrinks
<1>6. /\ DOMAIN files' = {Listener} \cup DOMAIN clients' \cup DOMAIN cgiInputOwners'
                           \cup DOMAIN cgiOutputOwners'
      /\ DOMAIN files' \subseteq Descriptors /\ files'[Listener] = <<"listener", None>>
  BY <1>1, <1>2, <1>5 DEF FilesInv
<1>7. ASSUME NEW f \in DOMAIN cs
      PROVE  LET c == cs[f]
             IN /\ files'[f] = <<"client", None>>
                /\ c.cgiInputFd # None => c.cgiInputFd \in DOMAIN cgiInputOwners'
                                           /\ cgiInputOwners'[c.cgiInputFd] = f
                /\ c.cgiOutputFd # None => c.cgiOutputFd \in DOMAIN cgiOutputOwners'
                                            /\ cgiOutputOwners'[c.cgiOutputFd] = f
  <2> DEFINE c == cs[f]
  <2>1. /\ f \in DOMAIN clients /\ f \in DOMAIN files'
        /\ c.cgiInputFd \in {None, clients[f].cgiInputFd}
        /\ c.cgiOutputFd \in {None, clients[f].cgiOutputFd}
    BY <1>5, <1>6, <1>7 DEF Shrinks
  <2>2. files'[f] = <<"client", None>>
    BY <1>1, <2>1 DEF FilesInv
  <2>3. ASSUME c.cgiInputFd # None
        PROVE  /\ c.cgiInputFd \in DOMAIN cgiInputOwners'
               /\ cgiInputOwners'[c.cgiInputFd] = f
    <3>1. c.cgiInputFd \in DOMAIN cgiInputOwners /\ cgiInputOwners[c.cgiInputFd] = f
      BY <2>1, <2>3 DEF FilesInv
    <3> QED
      BY <1>1, <1>3, <1>7, <2>3, <3>1
  <2>4. ASSUME c.cgiOutputFd # None
        PROVE  /\ c.cgiOutputFd \in DOMAIN cgiOutputOwners'
               /\ cgiOutputOwners'[c.cgiOutputFd] = f
    <3>1. c.cgiOutputFd \in DOMAIN cgiOutputOwners /\ cgiOutputOwners[c.cgiOutputFd] = f
      BY <2>1, <2>4 DEF FilesInv
    <3> QED
      BY <1>1, <1>4, <1>7, <2>4, <3>1
  <2> QED
    BY <2>2, <2>3, <2>4
<1>8. ASSUME NEW fd \in DOMAIN cgiInputOwners'
      PROVE  LET f == cgiInputOwners'[fd]
             IN /\ f \in DOMAIN cs /\ cs[f].cgiInputFd = fd
                /\ files'[fd] = <<"stdin", cs[f].cgiPid>>
  <2> DEFINE f == cgiInputOwners[fd]
  <2>1. /\ fd \in DOMAIN cgiInputOwners /\ fd \notin gone /\ fd \in DOMAIN files'
        /\ cgiInputOwners'[fd] = f
    BY <1>1, <1>6, <1>8
  <2>2. f \in DOMAIN cs /\ cs[f].cgiInputFd # None
    BY <1>3, <2>1
  <2>3. clients[f].cgiInputFd = fd /\ files[fd] = <<"stdin", clients[f].cgiPid>>
    BY <2>1 DEF FilesInv
  <2>4. cs[f].cgiInputFd = fd /\ cs[f].cgiPid = clients[f].cgiPid
    BY <2>2, <2>3 DEF Shrinks
  <2> QED
    BY <1>1, <2>1, <2>2, <2>3, <2>4
<1>9. ASSUME NEW fd \in DOMAIN cgiOutputOwners'
      PROVE  LET f == cgiOutputOwners'[fd]
             IN /\ f \in DOMAIN cs /\ cs[f].cgiOutputFd = fd
                /\ files'[fd] = <<"stdout", cs[f].cgiPid>>
  <2> DEFINE f == cgiOutputOwners[fd]
  <2>1. /\ fd \in DOMAIN cgiOutputOwners /\ fd \notin gone /\ fd \in DOMAIN files'
        /\ cgiOutputOwners'[fd] = f
    BY <1>1, <1>6, <1>9
  <2>2. f \in DOMAIN cs /\ cs[f].cgiOutputFd # None
    BY <1>4, <2>1
  <2>3. clients[f].cgiOutputFd = fd /\ files[fd] = <<"stdout", clients[f].cgiPid>>
    BY <2>1 DEF FilesInv
  <2>4. cs[f].cgiOutputFd = fd /\ cs[f].cgiPid = clients[f].cgiPid
    BY <2>2, <2>3 DEF Shrinks
  <2> QED
    BY <1>1, <2>1, <2>2, <2>3, <2>4
<1> QED
  BY <1>6, <1>7, <1>8, <1>9 DEF FilesInv

\* How the entries of a new table are those left of the old one: at[n] is the
\* place where entry n was.
Places(table, gone) == {j \in 1..Len(table) : table[j].fd \notin gone}
Came(at, table, gone, asks, new) ==
  /\ at \in [1..Len(new) -> Places(table, gone)]
  /\ \A n \in 1..Len(new) :
       LET e == table[at[n]]
       IN /\ new[n].fd = e.fd /\ new[n].revents = e.revents
          /\ new[n].events = IF e.fd \in DOMAIN asks THEN asks[e.fd] ELSE e.events
  /\ \A a, b \in 1..Len(new) : at[a] = at[b] => a = b
  /\ \A j \in Places(table, gone) : \E n \in 1..Len(new) : at[n] = j

\* removePollFd() and the new masks.
LEMMA NewTableIs ==
  ASSUME NEW table \in Seq(PollEntry), NEW gone, NEW asks,
         \A f \in DOMAIN asks : asks[f] \in SUBSET {"IN", "OUT"},
         NEW result, result = NewTable(table, gone, asks)
  PROVE  result \in Seq(PollEntry) /\ \E at : Came(at, table, gone, asks, result)
<1> DEFINE left == Places(table, gone)
           kept == Subsequence(table, left)
           new == WithEvents(kept, asks)
<1>1. WithoutFds(table, gone) = kept /\ left \in SUBSET (1..Len(table))
  <2>1. DOMAIN table = 1..Len(table)
    OBVIOUS
  <2> QED
    BY <2>1 DEF WithoutFds, Places
<1> HIDE DEF left
<1>2. PICK at \in [1..Cardinality(left) -> left] :
        /\ kept = [n \in 1..Cardinality(left) |-> table[at[n]]]
        /\ \A a, b \in 1..Cardinality(left) : at[a] = at[b] => a = b
        /\ \A j \in left : \E n \in 1..Cardinality(left) : at[n] = j
        /\ kept \in Seq(PollEntry) /\ Len(kept) = Cardinality(left)
  BY <1>1, SubsequenceIs
<1> HIDE DEF kept
<1>a. kept \in Seq(PollEntry)
  BY <1>2
<1>3. DOMAIN kept = 1..Len(kept) /\ \A n \in 1..Len(kept) : kept[n] \in PollEntry
  BY <1>a
<1>4. /\ DOMAIN new = 1..Len(kept)
      /\ \A n \in 1..Len(kept) :
           /\ new[n] \in PollEntry
           /\ new[n].fd = kept[n].fd /\ new[n].revents = kept[n].revents
           /\ new[n].events = IF kept[n].fd \in DOMAIN asks THEN asks[kept[n].fd]
                              ELSE kept[n].events
  BY <1>3 DEF WithEvents, PollEntry
<1>5. new \in Seq(PollEntry) /\ Len(new) = Len(kept)
  <2>1. Len(kept) \in Nat
    BY <1>a
  <2>2. new = [n \in 1..Len(kept) |-> new[n]]
    BY <1>3, <1>4 DEF WithEvents
  <2> HIDE DEF new
  <2> QED
    BY <2>1, <2>2, <1>4
<1>6. NewTable(table, gone, asks) = new
  BY <1>1 DEF NewTable
<1> HIDE DEF new
<1>7. \A n \in 1..Len(new) : kept[n] = table[at[n]]
  BY <1>2, <1>5
<1>8. at \in [1..Len(new) -> left]
  BY <1>2, <1>5
<1>9. Came(at, table, gone, asks, new)
  BY ZenonT(60), <1>2, <1>4, <1>5, <1>7, <1>8 DEF Came, left
<1> QED
  BY <1>5, <1>6, <1>9

LEMMA ShrinkTable ==
  ASSUME ClientInv, FilesInv, NEW cs, NEW gone, NEW asks, Shrinks(cs, gone, asks),
         clients' = cs, Close(gone),
         NEW table, TableOK(table), NEW new, new = NewTable(table, gone, asks)
  PROVE  TableOK(new)'
<1>0. FilesInv' /\ ClientInv'
  BY ShrinkFiles, ShrinkClients
<1>1. \A f \in DOMAIN asks : asks[f] \in SUBSET {"IN", "OUT"}
  BY DEF Shrinks, WantedOf
<1>2. new \in Seq(PollEntry) /\ \E at : Came(at, table, gone, asks, new)
  <2>1. table \in Seq(PollEntry)
    BY DEF TableOK
  <2> QED
    BY <1>1, <2>1, NewTableIs
<1>3. PICK at : Came(at, table, gone, asks, new)
  BY <1>2
<1>4. DOMAIN files' = DOMAIN files \ gone
  BY DEF Close, Drop, Restrict
<1>5. \A fd \in DOMAIN files' :
        Wanted(fd)' = IF fd \in DOMAIN asks THEN asks[fd] ELSE Wanted(fd)
  <2> TAKE fd \in DOMAIN files'
  <2>1. CASE fd \in DOMAIN clients
    <3>1. fd \in DOMAIN cs
      BY <2>1, <1>4 DEF Shrinks
    <3> QED
      BY <2>1, <3>1 DEF Shrinks, Wanted, WantedOf
  <2>2. CASE fd \notin DOMAIN clients
    <3>1. fd \notin DOMAIN cs /\ fd \notin DOMAIN asks
      BY <2>2 DEF Shrinks
    <3>2. fd \in DOMAIN cgiInputOwners' <=> fd \in DOMAIN cgiInputOwners
      BY <1>4 DEF Close, Drop, Restrict
    <3> QED
      BY <2>2, <3>1, <3>2 DEF Wanted
  <2> QED
    BY <2>1, <2>2
<1>6. \A n \in 1..Len(new) :
        at[n] \in 1..Len(table) /\ table[at[n]].fd \notin gone /\ new[n].fd = table[at[n]].fd
  BY <1>3 DEF Came, Places
<1>7. \A n \in 1..Len(new) :
        new[n].fd \in DOMAIN files' /\ new[n].events = Wanted(new[n].fd)'
  <2> TAKE n \in 1..Len(new)
  <2> DEFINE e == table[at[n]]
  <2>1. e.fd \in DOMAIN files /\ e.events = Wanted(e.fd)
    BY <1>6 DEF TableOK
  <2>2. new[n].fd = e.fd /\ e.fd \in DOMAIN files'
    BY <1>4, <1>6, <2>1
  <2>3. new[n].events = IF e.fd \in DOMAIN asks THEN asks[e.fd] ELSE e.events
    BY <1>3 DEF Came
  <2>4. Wanted(e.fd)' = IF e.fd \in DOMAIN asks THEN asks[e.fd] ELSE Wanted(e.fd)
    BY <1>5, <2>2
  <2>5. Wanted(new[n].fd)' = Wanted(e.fd)'
    BY <2>2 DEF Wanted
  <2> QED
    BY <2>1, <2>2, <2>3, <2>4, <2>5
<1>8. \A a, b \in 1..Len(new) : new[a].fd = new[b].fd => a = b
  <2> TAKE a, b \in 1..Len(new)
  <2> HAVE new[a].fd = new[b].fd
  <2>1. at[a] \in 1..Len(table) /\ at[b] \in 1..Len(table) /\ table[at[a]].fd = table[at[b]].fd
    BY <1>6
  <2>2. at[a] = at[b]
    BY <2>1 DEF TableOK
  <2> QED
    BY <2>2, <1>3 DEF Came
<1>9. \A fd \in DOMAIN files' : \E n \in 1..Len(new) : new[n].fd = fd
  <2> TAKE fd \in DOMAIN files'
  <2>1. PICK j \in 1..Len(table) : table[j].fd = fd
    BY <1>4 DEF TableOK
  <2>2. j \in Places(table, gone)
    BY <1>4, <2>1 DEF Places
  <2>3. PICK n \in 1..Len(new) : at[n] = j
    BY <2>2, <1>3 DEF Came
  <2> QED
    BY <2>1, <2>3, <1>6
<1> QED
  BY <1>2, <1>7, <1>8, <1>9 DEF TableOK

LEMMA SeenTable ==
  ASSUME TableOK(pollfds), NEW k \in 1..Len(pollfds)
  PROVE  /\ TableOK(Seen(k)) /\ Len(Seen(k)) = Len(pollfds)
         /\ \A j \in 1..Len(pollfds) :
              /\ Seen(k)[j].fd = pollfds[j].fd /\ Seen(k)[j].events = pollfds[j].events
              /\ Seen(k)[j].revents = IF j = k THEN {} ELSE pollfds[j].revents
<1> DEFINE new == Seen(k)
<1>0. pollfds \in Seq(PollEntry)
  BY DEF TableOK
<1>a. /\ pollfds = [j \in 1..Len(pollfds) |-> pollfds[j]]
      /\ \A j \in 1..Len(pollfds) : pollfds[j] \in PollEntry
  BY <1>0
<1>1. /\ DOMAIN new = 1..Len(pollfds) /\ Len(pollfds) \in Nat
      /\ \A j \in 1..Len(pollfds) :
           /\ new[j] \in PollEntry
           /\ new[j].fd = pollfds[j].fd /\ new[j].events = pollfds[j].events
           /\ new[j].revents = IF j = k THEN {} ELSE pollfds[j].revents
  BY <1>0, <1>a DEF Seen, PollEntry
<1>2. new = [j \in 1..Len(pollfds) |-> new[j]]
  BY <1>a DEF Seen
<1> HIDE DEF new
<1>3. new \in Seq(PollEntry) /\ Len(new) = Len(pollfds)
  BY <1>1, <1>2
<1>4. \A j \in 1..Len(new) : Wanted(new[j].fd) = Wanted(pollfds[j].fd)
  BY <1>1, <1>3 DEF Wanted
<1>5. /\ \A j \in 1..Len(pollfds) :
           pollfds[j].fd \in DOMAIN files /\ pollfds[j].events = Wanted(pollfds[j].fd)
      /\ \A j, m \in 1..Len(pollfds) : pollfds[j].fd = pollfds[m].fd => j = m
      /\ \A fd \in DOMAIN files : \E j \in 1..Len(pollfds) : pollfds[j].fd = fd
  BY DEF TableOK
<1>6. TableOK(new)
  BY SMTT(30), <1>1, <1>3, <1>4, <1>5 DEF TableOK
<1> QED
  BY <1>1, <1>3, <1>6 DEF new

\* Fewer clients keep the limits.
LEMMA ShrinkLimits ==
  ASSUME ClientInv, LimitsInv, DOMAIN clients' \subseteq DOMAIN clients,
         RunningCgi' \subseteq RunningCgi
  PROVE  LimitsInv'
<1>1. DOMAIN clients \subseteq Sockets /\ RunningCgi \subseteq DOMAIN clients
  BY DEF ClientInv, RunningCgi
<1>2. IsFiniteSet(Sockets)
  <2>1. LastDescriptor \in Int
    BY WebservAssumption DEF WebservAssumption
  <2>2. IsFiniteSet(1..LastDescriptor)
    BY <2>1, FS_Interval
  <2> QED
    BY <2>2 DEF Sockets
<1>3. IsFiniteSet(DOMAIN clients) /\ IsFiniteSet(RunningCgi)
  BY <1>1, <1>2, FS_Subset
<1>4. /\ Cardinality(DOMAIN clients') <= Cardinality(DOMAIN clients)
      /\ Cardinality(RunningCgi') <= Cardinality(RunningCgi)
      /\ IsFiniteSet(DOMAIN clients') /\ IsFiniteSet(RunningCgi')
  BY <1>3, FS_Subset
<1>5. /\ Cardinality(DOMAIN clients) \in Nat /\ Cardinality(RunningCgi) \in Nat
      /\ Cardinality(DOMAIN clients') \in Nat /\ Cardinality(RunningCgi') \in Nat
  BY <1>3, <1>4, FS_CardinalityType
<1> QED
  BY <1>4, <1>5, WebservAssumption DEF LimitsInv, WebservAssumption

\* A handler called for entry k asks anew only its own client, or one whose
\* script is over and which was watched for nothing.
AsksOwn(k, asks) ==
  \A f \in DOMAIN asks : f = pollfds[k].fd \/ clients[f].cgiPid # None

\* It leaves the output of other clients' scripts alone.
OutputsStay(k) ==
  \A fd \in DOMAIN cgiOutputOwners' : fd # pollfds[k].fd =>
    LET old == scripts[clients[cgiOutputOwners[fd]].cgiPid]
        new == scripts'[clients'[cgiOutputOwners[fd]].cgiPid]
    IN new.data = old.data /\ new.writer = old.writer

LEMMA DoneReport ==
  ASSUME ClientInv, FilesInv, TableOK(pollfds), ReportOK(pollfds),
         NEW k \in 1..Len(pollfds), NEW cs, NEW gone, NEW asks,
         Shrinks(cs, gone, asks), Done(k, cs, gone, asks),
         AsksOwn(k, asks), OutputsStay(k)
  PROVE  ReportOK(pollfds)'
<1>0. clients' = cs /\ Close(gone) /\ pollfds' = NewTable(Seen(k), gone, asks)
  BY DEF Done, GoOn
<1>1. TableOK(Seen(k)) /\ Seen(k) \in Seq(PollEntry)
  BY SeenTable DEF TableOK
<1>2. \A f \in DOMAIN asks : asks[f] \in SUBSET {"IN", "OUT"}
  BY DEF Shrinks, WantedOf
<1>3. PICK at : Came(at, Seen(k), gone, asks, pollfds')
  BY <1>0, <1>1, <1>2, NewTableIs
<1>4. DOMAIN cgiOutputOwners' \subseteq DOMAIN cgiOutputOwners
      /\ \A fd \in DOMAIN cgiOutputOwners' : cgiOutputOwners'[fd] = cgiOutputOwners[fd]
  BY <1>0 DEF Close, Drop, Restrict
<1> SUFFICES ASSUME NEW n \in 1..Len(pollfds')
             PROVE  /\ pollfds'[n].fd \in DOMAIN clients' =>
                         pollfds'[n].revents \subseteq pollfds'[n].events \cup {"ERR"}
                    /\ pollfds'[n].fd \in DOMAIN cgiOutputOwners' /\ pollfds'[n].revents # {} =>
                         LET script == scripts'[clients'[cgiOutputOwners'[pollfds'[n].fd]].cgiPid]
                         IN script.data \/ ~script.writer
  BY DEF ReportOK
<1> DEFINE e == pollfds[at[n]]
<1>5. /\ at[n] \in 1..Len(pollfds) /\ pollfds'[n].fd = e.fd
      /\ pollfds'[n].revents = IF at[n] = k THEN {} ELSE e.revents
      /\ pollfds'[n].events = IF e.fd \in DOMAIN asks THEN asks[e.fd] ELSE e.events
  <2>1. /\ Len(Seen(k)) = Len(pollfds)
        /\ \A j \in 1..Len(pollfds) :
             /\ Seen(k)[j].fd = pollfds[j].fd /\ Seen(k)[j].events = pollfds[j].events
             /\ Seen(k)[j].revents = IF j = k THEN {} ELSE pollfds[j].revents
    BY SeenTable
  <2>2. at[n] \in 1..Len(Seen(k))
    BY <1>3 DEF Came, Places
  <2>3. LET d == Seen(k)[at[n]]
        IN /\ pollfds'[n].fd = d.fd /\ pollfds'[n].revents = d.revents
           /\ pollfds'[n].events = IF d.fd \in DOMAIN asks THEN asks[d.fd] ELSE d.events
    BY <1>3 DEF Came
  <2> QED
    BY <2>1, <2>2, <2>3
<1>6. e.events = Wanted(e.fd) /\ (at[n] # k => e.fd # pollfds[k].fd)
  BY <1>5 DEF TableOK
<1>7. ASSUME e.fd \in DOMAIN clients', at[n] # k
      PROVE  pollfds'[n].revents \subseteq pollfds'[n].events \cup {"ERR"}
  <2>1. e.fd \in DOMAIN clients
    BY <1>0, <1>7 DEF Shrinks
  <2>2. e.revents \subseteq e.events \cup {"ERR"}
    BY <1>5, <2>1 DEF ReportOK
  <2>3. CASE e.fd \in DOMAIN asks
    <3>1. e.events = {}
      BY <2>1, <2>3, <1>6, <1>7 DEF AsksOwn, Wanted
    <3> QED
      BY <2>2, <3>1, <1>5, <1>7
  <2> QED
    BY <2>2, <2>3, <1>5, <1>7
<1>8. ASSUME e.fd \in DOMAIN cgiOutputOwners', at[n] # k, e.revents # {}
      PROVE  LET script == scripts'[clients'[cgiOutputOwners'[e.fd]].cgiPid]
             IN script.data \/ ~script.writer
  <2>1. /\ e.fd \in DOMAIN cgiOutputOwners /\ e.fd # pollfds[k].fd
        /\ cgiOutputOwners'[e.fd] = cgiOutputOwners[e.fd]
    BY <1>4, <1>6, <1>8
  <2>2. LET old == scripts[clients[cgiOutputOwners[e.fd]].cgiPid]
        IN old.data \/ ~old.writer
    BY <1>5, <1>8, <2>1 DEF ReportOK
  <2>3. LET old == scripts[clients[cgiOutputOwners[e.fd]].cgiPid]
            new == scripts'[clients'[cgiOutputOwners[e.fd]].cgiPid]
        IN new.data = old.data /\ new.writer = old.writer
    BY <1>8, <2>1 DEF OutputsStay
  <2> QED
    BY <2>1, <2>2, <2>3
<1> QED
  BY <1>5, <1>7, <1>8

\* The scripts left are those of the clients left, and a script whose output is
\* closed has nothing more to say.
ScriptsFollow(cs) ==
  /\ DOMAIN scripts' =
       DOMAIN scripts \ {clients[f].cgiPid :
                           f \in {g \in RunningCgi : g \in DOMAIN cs => cs[g].cgiPid = None}}
  /\ \A pid \in DOMAIN scripts' : scripts'[pid] \in Script
  /\ \A f \in DOMAIN cs : cs[f].cgiPid # None /\ cs[f].cgiOutputFd = None =>
       ~scripts'[cs[f].cgiPid].data /\ ~scripts'[cs[f].cgiPid].writer

LEMMA ShrinkScripts ==
  ASSUME ClientInv, ScriptsInv, NEW cs, NEW gone, NEW asks, Shrinks(cs, gone, asks),
         clients' = cs, ScriptsFollow(cs)
  PROVE  ScriptsInv' /\ RunningCgi' \subseteq RunningCgi
<1> DEFINE over == {g \in RunningCgi : g \in DOMAIN cs => cs[g].cgiPid = None}
<1>1. /\ DOMAIN scripts = {clients[f].cgiPid : f \in RunningCgi}
      /\ \A f, g \in RunningCgi : clients[f].cgiPid = clients[g].cgiPid => f = g
  BY DEF ScriptsInv, ChildrenExact
<1>2. RunningCgi' = RunningCgi \ over /\ \A f \in RunningCgi' : cs[f].cgiPid = clients[f].cgiPid
  BY DEF RunningCgi, Shrinks
<1>3. DOMAIN scripts' = {clients[f].cgiPid : f \in RunningCgi \ over}
  BY <1>1 DEF ScriptsFollow
<1>4. DOMAIN scripts' = {cs[f].cgiPid : f \in RunningCgi'}
  BY <1>2, <1>3
<1>5. ChildrenExact'
  BY <1>1, <1>2, <1>4 DEF ChildrenExact
<1>6. OutputInv'
  BY DEF OutputInv, RunningCgi, ScriptsFollow
<1>7. DOMAIN scripts' \subseteq Pids /\ \A pid \in DOMAIN scripts' : scripts'[pid] \in Script
  BY DEF ScriptsFollow, ScriptsInv
<1> QED
  BY <1>2, <1>5, <1>6, <1>7 DEF ScriptsInv

(***************************************************************************)
(* The abstract life of a request                                          *)
(***************************************************************************)

conn == [f \in Descriptors |-> LifeOf(f)]

LifeIs ==
  \A f \in Descriptors :
    conn[f] = IF f \notin DOMAIN clients THEN "closed"
              ELSE IF f \in RunningCgi THEN "running"
              ELSE IF clients[f].output = "none" THEN "reading" ELSE "answering"

LEMMA LifeOfTables == ClientInv /\ ScriptsInv => LifeIs
<1> SUFFICES ASSUME ClientInv, ScriptsInv PROVE LifeIs
  OBVIOUS
<1>1. None \notin Pids
  BY WebservAssumption DEF WebservAssumption, None
<1>2. ASSUME NEW f \in DOMAIN clients
      PROVE  clients[f].cgiPid \in DOMAIN scripts <=> f \in RunningCgi
  BY <1>1, <1>2 DEF ScriptsInv, ChildrenExact, RunningCgi
<1> QED
  BY <1>2 DEF conn, LifeOf, LifeIs

\* RequestLife counts by the definition of its own instance.
LEMMA LifeCounts == \A S : Life!Cardinality(S) = Cardinality(S)
BY DEF Life!Cardinality, Cardinality

\* Answers and ends in one step of the loop are a step of RequestLife.
LEMMA ShrinkLife ==
  ASSUME ClientInv, ScriptsInv, NEW cs, NEW gone, NEW asks, Shrinks(cs, gone, asks),
         clients' = cs, ClientInv', ScriptsInv'
  PROVE  Life!Settle
<1> DEFINE ended == DOMAIN clients \ DOMAIN cs
           answered == {f \in DOMAIN cs : conn[f] \in {"reading", "running"}
                                          /\ conn'[f] = "answering"}
<1>0. DOMAIN cs \subseteq DOMAIN clients /\ DOMAIN clients \subseteq Descriptors
  BY DEF Shrinks, ClientInv, Sockets, Descriptors
<1>1. LifeIs
  BY LifeOfTables
<1>2. LifeIs'
  BY LifeOfTables, PTL
<1>3. answered \in SUBSET (Life!In("reading") \cup Life!In("running"))
  BY <1>0 DEF Life!In, conn
<1>4. ended \in SUBSET (Life!Open \ answered)
  BY <1>0, <1>1 DEF Life!Open, Life!In, conn, LifeIs
<1>5. conn' = [f \in Descriptors |-> IF f \in ended THEN "closed"
                          ELSE IF f \in answered THEN "answering" ELSE conn[f]]
  <2>1. \A f \in Descriptors :
          conn'[f] = IF f \in ended THEN "closed"
                     ELSE IF f \in answered THEN "answering" ELSE conn[f]
    BY <1>0, <1>1, <1>2 DEF Shrinks, RunningCgi, LifeIs
  <2> QED
    BY <2>1 DEF conn
<1> QED
  BY <1>3, <1>4, <1>5 DEF Life!Settle, conn

(***************************************************************************)
(* The handlers                                                            *)
(***************************************************************************)

\* What a step of the scan must do.
Whole ==
  \A f \in RunningCgi :
    (f \in DOMAIN clients' /\ clients'[f].output = "cgi") =>
       LET script == scripts[clients[f].cgiPid]
       IN /\ script.state = "ok"
          /\ \/ ~script.data /\ ~script.writer
             \/ clients[f].cgiOutput = OutputLimit /\ script.data
Keeps == WebInv' /\ [Life!Next]_conn /\ Whole

LEMMA DoneKeeps ==
  ASSUME UpInv, pc = "scan", NEW k \in 1..Len(pollfds), NEW cs, NEW gone, NEW asks,
         Shrinks(cs, gone, asks), Done(k, cs, gone, asks),
         AsksOwn(k, asks), OutputsStay(k), ScriptsFollow(cs)
  PROVE  WebInv' /\ [Life!Next]_conn
<1>0. /\ clients' = cs /\ Close(gone) /\ pollfds' = NewTable(Seen(k), gone, asks)
      /\ pc' = pc /\ i' \in {k, k + 1}
  BY DEF Done, GoOn
<1>1. ClientInv /\ FilesInv /\ TableOK(pollfds) /\ ScriptsInv /\ LimitsInv /\ ReportOK(pollfds)
  BY DEF UpInv
<1>2. ClientInv' /\ FilesInv'
  BY <1>0, <1>1, ShrinkClients, ShrinkFiles
<1>3. TableOK(pollfds)'
  <2>1. TableOK(Seen(k))
    BY <1>1, SeenTable
  <2>2. PICK new : new = pollfds'
    OBVIOUS
  <2>3. TableOK(new)'
    BY <1>0, <1>1, <2>1, <2>2, ShrinkTable
  <2> QED
    BY <2>2, <2>3 DEF TableOK
<1>4. ScriptsInv' /\ RunningCgi' \subseteq RunningCgi
  BY <1>0, <1>1, ShrinkScripts
<1>5. LimitsInv'
  <2>1. DOMAIN clients' \subseteq DOMAIN clients
    BY <1>0 DEF Shrinks
  <2> QED
    BY <1>1, <1>4, <2>1, ShrinkLimits
<1>6. ReportOK(pollfds)'
  BY <1>1, DoneReport
<1>7. Life!Settle
  BY <1>0, <1>1, <1>2, <1>4, ShrinkLife
<1>8. i' \in Nat /\ i' > 0
  BY <1>0
<1> QED
  BY <1>0, <1>2, <1>3, <1>4, <1>5, <1>6, <1>7, <1>8 DEF UpInv, WebInv, Life!Next

\* A client finds exactly its own pipes.
LEMMA PipesOf ==
  ASSUME ClientInv, FilesInv
  PROVE  /\ \A f \in DOMAIN clients : \A fd \in DOMAIN cgiInputOwners :
              cgiInputOwners[fd] = f <=> fd = clients[f].cgiInputFd
         /\ \A f \in DOMAIN clients : \A fd \in DOMAIN cgiOutputOwners :
              cgiOutputOwners[fd] = f <=> fd = clients[f].cgiOutputFd
         /\ \A f \in DOMAIN clients :
              /\ clients[f].cgiInputFd # None <=> clients[f].cgiInputFd \in DOMAIN cgiInputOwners
              /\ clients[f].cgiOutputFd # None <=>
                   clients[f].cgiOutputFd \in DOMAIN cgiOutputOwners
         /\ None \notin DOMAIN cgiInputOwners /\ None \notin DOMAIN cgiOutputOwners
         /\ \A fd \in DOMAIN cgiInputOwners : cgiInputOwners[fd] \in RunningCgi
         /\ \A fd \in DOMAIN cgiOutputOwners : cgiOutputOwners[fd] \in RunningCgi
<1>1. None \notin Descriptors
  BY DEF None, Descriptors
<1>2. DOMAIN cgiInputOwners \subseteq Descriptors /\ DOMAIN cgiOutputOwners \subseteq Descriptors
  BY DEF FilesInv
<1> QED
  BY <1>1, <1>2 DEF ClientInv, FilesInv, RunningCgi

LEMMA ScriptOf ==
  ASSUME ScriptsInv
  PROVE  /\ \A f \in RunningCgi : /\ clients[f].cgiPid \in DOMAIN scripts
                                  /\ scripts[clients[f].cgiPid] \in Script
         /\ \A f, g \in RunningCgi : clients[f].cgiPid = clients[g].cgiPid => f = g
BY DEF ScriptsInv, ChildrenExact

\* closeClient(), whoever calls it.
LEMMA CloseKeeps ==
  ASSUME UpInv, pc = "scan", NEW k \in 1..Len(pollfds), NEW f \in DOMAIN clients,
         CloseClient(k, f)
  PROVE  Keeps
<1> DEFINE cs == Drop(clients, {f})
           gone == {f} \cup Pipes(clients[f])
<1>0. ClientInv /\ FilesInv /\ ScriptsInv
  BY DEF UpInv
<1>1. DOMAIN cs = DOMAIN clients \ {f} /\ \A g \in DOMAIN cs : cs[g] = clients[g]
  BY DEF Drop, Restrict
<1>2. DOMAIN <<>> = {}
  OBVIOUS
<1> HIDE DEF cs
<1>3. gone = (DOMAIN clients \ DOMAIN cs)
             \cup {fd \in DOMAIN cgiInputOwners :
                    \/ cgiInputOwners[fd] \notin DOMAIN cs
                    \/ cs[cgiInputOwners[fd]].cgiInputFd = None}
             \cup {fd \in DOMAIN cgiOutputOwners :
                    \/ cgiOutputOwners[fd] \notin DOMAIN cs
                    \/ cs[cgiOutputOwners[fd]].cgiOutputFd = None}
  BY <1>0, <1>1, PipesOf DEF Pipes, RunningCgi
<1>4. Shrinks(cs, gone, <<>>)
  BY <1>0, <1>1, <1>2, <1>3 DEF Shrinks, ClientInv
<1>5. Done(k, cs, gone, <<>>) /\ scripts' = Drop(scripts, ChildOf(clients[f]))
  BY DEF CloseClient, cs
<1>6. /\ DOMAIN scripts' = DOMAIN scripts \ ChildOf(clients[f])
      /\ \A pid \in DOMAIN scripts' : scripts'[pid] = scripts[pid]
  BY <1>5 DEF Drop, Restrict
<1>7. ScriptsFollow(cs)
  <2>1. {clients[g].cgiPid : g \in {h \in RunningCgi : h \in DOMAIN cs => cs[h].cgiPid = None}}
          = ChildOf(clients[f])
    BY <1>1 DEF RunningCgi, ChildOf
  <2>2. \A g \in DOMAIN cs : cs[g].cgiPid # None =>
          g \in RunningCgi /\ cs[g].cgiPid \in DOMAIN scripts'
    BY <1>0, <1>1, <1>6, ScriptOf DEF RunningCgi, ChildOf
  <2>3. \A g \in DOMAIN cs : cs[g].cgiPid # None /\ cs[g].cgiOutputFd = None =>
          ~scripts'[cs[g].cgiPid].data /\ ~scripts'[cs[g].cgiPid].writer
    BY <1>0, <1>1, <1>6, <2>2 DEF ScriptsInv, OutputInv
  <2> QED
    BY <1>0, <1>6, <2>1, <2>3 DEF ScriptsFollow, ScriptsInv
<1>8. OutputsStay(k)
  <2> SUFFICES ASSUME NEW fd \in DOMAIN cgiOutputOwners'
               PROVE  LET g == cgiOutputOwners[fd]
                      IN scripts'[clients'[g].cgiPid] = scripts[clients[g].cgiPid]
    BY DEF OutputsStay
  <2>1. fd \in DOMAIN cgiOutputOwners /\ fd \notin gone
    BY <1>5 DEF Done, Close, Drop, Restrict
  <2>2. cgiOutputOwners[fd] \in RunningCgi /\ cgiOutputOwners[fd] \in DOMAIN cs
    BY <1>0, <1>3, <2>1, PipesOf
  <2>3. clients'[cgiOutputOwners[fd]] = clients[cgiOutputOwners[fd]]
    BY <1>1, <1>5, <2>2 DEF Done
  <2>4. clients[cgiOutputOwners[fd]].cgiPid \in DOMAIN scripts'
    BY <1>0, <1>1, <1>6, <2>2, ScriptOf DEF RunningCgi, ChildOf
  <2> QED
    BY <1>6, <2>3, <2>4
<1>9. AsksOwn(k, <<>>)
  BY <1>2 DEF AsksOwn
<1>10. WebInv' /\ [Life!Next]_conn
  BY <1>4, <1>5, <1>7, <1>8, <1>9, DoneKeeps
<1>11. Whole
  BY <1>0, <1>1, <1>5 DEF Whole, Done, ClientInv, RunningCgi
<1> QED
  BY <1>10, <1>11 DEF Keeps

\* What becomes of one client: its pipes and its script can only go, it is asked
\* anew when its needs change, and only what its script said is passed on.
Fits(f, d, gone, asks) ==
  LET c == clients[f]
  IN /\ d \in ClientState
     /\ d.cgiPid \in {None, c.cgiPid}
     /\ d.cgiInputFd \in {None, c.cgiInputFd} /\ d.cgiOutputFd \in {None, c.cgiOutputFd}
     /\ d.cgiPid = None => d.cgiInputFd = None /\ d.cgiOutputFd = None
     /\ d.cgiPid # None => d.output = "none"
     /\ d.cgiPid # c.cgiPid \/ c.output # "none" => d.output # "none"
     /\ \/ asks = <<>> /\ WantedOf(d) = WantedOf(c)
        \/ asks = Just(f, WantedOf(d))
     /\ gone = ({c.cgiInputFd} \ {d.cgiInputFd, None})
               \cup ({c.cgiOutputFd} \ {d.cgiOutputFd, None})

\* What becomes of its script, when entry k is looked at.
ScriptFits(k, f, d) ==
  LET pid == clients[f].cgiPid
  IN /\ DOMAIN scripts' = IF d.cgiPid = None THEN DOMAIN scripts \ {pid} ELSE DOMAIN scripts
     /\ \A p \in DOMAIN scripts' :
          scripts'[p] \in Script /\ (p # pid => scripts'[p] = scripts[p])
     /\ d.cgiPid # None =>
          /\ d.cgiOutputFd = None => ~scripts'[pid].data /\ ~scripts'[pid].writer
          /\ clients[f].cgiOutputFd # pollfds[k].fd =>
               /\ scripts'[pid].data = scripts[pid].data
               /\ scripts'[pid].writer = scripts[pid].writer
     /\ f \in RunningCgi /\ d.output = "cgi" =>
          /\ scripts[pid].state = "ok"
          /\ \/ ~scripts[pid].data /\ ~scripts[pid].writer
             \/ clients[f].cgiOutput = OutputLimit /\ scripts[pid].data

LEMMA OneShrinks ==
  ASSUME ClientInv, FilesInv, NEW f \in DOMAIN clients, NEW d, NEW gone, NEW asks,
         Fits(f, d, gone, asks), NEW cs, cs = [clients EXCEPT ![f] = d]
  PROVE  Shrinks(cs, gone, asks)
<1>1. DOMAIN cs = DOMAIN clients /\ cs[f] = d /\ \A g \in DOMAIN clients \ {f} : cs[g] = clients[g]
  OBVIOUS
<1>2. /\ asks = <<>> => DOMAIN asks = {}
      /\ asks = Just(f, WantedOf(d)) => DOMAIN asks = {f} /\ asks[f] = WantedOf(d)
  BY DEF Just
<1>3. \A fd \in DOMAIN cgiInputOwners :
        cs[cgiInputOwners[fd]].cgiInputFd = None <=> fd \in {clients[f].cgiInputFd} \ {d.cgiInputFd, None}
  BY <1>1, PipesOf DEF Fits, RunningCgi
<1>4. \A fd \in DOMAIN cgiOutputOwners :
        cs[cgiOutputOwners[fd]].cgiOutputFd = None <=> fd \in {clients[f].cgiOutputFd} \ {d.cgiOutputFd, None}
  BY <1>1, PipesOf DEF Fits, RunningCgi
<1>5. /\ \A fd \in DOMAIN cgiInputOwners : cgiInputOwners[fd] \in DOMAIN cs
      /\ \A fd \in DOMAIN cgiOutputOwners : cgiOutputOwners[fd] \in DOMAIN cs
  BY <1>1, PipesOf DEF RunningCgi
<1>6. gone = (DOMAIN clients \ DOMAIN cs)
             \cup {fd \in DOMAIN cgiInputOwners :
                    \/ cgiInputOwners[fd] \notin DOMAIN cs
                    \/ cs[cgiInputOwners[fd]].cgiInputFd = None}
             \cup {fd \in DOMAIN cgiOutputOwners :
                    \/ cgiOutputOwners[fd] \notin DOMAIN cs
                    \/ cs[cgiOutputOwners[fd]].cgiOutputFd = None}
  BY <1>1, <1>3, <1>4, <1>5, PipesOf DEF Fits
<1>7. ASSUME NEW g \in DOMAIN cs
      PROVE  LET c == clients[g]
                 e == cs[g]
             IN /\ e \in ClientState
                /\ e.cgiPid \in {None, c.cgiPid}
                /\ e.cgiInputFd \in {None, c.cgiInputFd}
                /\ e.cgiOutputFd \in {None, c.cgiOutputFd}
                /\ e.cgiPid = None => e.cgiInputFd = None /\ e.cgiOutputFd = None
                /\ e.cgiPid # None => e.output = "none"
                /\ e.cgiPid # c.cgiPid \/ c.output # "none" => e.output # "none"
                /\ IF g \in DOMAIN asks THEN asks[g] = WantedOf(e)
                   ELSE WantedOf(e) = WantedOf(c)
  <2>1. CASE g = f
    BY <1>1, <1>2, <2>1 DEF Fits
  <2>2. CASE g # f
    BY <1>1, <1>2, <2>2 DEF Fits, ClientInv
  <2> QED
    BY <2>1, <2>2
<1>8. DOMAIN asks \subseteq DOMAIN cs /\ DOMAIN cs \subseteq DOMAIN clients
  BY <1>1, <1>2 DEF Fits
<1> QED
  BY <1>6, <1>7, <1>8 DEF Shrinks

LEMMA OneKeeps ==
  ASSUME UpInv, pc = "scan", NEW k \in 1..Len(pollfds), NEW f \in DOMAIN clients,
         NEW d, NEW gone, NEW asks, Fits(f, d, gone, asks), ScriptFits(k, f, d),
         Done(k, [clients EXCEPT ![f] = d], gone, asks),
         f = pollfds[k].fd \/ clients[f].cgiPid # None
  PROVE  Keeps
<1> DEFINE cs == [clients EXCEPT ![f] = d]
           pid == clients[f].cgiPid
<1>0. ClientInv /\ FilesInv /\ ScriptsInv
  BY DEF UpInv
<1>1. DOMAIN cs = DOMAIN clients /\ cs[f] = d /\ \A g \in DOMAIN clients \ {f} : cs[g] = clients[g]
  OBVIOUS
<1>2. clients' = cs
  BY DEF Done
<1> HIDE DEF cs
<1>3. Shrinks(cs, gone, asks)
  BY <1>0, OneShrinks DEF cs
<1>4. ScriptsFollow(cs)
  <2>1. {clients[g].cgiPid : g \in {h \in RunningCgi : h \in DOMAIN cs => cs[h].cgiPid = None}}
          = IF f \in RunningCgi /\ d.cgiPid = None THEN {pid} ELSE {}
    BY <1>1 DEF RunningCgi
  <2>2. f \notin RunningCgi => pid \notin DOMAIN scripts
    BY <1>0, WebservAssumption DEF RunningCgi, ScriptsInv, WebservAssumption, None
  <2>3. DOMAIN scripts' =
          DOMAIN scripts \ {clients[g].cgiPid :
                              g \in {h \in RunningCgi : h \in DOMAIN cs => cs[h].cgiPid = None}}
    BY <2>1, <2>2 DEF ScriptFits
  <2>4. ASSUME NEW g \in DOMAIN cs, cs[g].cgiPid # None, cs[g].cgiOutputFd = None
        PROVE  ~scripts'[cs[g].cgiPid].data /\ ~scripts'[cs[g].cgiPid].writer
    <3>1. CASE g = f
      BY <1>1, <2>4, <3>1 DEF ScriptFits, Fits
    <3>2. CASE g # f
      <4>1. cs[g] = clients[g] /\ g \in RunningCgi
        BY <1>1, <2>4, <3>2 DEF RunningCgi
      <4>2. ~scripts[cs[g].cgiPid].data /\ ~scripts[cs[g].cgiPid].writer
        BY <1>0, <2>4, <4>1 DEF ScriptsInv, OutputInv
      <4>3. cs[g].cgiPid \in DOMAIN scripts /\ cs[g].cgiPid # pid
        BY <1>0, <3>2, <4>1, ScriptOf DEF RunningCgi
      <4> QED
        BY <4>2, <4>3 DEF ScriptFits
    <3> QED
      BY <3>1, <3>2
  <2> QED
    BY <2>3, <2>4 DEF ScriptsFollow, ScriptFits
<1>5. OutputsStay(k)
  <2> SUFFICES ASSUME NEW fd \in DOMAIN cgiOutputOwners', fd # pollfds[k].fd
               PROVE  LET g == cgiOutputOwners[fd]
                          old == scripts[clients[g].cgiPid]
                          new == scripts'[clients'[g].cgiPid]
                      IN new.data = old.data /\ new.writer = old.writer
    BY DEF OutputsStay
  <2> DEFINE g == cgiOutputOwners[fd]
  <2>1. fd \in DOMAIN cgiOutputOwners /\ fd \notin gone
    BY DEF Done, Close, Drop, Restrict
  <2>2. g \in RunningCgi /\ g \in DOMAIN clients /\ clients[g].cgiOutputFd = fd
    BY <1>0, <2>1, PipesOf DEF RunningCgi
  <2>3. CASE g = f
    <3>1. d.cgiPid # None /\ d.cgiPid = pid
      BY <1>0, <2>1, <2>2, <2>3, PipesOf DEF Fits
    <3> QED
      BY <1>1, <1>2, <2>2, <2>3, <3>1 DEF ScriptFits
  <2>4. CASE g # f
    <3>1. clients[g].cgiPid \in DOMAIN scripts /\ clients[g].cgiPid # pid
      BY <1>0, <2>2, <2>4, ScriptOf DEF RunningCgi
    <3> QED
      BY <1>1, <1>2, <2>2, <2>4, <3>1 DEF ScriptFits
  <2> QED
    BY <2>3, <2>4
<1>6. AsksOwn(k, asks)
  <2>1. DOMAIN asks \subseteq {f}
    BY DEF Fits, Just
  <2> QED
    BY <2>1 DEF AsksOwn
<1>7. WebInv' /\ [Life!Next]_conn
  BY <1>3, <1>4, <1>5, <1>6, DoneKeeps DEF cs
<1>8. Whole
  <2> SUFFICES ASSUME NEW g \in RunningCgi, g \in DOMAIN clients', clients'[g].output = "cgi"
               PROVE  LET script == scripts[clients[g].cgiPid]
                      IN /\ script.state = "ok"
                         /\ \/ ~script.data /\ ~script.writer
                            \/ clients[g].cgiOutput = OutputLimit /\ script.data
    BY DEF Whole
  <2>1. CASE g = f
    BY <1>1, <1>2, <2>1 DEF ScriptFits
  <2>2. CASE g # f
    BY <1>0, <1>1, <1>2, <2>2 DEF ClientInv, RunningCgi
  <2> QED
    BY <2>1, <2>2
<1> QED
  BY <1>7, <1>8 DEF Keeps

(***************************************************************************)
(* The scan's entry and what it leads to                                   *)
(***************************************************************************)

OnEntry(k) ==
  /\ UpInv /\ pc = "scan"
  /\ k \in 1..Len(pollfds) /\ pollfds[k].revents # {}

LEMMA VisitedIs ==
  ASSUME UpInv, pc = "scan", Reported # {}
  PROVE  OnEntry(Visited)
<1>1. pollfds \in Seq(PollEntry)
  BY DEF UpInv, TableOK
<1>2. DOMAIN pollfds = 1..Len(pollfds)
  BY <1>1
<1>3. Reported \in SUBSET Nat
  BY <1>2 DEF Reported
<1>4. \E j \in Reported : \A other \in Reported : j <= other
  BY <1>3, LeastOf
<1>5. Visited \in Reported
  BY <1>4 DEF Visited
<1> QED
  BY <1>2, <1>5 DEF OnEntry, Reported

\* The owner of a pipe, with its script.
Owns(f) ==
  /\ f \in DOMAIN clients /\ f \in RunningCgi
  /\ clients[f] \in ClientState /\ clients[f].cgiPid # None /\ clients[f].output = "none"
  /\ clients[f].cgiPid \in DOMAIN scripts /\ scripts[clients[f].cgiPid] \in Script

LEMMA OutputPipeIs ==
  ASSUME NEW k, OnEntry(k), IsOutputPipe(k)
  PROVE  LET f == cgiOutputOwners[pollfds[k].fd]
             script == scripts[clients[f].cgiPid]
         IN /\ Owns(f)
            /\ clients[f].cgiOutputFd = pollfds[k].fd
            /\ script.data \/ ~script.writer
<1>1. ClientInv /\ FilesInv /\ ScriptsInv /\ ReportOK(pollfds) /\ k \in 1..Len(pollfds)
  BY DEF OnEntry, UpInv
<1>2. LET f == cgiOutputOwners[pollfds[k].fd] IN f \in RunningCgi /\ f \in DOMAIN clients
  BY <1>1, PipesOf DEF IsOutputPipe, RunningCgi
<1>3. LET f == cgiOutputOwners[pollfds[k].fd]
          script == scripts[clients[f].cgiPid]
      IN script.data \/ ~script.writer
  BY <1>1 DEF ReportOK, OnEntry, IsOutputPipe
<1> QED
  BY <1>1, <1>2, <1>3, ScriptOf DEF Owns, IsOutputPipe, FilesInv, ClientInv, RunningCgi

LEMMA InputPipeIs ==
  ASSUME NEW k, OnEntry(k), IsInputPipe(k)
  PROVE  LET f == cgiInputOwners[pollfds[k].fd]
         IN /\ Owns(f)
            /\ clients[f].cgiInputFd = pollfds[k].fd
            /\ clients[f].cgiOutputFd # pollfds[k].fd
<1>1. ClientInv /\ FilesInv /\ ScriptsInv /\ k \in 1..Len(pollfds)
  BY DEF OnEntry, UpInv
<1>2. LET f == cgiInputOwners[pollfds[k].fd] IN f \in RunningCgi /\ f \in DOMAIN clients
  BY <1>1, PipesOf DEF IsInputPipe, RunningCgi
<1>3. clients[cgiInputOwners[pollfds[k].fd]].cgiOutputFd # pollfds[k].fd
  BY <1>1, <1>2, PipesOf, KindsDiffer DEF IsInputPipe
<1> QED
  BY <1>1, <1>2, <1>3, ScriptOf DEF Owns, IsInputPipe, FilesInv, ClientInv, RunningCgi

\* A client is looked at for what its state needs: only one without an answer
\* is read, only one with an answer written, and one with a script neither.
LEMMA ClientIs ==
  ASSUME NEW k, OnEntry(k), IsClient(k)
  PROVE  LET f == pollfds[k].fd
         IN /\ f \in DOMAIN clients /\ clients[f] \in ClientState
            /\ "IN" \in pollfds[k].revents =>
                 clients[f].cgiPid = None /\ clients[f].output = "none"
            /\ "OUT" \in pollfds[k].revents =>
                 clients[f].cgiPid = None /\ clients[f].output # "none"
            /\ clients[f].cgiPid = None =>
                 clients[f].cgiInputFd = None /\ clients[f].cgiOutputFd = None
<1>1. ClientInv /\ FilesInv /\ TableOK(pollfds) /\ ReportOK(pollfds) /\ k \in 1..Len(pollfds)
  BY DEF OnEntry, UpInv
<1>2. pollfds[k].fd \in DOMAIN files /\ pollfds[k].events = Wanted(pollfds[k].fd)
  BY <1>1 DEF TableOK
<1>3. pollfds[k].fd \in DOMAIN clients
  BY <1>1, <1>2 DEF FilesInv, IsClient, IsInputPipe, IsOutputPipe
<1>4. pollfds[k].revents \subseteq Wanted(pollfds[k].fd) \cup {"ERR"}
  BY <1>1, <1>2, <1>3 DEF ReportOK
<1> QED
  BY <1>1, <1>3, <1>4 DEF Wanted, ClientInv

\* An answer takes the place of the client's request and script.
LEMMA AnsweredFits ==
  ASSUME NEW f, NEW d, NEW what \in {"own", "cgi"}, NEW late \in BOOLEAN,
         clients[f] \in ClientState,
         \/ d = Answered(clients[f], what)
         \/ d = [Answered(clients[f], what) EXCEPT !.overdue = late]
  PROVE  /\ Fits(f, d, Pipes(clients[f]), Just(f, {"OUT"}))
         /\ d.cgiPid = None /\ d.output = what
<1>1. /\ NewClient \in ClientState /\ NewClient.cgiPid = None
      /\ NewClient.cgiInputFd = None /\ NewClient.cgiOutputFd = None
  BY WebservAssumption DEF NewClient, ClientState, WebservAssumption
<1>2. /\ d \in ClientState /\ d.output = what
      /\ d.cgiPid = None /\ d.cgiInputFd = None /\ d.cgiOutputFd = None
  <2>1. CASE d = Answered(clients[f], what)
    BY <1>1, <2>1 DEF Answered, ClientState
  <2>2. CASE d = [Answered(clients[f], what) EXCEPT !.overdue = late]
    BY <1>1, <2>2 DEF Answered, ClientState
  <2> QED
    BY <2>1, <2>2
<1>3. WantedOf(d) = {"OUT"}
  BY <1>2 DEF WantedOf
<1>4. Pipes(clients[f]) = ({clients[f].cgiInputFd} \ {d.cgiInputFd, None})
                            \cup ({clients[f].cgiOutputFd} \ {d.cgiOutputFd, None})
  BY <1>2 DEF Pipes
<1>5. Just(f, {"OUT"}) = Just(f, WantedOf(d))
  BY <1>3
<1> QED
  BY <1>2, <1>4, <1>5 DEF Fits

(***************************************************************************)
(* The handlers that take nothing new                                      *)
(***************************************************************************)

LEMMA ReadCgiChunkKeeps ==
  ASSUME NEW k, OnEntry(k), ReadCgiChunk(k)
  PROVE  Keeps
<1> DEFINE f == cgiOutputOwners[pollfds[k].fd]
           c == clients[f]
           pid == c.cgiPid
           more == [c EXCEPT !.cgiOutput = @ + 1, !.overdue = FALSE]
<1>1. /\ Owns(f) /\ c.cgiOutputFd = pollfds[k].fd
      /\ UpInv /\ pc = "scan" /\ k \in 1..Len(pollfds)
  BY OutputPipeIs DEF ReadCgiChunk, OnEntry
<1>2. /\ c \in ClientState /\ pid # None /\ c.output = "none" /\ f \in DOMAIN clients
      /\ pid \in DOMAIN scripts /\ scripts[pid] \in Script /\ c.cgiOutputFd # None
  BY <1>1, PipesOf DEF Owns, OnEntry, ReadCgiChunk, IsOutputPipe, UpInv
<1>3. \A p \in DOMAIN scripts : scripts[p] \in Script
  BY <1>1 DEF UpInv, ScriptsInv
<1>4. CASE /\ ~TooMuch(more)
           /\ Done(k, [clients EXCEPT ![f] = more], {}, <<>>)
           /\ scripts' = [scripts EXCEPT ![pid].data = FALSE]
  <2>1. /\ more.cgiPid = pid /\ more.cgiInputFd = c.cgiInputFd
        /\ more.cgiOutputFd = c.cgiOutputFd /\ more.output = "none"
        /\ more.cgiOutput = c.cgiOutput + 1
    BY <1>2 DEF ClientState
  <2>2. more \in ClientState
    <3>1. c.cgiOutput + 1 \in 0..OutputLimit
      <4>1. c.cgiOutput \in 0..OutputLimit
        BY <1>2 DEF ClientState
      <4>2. ~(c.cgiOutput + 1 > OutputLimit)
        BY <1>4, <2>1 DEF TooMuch
      <4>3. OutputLimit \in Nat
        BY WebservAssumption DEF WebservAssumption
      <4> HIDE DEF c
      <4> QED
        BY <4>1, <4>2, <4>3
    <3> QED
      BY <1>2, <3>1 DEF ClientState
  <2>3. Fits(f, more, {}, <<>>)
    BY <1>2, <2>1, <2>2 DEF Fits, WantedOf
  <2>4. ScriptFits(k, f, more)
    BY <1>1, <1>2, <1>3, <1>4, <2>1 DEF ScriptFits, Script
  <2> HIDE DEF more
  <2> QED
    BY <1>1, <1>2, <1>4, <2>3, <2>4, OneKeeps
<1>5. CASE /\ TooMuch(more)
           /\ \E wellFormed \in BOOLEAN :
                Done(k, [clients EXCEPT ![f] = Finished(more, scripts[pid].state, wellFormed)],
                     Pipes(more), Just(f, {"OUT"}))
           /\ scripts' = Drop(scripts, {pid})
  <2>1. PICK wellFormed \in BOOLEAN :
          Done(k, [clients EXCEPT ![f] = Finished(more, scripts[pid].state, wellFormed)],
               Pipes(more), Just(f, {"OUT"}))
    BY <1>5
  <2> DEFINE d == Finished(more, scripts[pid].state, wellFormed)
             what == Response(more, scripts[pid].state, wellFormed)
  <2>2. /\ what \in {"own", "cgi"}
        /\ what = "cgi" => scripts[pid].state = "ok"
    BY DEF Response
  <2>3. Pipes(more) = Pipes(c)
    BY <1>2 DEF Pipes, ClientState
  <2>4. d = Answered(c, what)
    BY DEF Finished, Answered
  <2>5. c.cgiOutput = OutputLimit /\ scripts[pid].data
    <3>1. c.cgiOutput = OutputLimit
      BY <1>2, <1>5, WebservAssumption DEF TooMuch, ClientState, WebservAssumption
    <3>2. scripts[pid].data
      BY DEF ReadCgiChunk
    <3> QED
      BY <3>1, <3>2
  <2>6. Done(k, [clients EXCEPT ![f] = d], Pipes(c), Just(f, {"OUT"}))
    BY <2>1, <2>3
  <2> HIDE DEF d, what, more
  <2>7. Fits(f, d, Pipes(c), Just(f, {"OUT"})) /\ d.cgiPid = None /\ d.output = what
    BY <1>2, <2>2, <2>4, AnsweredFits
  <2>8. /\ DOMAIN scripts' = DOMAIN scripts \ {pid}
        /\ \A p \in DOMAIN scripts' : scripts'[p] = scripts[p]
    BY <1>5 DEF Drop, Restrict
  <2>9. ScriptFits(k, f, d)
    BY <1>2, <1>3, <2>2, <2>5, <2>7, <2>8 DEF ScriptFits
  <2> QED
    BY <1>1, <1>2, <2>6, <2>7, <2>9, OneKeeps
<1> QED
  BY <1>4, <1>5 DEF ReadCgiChunk

LEMMA ReadCgiEndKeeps ==
  ASSUME NEW k, OnEntry(k), ReadCgiEnd(k)
  PROVE  Keeps
<1> DEFINE fd == pollfds[k].fd
           f == cgiOutputOwners[fd]
           c == clients[f]
           pid == c.cgiPid
           shut == [c EXCEPT !.cgiOutputFd = None]
<1>1. /\ Owns(f) /\ c.cgiOutputFd = fd
      /\ ~scripts[pid].data /\ ~scripts[pid].writer
      /\ UpInv /\ pc = "scan" /\ k \in 1..Len(pollfds)
  BY OutputPipeIs DEF ReadCgiEnd, OnEntry
<1>2. /\ c \in ClientState /\ pid # None /\ c.output = "none" /\ f \in DOMAIN clients
      /\ pid \in DOMAIN scripts /\ scripts[pid] \in Script /\ c.cgiOutputFd # None
  BY <1>1, PipesOf DEF Owns, OnEntry, ReadCgiEnd, IsOutputPipe, UpInv
<1>3. \A p \in DOMAIN scripts : scripts[p] \in Script
  BY <1>1 DEF UpInv, ScriptsInv
<1>4. CASE /\ scripts[pid].state = "run"
           /\ Done(k, [clients EXCEPT ![f].cgiOutputFd = None], {fd}, <<>>)
           /\ UNCHANGED scripts
  <2>1. /\ shut.cgiPid = pid /\ shut.cgiInputFd = c.cgiInputFd
        /\ shut.cgiOutputFd = None /\ shut.output = "none"
    BY <1>2 DEF ClientState
  <2>2. shut \in ClientState
    BY <1>2 DEF ClientState
  <2>3. Fits(f, shut, {fd}, <<>>)
    BY <1>1, <1>2, <2>1, <2>2 DEF Fits, WantedOf
  <2>4. ScriptFits(k, f, shut)
    BY <1>1, <1>2, <1>3, <1>4, <2>1 DEF ScriptFits
  <2>5. [clients EXCEPT ![f].cgiOutputFd = None] = [clients EXCEPT ![f] = shut]
    OBVIOUS
  <2> HIDE DEF shut
  <2> QED
    BY <1>1, <1>2, <1>4, <2>3, <2>4, <2>5, OneKeeps
<1>5. CASE /\ scripts[pid].state # "run"
           /\ \E wellFormed \in BOOLEAN :
                Done(k, [clients EXCEPT ![f] = Finished(c, scripts[pid].state, wellFormed)],
                     Pipes(c), Just(f, {"OUT"}))
           /\ scripts' = Drop(scripts, {pid})
  <2>1. PICK wellFormed \in BOOLEAN :
          Done(k, [clients EXCEPT ![f] = Finished(c, scripts[pid].state, wellFormed)],
               Pipes(c), Just(f, {"OUT"}))
    BY <1>5
  <2> DEFINE d == Finished(c, scripts[pid].state, wellFormed)
             what == Response(c, scripts[pid].state, wellFormed)
  <2>2. /\ what \in {"own", "cgi"}
        /\ what = "cgi" => scripts[pid].state = "ok"
    BY DEF Response
  <2>4. d = Answered(c, what)
    BY DEF Finished, Answered
  <2> HIDE DEF d, what
  <2>7. Fits(f, d, Pipes(c), Just(f, {"OUT"})) /\ d.cgiPid = None /\ d.output = what
    BY <1>2, <2>2, <2>4, AnsweredFits
  <2>8. /\ DOMAIN scripts' = DOMAIN scripts \ {pid}
        /\ \A p \in DOMAIN scripts' : scripts'[p] = scripts[p]
    BY <1>5 DEF Drop, Restrict
  <2>9. ScriptFits(k, f, d)
    BY <1>1, <1>2, <1>3, <2>2, <2>7, <2>8 DEF ScriptFits
  <2> QED
    BY <1>1, <1>2, <2>1, <2>7, <2>9, OneKeeps DEF d
<1> QED
  BY <1>4, <1>5 DEF ReadCgiEnd

LEMMA WriteCgiKeeps ==
  ASSUME NEW k, OnEntry(k), WriteCgi(k)
  PROVE  Keeps
<1> DEFINE fd == pollfds[k].fd
           f == cgiInputOwners[fd]
           c == clients[f]
           pid == c.cgiPid
           sent == IF scripts[pid].reader
                   THEN [c EXCEPT !.cgiWritten = @ + 1, !.overdue = FALSE] ELSE c
           over == ~scripts[pid].reader \/ sent.cgiWritten = c.cgiInput
           d == IF over THEN [sent EXCEPT !.cgiInputFd = None] ELSE sent
           gone == IF over THEN {fd} ELSE {}
<1>1. /\ Owns(f) /\ c.cgiInputFd = fd /\ c.cgiOutputFd # fd
      /\ UpInv /\ pc = "scan" /\ k \in 1..Len(pollfds)
  BY InputPipeIs DEF WriteCgi, OnEntry
<1>2. /\ c \in ClientState /\ pid # None /\ c.output = "none" /\ f \in DOMAIN clients
      /\ pid \in DOMAIN scripts /\ scripts[pid] \in Script /\ fd # None
  BY <1>1, PipesOf DEF Owns, OnEntry, WriteCgi, IsInputPipe, UpInv
<1>3. \A p \in DOMAIN scripts : scripts[p] \in Script
  BY <1>1 DEF UpInv, ScriptsInv
<1>4. /\ sent \in ClientState /\ sent.cgiPid = pid /\ sent.cgiInputFd = fd
      /\ sent.cgiOutputFd = c.cgiOutputFd /\ sent.output = "none"
  <2>1. CASE scripts[pid].reader
    <3>1. sent = [c EXCEPT !.cgiWritten = @ + 1, !.overdue = FALSE]
      BY <2>1
    <3>2. c.cgiWritten + 1 \in Nat
      BY <1>2 DEF ClientState
    <3> HIDE DEF sent
    <3>3. sent \in ClientState
      BY <1>2, <3>1, <3>2 DEF ClientState
    <3>4. /\ sent.cgiPid = c.cgiPid /\ sent.cgiInputFd = c.cgiInputFd
          /\ sent.cgiOutputFd = c.cgiOutputFd /\ sent.output = c.output
      BY <1>2, <3>1 DEF ClientState
    <3> QED
      BY <1>1, <1>2, <3>3, <3>4
  <2>2. CASE ~scripts[pid].reader
    BY <1>1, <1>2, <2>2
  <2> QED
    BY <2>1, <2>2
<1>5. /\ Done(k, [clients EXCEPT ![f] = d], gone, <<>>)
      /\ scripts' = [scripts EXCEPT ![pid].full = ~over]
  BY DEF WriteCgi
<1> HIDE DEF sent
<1>6. /\ d \in ClientState /\ d.cgiPid = pid /\ d.output = "none"
      /\ d.cgiInputFd = (IF over THEN None ELSE fd) /\ d.cgiOutputFd = c.cgiOutputFd
  BY <1>4 DEF ClientState
<1>7. over \in BOOLEAN
  OBVIOUS
<1> HIDE DEF over, d
<1>8. Fits(f, d, gone, <<>>)
  BY <1>1, <1>2, <1>6 DEF Fits, WantedOf
<1>9. ScriptFits(k, f, d)
  <2>1. /\ DOMAIN scripts' = DOMAIN scripts
        /\ \A p \in DOMAIN scripts' : p # pid => scripts'[p] = scripts[p]
    BY <1>5
  <2>2. scripts'[pid] \in Script /\ scripts'[pid].data = scripts[pid].data
        /\ scripts'[pid].writer = scripts[pid].writer
    BY <1>2, <1>5, <1>7 DEF Script
  <2>3. c.cgiOutputFd = None => ~scripts[pid].data /\ ~scripts[pid].writer
    BY <1>1 DEF UpInv, ScriptsInv, OutputInv, Owns
  <2> QED
    BY <1>2, <1>3, <1>6, <2>1, <2>2, <2>3 DEF ScriptFits
<1> HIDE DEF gone
<1> QED
  BY <1>1, <1>2, <1>5, <1>8, <1>9, OneKeeps

\* Only the scan moves on.
LEMMA NothingDoneKeeps ==
  ASSUME NEW k, OnEntry(k), NothingDone(k)
  PROVE  Keeps
<1>1. UpInv /\ pc = "scan" /\ k \in 1..Len(pollfds) /\ TableOK(pollfds) /\ ReportOK(pollfds)
  BY DEF OnEntry, UpInv
<1>2. /\ pollfds' = Seen(k) /\ i' \in {k, k + 1} /\ pc' = pc
      /\ UNCHANGED <<clients, cgiInputOwners, cgiOutputOwners, files, scripts>>
  BY DEF NothingDone, GoOn
<1>3. PICK new : new = pollfds'
  OBVIOUS
<1>4. /\ TableOK(new) /\ Len(new) = Len(pollfds)
      /\ \A j \in 1..Len(pollfds) :
           /\ new[j].fd = pollfds[j].fd /\ new[j].events = pollfds[j].events
           /\ new[j].revents = IF j = k THEN {} ELSE pollfds[j].revents
  BY <1>1, <1>2, <1>3, SeenTable
<1>5. TableOK(pollfds)'
  BY <1>2, <1>3, <1>4 DEF TableOK, Wanted
<1>6. ReportOK(pollfds)'
  BY <1>1, <1>2, <1>3, <1>4 DEF ReportOK
<1>7. (ClientInv /\ FilesInv /\ ScriptsInv /\ LimitsInv)'
  BY <1>1, <1>2 DEF UpInv, ClientInv, FilesInv, ScriptsInv, LimitsInv, ChildrenExact,
                    OutputInv, RunningCgi
<1>8. UNCHANGED conn
  BY <1>2 DEF conn, LifeOf
<1>9. Whole
  BY <1>1, <1>2 DEF Whole, UpInv, ClientInv, RunningCgi
<1>10. i' \in Nat /\ i' > 0
  BY <1>1, <1>2
<1> QED
  BY <1>1, <1>2, <1>5, <1>6, <1>7, <1>8, <1>9, <1>10 DEF Keeps, WebInv, UpInv

\* The connection is closed, for whatever reason.
LEMMA ClosingKeeps ==
  ASSUME NEW k, OnEntry(k), InputPipeBroken(k) \/ ClientGone(k) \/ PeerClosed(k)
  PROVE  Keeps
<1>1. UpInv /\ pc = "scan" /\ k \in 1..Len(pollfds)
  BY DEF OnEntry
<1>2. CASE InputPipeBroken(k)
  <2>1. cgiInputOwners[pollfds[k].fd] \in DOMAIN clients
    BY <1>2, InputPipeIs DEF InputPipeBroken, Owns
  <2> QED
    BY <1>1, <1>2, <2>1, CloseKeeps DEF InputPipeBroken
<1>3. CASE ClientGone(k) \/ PeerClosed(k)
  <2>1. pollfds[k].fd \in DOMAIN clients
    BY <1>3, ClientIs DEF ClientGone, PeerClosed
  <2> QED
    BY <1>1, <1>3, <2>1, CloseKeeps DEF ClientGone, PeerClosed
<1> QED
  BY <1>2, <1>3

\* A client without a script is answered by the server itself, or reads or
\* writes on.
LEMMA QuietFits ==
  ASSUME NEW k, NEW f \in DOMAIN clients, NEW d,
         ScriptsInv, clients[f].cgiPid = None, d.cgiPid = None, UNCHANGED scripts
  PROVE  ScriptFits(k, f, d)
<1>1. None \notin DOMAIN scripts
  BY WebservAssumption DEF ScriptsInv, WebservAssumption, None
<1> QED
  BY <1>1 DEF ScriptFits, ScriptsInv, RunningCgi

LEMMA OwnAnswerKeeps ==
  ASSUME NEW k, OnEntry(k), Readable(k), NEW d, NEW late \in BOOLEAN,
         \/ d = Answered(clients[pollfds[k].fd], "own")
         \/ d = [Answered(clients[pollfds[k].fd], "own") EXCEPT !.overdue = late],
         Done(k, [clients EXCEPT ![pollfds[k].fd] = d], {}, Just(pollfds[k].fd, {"OUT"})),
         UNCHANGED scripts
  PROVE  Keeps
<1> DEFINE f == pollfds[k].fd
<1>1. UpInv /\ pc = "scan" /\ k \in 1..Len(pollfds) /\ ScriptsInv
  BY DEF OnEntry, UpInv
<1>2. /\ f \in DOMAIN clients /\ clients[f] \in ClientState
      /\ clients[f].cgiPid = None /\ clients[f].cgiInputFd = None
      /\ clients[f].cgiOutputFd = None
  BY ClientIs DEF Readable
<1>3. Pipes(clients[f]) = {}
  BY <1>2 DEF Pipes
<1>4. Fits(f, d, {}, Just(f, {"OUT"})) /\ d.cgiPid = None
  <2>1. /\ Fits(f, d, Pipes(clients[f]), Just(f, {"OUT"}))
        /\ d.cgiPid = None
    <3> HIDE DEF f
    <3> QED
      BY <1>2, AnsweredFits DEF f
  <2> QED
    BY <1>3, <2>1
<1>5. ScriptFits(k, f, d)
  BY <1>1, <1>2, <1>4, QuietFits
<1> QED
  BY <1>1, <1>2, <1>4, <1>5, OneKeeps

LEMMA AnsweringKeeps ==
  ASSUME NEW k, OnEntry(k), AnswerNow(k) \/ RefuseCgi(k) \/ StartCgiFails(k)
  PROVE  Keeps
<1> DEFINE f == pollfds[k].fd
<1>1. CASE AnswerNow(k)
  <2> DEFINE late == ~(clients[f].input + 1 <= RequestLimit) /\ clients[f].overdue
             d == [Answered(clients[f], "own") EXCEPT !.overdue = late]
  <2>1. late \in BOOLEAN
    OBVIOUS
  <2>2. /\ Readable(k) /\ UNCHANGED scripts
        /\ Done(k, [clients EXCEPT ![f] = d], {}, Just(f, {"OUT"}))
    BY <1>1 DEF AnswerNow
  <2> HIDE DEF late
  <2> QED
    BY <2>1, <2>2, OwnAnswerKeeps
<1>2. CASE RefuseCgi(k) \/ StartCgiFails(k)
  <2> DEFINE d == Answered(clients[f], "own")
  <2>1. /\ Readable(k) /\ UNCHANGED scripts
        /\ Done(k, [clients EXCEPT ![f] = Answered(@, "own")], {}, Just(f, {"OUT"}))
    BY <1>2 DEF RefuseCgi, StartCgiFails, Requested
  <2>2. [clients EXCEPT ![f] = Answered(@, "own")] = [clients EXCEPT ![f] = d]
    OBVIOUS
  <2> HIDE DEF d
  <2>3. d = Answered(clients[f], "own")
    BY DEF d
  <2> QED
    BY <2>1, <2>2, <2>3, OwnAnswerKeeps
<1> QED
  BY <1>1, <1>2

LEMMA KeepReadingKeeps ==
  ASSUME NEW k, OnEntry(k), KeepReading(k)
  PROVE  Keeps
<1> DEFINE f == pollfds[k].fd
           c == clients[f]
           d == [c EXCEPT !.input = @ + 1, !.overdue = FALSE]
<1>1. UpInv /\ pc = "scan" /\ k \in 1..Len(pollfds) /\ ScriptsInv
  BY DEF OnEntry, UpInv
<1>2. /\ f \in DOMAIN clients /\ c \in ClientState
      /\ c.cgiPid = None /\ c.output = "none"
      /\ c.cgiInputFd = None /\ c.cgiOutputFd = None
  BY ClientIs DEF KeepReading, Readable
<1>3. c.input + 1 \in 0..RequestLimit
  BY <1>2, WebservAssumption DEF KeepReading, ClientState, WebservAssumption
<1>4. /\ d \in ClientState /\ d.cgiPid = None /\ d.output = "none"
      /\ d.cgiInputFd = None /\ d.cgiOutputFd = None
  BY <1>2, <1>3 DEF ClientState
<1>5. [clients EXCEPT ![f].input = @ + 1, ![f].overdue = FALSE] = [clients EXCEPT ![f] = d]
  BY <1>2
<1>6. Done(k, [clients EXCEPT ![f] = d], {}, <<>>) /\ UNCHANGED scripts
  BY <1>5 DEF KeepReading
<1> HIDE DEF d
<1>7. Fits(f, d, {}, <<>>)
  BY <1>2, <1>4 DEF Fits, WantedOf
<1>8. ScriptFits(k, f, d)
  BY <1>1, <1>2, <1>4, <1>6, QuietFits
<1> QED
  BY <1>1, <1>2, <1>6, <1>7, <1>8, OneKeeps

LEMMA WriteClientKeeps ==
  ASSUME NEW k, OnEntry(k), WriteClient(k)
  PROVE  Keeps
<1> DEFINE f == pollfds[k].fd
           c == clients[f]
           d == [c EXCEPT !.sent = @ + 1, !.overdue = FALSE]
<1>1. UpInv /\ pc = "scan" /\ k \in 1..Len(pollfds) /\ ScriptsInv
  BY DEF OnEntry, UpInv
<1>2. /\ f \in DOMAIN clients /\ c \in ClientState
      /\ c.cgiPid = None /\ c.output # "none"
      /\ c.cgiInputFd = None /\ c.cgiOutputFd = None
  BY ClientIs DEF WriteClient
<1>3. CASE CloseClient(k, f)
  BY <1>1, <1>2, <1>3, CloseKeeps
<1>4. CASE /\ c.sent + 1 < AnswerSize
           /\ Done(k, [clients EXCEPT ![f].sent = @ + 1, ![f].overdue = FALSE], {}, <<>>)
           /\ UNCHANGED scripts
  <2>1. c.sent + 1 \in 0..AnswerSize
    <3>1. c.sent \in 0..AnswerSize
      BY <1>2 DEF ClientState
    <3>2. AnswerSize \in Nat
      BY WebservAssumption DEF WebservAssumption
    <3> QED
      BY <1>4, <3>1, <3>2
  <2>2. /\ d \in ClientState /\ d.cgiPid = None /\ d.output = c.output
        /\ d.cgiInputFd = None /\ d.cgiOutputFd = None
    BY <1>2, <2>1 DEF ClientState
  <2>3. [clients EXCEPT ![f].sent = @ + 1, ![f].overdue = FALSE] = [clients EXCEPT ![f] = d]
    BY <1>2
  <2>4. Done(k, [clients EXCEPT ![f] = d], {}, <<>>) /\ UNCHANGED scripts
    BY <1>4, <2>3
  <2> HIDE DEF d
  <2>5. Fits(f, d, {}, <<>>)
    BY <1>2, <2>2 DEF Fits, WantedOf
  <2>6. ScriptFits(k, f, d)
    BY <1>1, <1>2, <2>2, <2>4, QuietFits
  <2> QED
    BY <1>1, <1>2, <2>4, <2>5, <2>6, OneKeeps
<1> QED
  BY <1>3, <1>4 DEF WriteClient

(***************************************************************************)
(* What accept and the start of a script add                               *)
(***************************************************************************)

LEMMA FreeIs ==
  /\ FreeDescriptors \in Seq(Sockets)
  /\ \A n \in 1..Len(FreeDescriptors) : FreeDescriptors[n] \in Sockets \ DOMAIN files
  /\ \A a, b \in 1..Len(FreeDescriptors) : FreeDescriptors[a] = FreeDescriptors[b] => a = b
<1> DEFINE all == [d \in Sockets |-> d]
           K == Sockets \ DOMAIN files
<1>1. all \in Seq(Sockets) /\ Len(all) = LastDescriptor
  BY WebservAssumption DEF Sockets, WebservAssumption
<1>2. K \in SUBSET (1..Len(all)) /\ \A j \in K : all[j] = j
  BY <1>1 DEF Sockets
<1> HIDE DEF all, K
<1>3. PICK at \in [1..Cardinality(K) -> K] :
        /\ Subsequence(all, K) = [n \in 1..Cardinality(K) |-> all[at[n]]]
        /\ \A a, b \in 1..Cardinality(K) : at[a] = at[b] => a = b
        /\ Subsequence(all, K) \in Seq(Sockets)
        /\ Len(Subsequence(all, K)) = Cardinality(K)
  BY <1>1, <1>2, SubsequenceIs
<1>4. FreeDescriptors = Subsequence(all, K)
  BY DEF FreeDescriptors, all, K
<1>5. \A n \in 1..Len(FreeDescriptors) :
        at[n] \in K /\ FreeDescriptors[n] = at[n] /\ n \in 1..Cardinality(K)
  BY <1>2, <1>3, <1>4
<1> QED
  BY ZenonT(60), <1>3, <1>4, <1>5 DEF K

\* u is s followed by t.
Join(u, s, t) ==
  /\ Len(u) = Len(s) + Len(t) /\ Len(s) \in Nat /\ Len(t) \in Nat
  /\ \A j \in 1..Len(s) : j \in 1..Len(u) /\ u[j] = s[j]
  /\ \A j \in 1..Len(u) : j \notin 1..Len(s) =>
       j - Len(s) \in 1..Len(t) /\ u[j] = t[j - Len(s)]
  /\ \A n \in 1..Len(t) : Len(s) + n \in 1..Len(u) /\ u[Len(s) + n] = t[n]

LEMMA Appended ==
  ASSUME NEW X, NEW s \in Seq(X), NEW t \in Seq(X), NEW u, u = s \o t
  PROVE  u \in Seq(X) /\ Join(u, s, t)
<1>1. u \in Seq(X) /\ Len(u) = Len(s) + Len(t) /\ Len(s) \in Nat /\ Len(t) \in Nat
  OBVIOUS
<1>2. \A j \in 1..Len(s) + Len(t) : u[j] = IF j <= Len(s) THEN s[j] ELSE t[j - Len(s)]
  OBVIOUS
<1>3. \A n \in 1..Len(t) : u[Len(s) + n] = t[n]
  <2> TAKE n \in 1..Len(t)
  <2>1. Len(s) + n \in 1..Len(s) + Len(t) /\ ~(Len(s) + n <= Len(s)) /\ (Len(s) + n) - Len(s) = n
    BY <1>1
  <2> QED
    BY <1>2, <2>1
<1> QED
  BY <1>1, <1>2, <1>3 DEF Join

\* New entries at the end of the table, and new masks for some of the others.
LEMMA GrowTable ==
  ASSUME NEW table, TableOK(table), NEW base \in Seq(PollEntry), NEW ext \in Seq(PollEntry),
         Len(base) = Len(table),
         \A j \in 1..Len(base) :
           base[j].fd = table[j].fd /\ base[j].events = Wanted(base[j].fd)',
         \A n \in 1..Len(ext) :
           ext[n].fd \notin DOMAIN files /\ ext[n].events = Wanted(ext[n].fd)',
         \A a, b \in 1..Len(ext) : ext[a].fd = ext[b].fd => a = b,
         DOMAIN files' = DOMAIN files \cup {ext[n].fd : n \in 1..Len(ext)},
         NEW new, new = base \o ext
  PROVE  TableOK(new)'
<1> DEFINE l == Len(base)
           m == Len(ext)
<1>0. new \in Seq(PollEntry) /\ Join(new, base, ext)
  BY Appended
<1>1. /\ Len(new) = l + m /\ l \in Nat /\ m \in Nat
      /\ \A j \in 1..l : j \in 1..Len(new) /\ new[j] = base[j]
      /\ \A j \in 1..Len(new) : j \notin 1..l => j - l \in 1..m /\ new[j] = ext[j - l]
      /\ \A n \in 1..m : l + n \in 1..Len(new) /\ new[l + n] = ext[n]
  BY <1>0 DEF Join
<1>2. /\ \A j \in 1..l : base[j].fd \in DOMAIN files
      /\ l = Len(table)
      /\ \A a, b \in 1..l : base[a].fd = base[b].fd => a = b
      /\ \A fd \in DOMAIN files : \E j \in 1..l : base[j].fd = fd
  BY ZenonT(60) DEF TableOK
<1> HIDE DEF l, m
<1>3. \A j \in 1..Len(new) :
        new[j].fd \in DOMAIN files' /\ new[j].events = Wanted(new[j].fd)'
  <2> TAKE j \in 1..Len(new)
  <2>1. CASE j \in 1..l
    BY <1>1, <1>2, <2>1 DEF l, Wanted
  <2>2. CASE j \notin 1..l
    BY <1>1, <2>2 DEF m, Wanted
  <2> QED
    BY <2>1, <2>2
<1>4. \A a, b \in 1..Len(new) : new[a].fd = new[b].fd => a = b
  <2> TAKE a, b \in 1..Len(new)
  <2> HAVE new[a].fd = new[b].fd
  <2>1. CASE a \in 1..l /\ b \in 1..l
    BY <1>1, <1>2, <2>1
  <2>2. CASE a \notin 1..l /\ b \notin 1..l
    <3>1. /\ a - l \in 1..m /\ new[a] = ext[a - l]
          /\ b - l \in 1..m /\ new[b] = ext[b - l]
      BY <1>1, <2>2
    <3>2. a - l = b - l
      BY <3>1 DEF m
    <3>3. a \in Int /\ b \in Int /\ l \in Int
      BY <1>1
    <3> QED
      BY <3>2, <3>3
  <2>3. CASE (a \in 1..l) # (b \in 1..l)
    <3>1. \A j \in 1..l : new[j].fd \in DOMAIN files
      BY <1>1, <1>2
    <3>2. \A j \in 1..Len(new) : j \notin 1..l => new[j].fd \notin DOMAIN files
      BY <1>1 DEF m
    <3> QED
      BY <2>3, <3>1, <3>2
  <2> QED
    BY <2>1, <2>2, <2>3
<1>5. \A fd \in DOMAIN files' : \E j \in 1..Len(new) : new[j].fd = fd
  <2> TAKE fd \in DOMAIN files'
  <2>1. CASE fd \in DOMAIN files
    BY <1>1, <1>2, <2>1
  <2>2. CASE fd \notin DOMAIN files
    <3>1. PICK n \in 1..m : ext[n].fd = fd
      BY <2>2 DEF m
    <3> QED
      BY <1>1, <3>1
  <2> QED
    BY <2>1, <2>2
<1> QED
  BY <1>0, <1>3, <1>4, <1>5 DEF TableOK

\* Nothing is reported of them yet.
LEMMA GrowReport ==
  ASSUME NEW base \in Seq(PollEntry), NEW ext \in Seq(PollEntry),
         \A n \in 1..Len(ext) : ext[n].revents = {},
         ReportOK(base)', NEW new, new = base \o ext
  PROVE  ReportOK(new)'
<1> DEFINE l == Len(base)
<1>0. new \in Seq(PollEntry) /\ Join(new, base, ext)
  BY Appended
<1>1. \A j \in 1..Len(new) :
        \/ j \in 1..l /\ new[j] = base[j]
        \/ new[j].revents = {}
  BY <1>0 DEF Join
<1> HIDE DEF l
<1> SUFFICES ASSUME NEW j \in 1..Len(new)
             PROVE  /\ new[j].fd \in DOMAIN clients' =>
                         new[j].revents \subseteq new[j].events \cup {"ERR"}
                    /\ new[j].fd \in DOMAIN cgiOutputOwners' /\ new[j].revents # {} =>
                         LET script == scripts'[clients'[cgiOutputOwners'[new[j].fd]].cgiPid]
                         IN script.data \/ ~script.writer
  BY DEF ReportOK
<1>2. CASE j \in 1..l /\ new[j] = base[j]
  BY <1>2 DEF ReportOK, l
<1>3. CASE new[j].revents = {}
  BY <1>3
<1> QED
  BY <1>1, <1>2, <1>3

LEMMA PutIs ==
  ASSUME NEW f, NEW g, NEW h, h = Put(f, g)
  PROVE  /\ DOMAIN h = DOMAIN f \cup DOMAIN g
         /\ \A x \in DOMAIN g : h[x] = g[x]
         /\ \A x \in DOMAIN f : x \notin DOMAIN g => h[x] = f[x]
BY DEF Put

\* Descriptors, and with them the clients, are finitely many.
LEMMA SocketsAreFinite ==
  ASSUME NEW S, \A f \in S : f \in Sockets
  PROVE  IsFiniteSet(S) /\ Cardinality(S) \in Nat
<1>1. LastDescriptor \in Nat
  BY WebservAssumption DEF WebservAssumption
<1> QED
  BY <1>1, PlacesAreFinite DEF Sockets

\* A connection is taken when there is room for it, and gets a number nobody has.
LEMMA AcceptKeeps ==
  ASSUME NEW k, OnEntry(k), AcceptClient(k)
  PROVE  Keeps
<1>1. PICK number \in 0..MaxPending :
       /\ Cardinality(DOMAIN clients) + number <= MaxConnections
       /\ number <= Len(FreeDescriptors)
       /\ LET taken == SubSeq(FreeDescriptors, 1, number)
              new == ToSet(taken)
          IN /\ clients' = Put(clients, [f \in new |-> NewClient])
             /\ files' = Put(files, [f \in new |-> <<"client", None>>])
             /\ GoOn(k, Seen(k) \o [j \in DOMAIN taken |-> Entry(taken[j], {"IN"})])
  BY DEF AcceptClient
<1>a. PICK taken : taken = SubSeq(FreeDescriptors, 1, number)
  OBVIOUS
<1> DEFINE new == ToSet(taken)
           ext == [j \in DOMAIN taken |-> Entry(taken[j], {"IN"})]
<1>2. /\ ClientInv /\ FilesInv /\ TableOK(pollfds) /\ ScriptsInv /\ LimitsInv
      /\ pc = "scan" /\ k \in 1..Len(pollfds) /\ ReportOK(pollfds)
  BY DEF OnEntry, UpInv
<1>3. number \in Nat
  BY WebservAssumption DEF WebservAssumption
<1>4. /\ taken \in Seq(Sockets) /\ Len(taken) = number /\ DOMAIN taken = 1..number
      /\ \A n \in 1..number : taken[n] = FreeDescriptors[n] /\ n \in 1..Len(FreeDescriptors)
  BY <1>1, <1>3, <1>a, FreeIs
<1>5. /\ \A n \in 1..number : taken[n] \in Sockets \ DOMAIN files
      /\ \A a, b \in 1..number : taken[a] = taken[b] => a = b
  BY <1>4, FreeIs
<1>6. new = {taken[n] : n \in 1..number}
  BY <1>4 DEF ToSet
<1>7. \A f \in new : f \in Sockets /\ f \notin DOMAIN files /\ f \notin DOMAIN clients
  BY <1>2, <1>5, <1>6 DEF FilesInv
<1>8. /\ UNCHANGED <<cgiInputOwners, cgiOutputOwners, scripts>>
      /\ pollfds' = Seen(k) \o ext /\ i' \in {k, k + 1} /\ pc' = pc
      /\ clients' = Put(clients, [f \in new |-> NewClient])
      /\ files' = Put(files, [f \in new |-> <<"client", None>>])
  BY <1>1, <1>a DEF AcceptClient, GoOn
<1> HIDE DEF new
<1>9. /\ DOMAIN clients' = DOMAIN clients \cup new
      /\ \A f \in DOMAIN clients : clients'[f] = clients[f]
      /\ \A f \in new : clients'[f] = NewClient
      /\ DOMAIN files' = DOMAIN files \cup new
      /\ \A f \in DOMAIN files : files'[f] = files[f]
      /\ \A f \in new : files'[f] = <<"client", None>>
  BY <1>7, <1>8 DEF Put
<1>10. /\ NewClient \in ClientState /\ NewClient.cgiPid = None /\ NewClient.output = "none"
       /\ NewClient.cgiInputFd = None /\ NewClient.cgiOutputFd = None
  BY WebservAssumption DEF NewClient, ClientState, WebservAssumption
<1>11. ClientInv'
  <2>1. ASSUME NEW f \in DOMAIN clients'
        PROVE  /\ f \in Sockets /\ clients'[f] \in ClientState
               /\ clients'[f].cgiPid = None =>
                    clients'[f].cgiInputFd = None /\ clients'[f].cgiOutputFd = None
               /\ clients'[f].cgiPid # None => clients'[f].output = "none"
    <3>1. CASE f \in new
      BY <1>7, <1>9, <1>10, <3>1
    <3>2. CASE f \in DOMAIN clients
      BY <1>2, <1>9, <3>2 DEF ClientInv
    <3> QED
      BY <1>9, <3>1, <3>2
  <2> QED
    BY <2>1 DEF ClientInv
<1>12. FilesInv'
  <2>1. /\ DOMAIN files' = {Listener} \cup DOMAIN clients' \cup DOMAIN cgiInputOwners'
                             \cup DOMAIN cgiOutputOwners'
        /\ DOMAIN files' \subseteq Descriptors
        /\ files'[Listener] = <<"listener", None>>
    <3>1. /\ DOMAIN files = {Listener} \cup DOMAIN clients \cup DOMAIN cgiInputOwners
                               \cup DOMAIN cgiOutputOwners
          /\ DOMAIN files \subseteq Descriptors
          /\ files[Listener] = <<"listener", None>>
      BY <1>2 DEF FilesInv
    <3>2. new \subseteq Descriptors
      BY <1>7 DEF Sockets, Descriptors
    <3>3. files'[Listener] = files[Listener]
      BY <1>9, <3>1
    <3> QED
      BY <1>8, <1>9, <3>1, <3>2, <3>3
  <2>2. ASSUME NEW f \in DOMAIN clients'
        PROVE  LET c == clients'[f]
               IN /\ files'[f] = <<"client", None>>
                  /\ c.cgiInputFd # None =>
                       c.cgiInputFd \in DOMAIN cgiInputOwners' /\ cgiInputOwners'[c.cgiInputFd] = f
                  /\ c.cgiOutputFd # None =>
                       c.cgiOutputFd \in DOMAIN cgiOutputOwners' /\ cgiOutputOwners'[c.cgiOutputFd] = f
    <3>1. CASE f \in new
      BY <1>9, <1>10, <3>1
    <3>2. CASE f \in DOMAIN clients
      <4>1. f \in DOMAIN files /\ files'[f] = files[f] /\ clients'[f] = clients[f]
        BY <1>2, <1>9, <3>2 DEF FilesInv
      <4> QED
        BY <1>2, <1>8, <3>2, <4>1 DEF FilesInv
    <3> QED
      BY <1>9, <3>1, <3>2
  <2>3. ASSUME NEW fd \in DOMAIN cgiInputOwners'
        PROVE  LET f == cgiInputOwners'[fd]
               IN /\ f \in DOMAIN clients' /\ clients'[f].cgiInputFd = fd
                  /\ files'[fd] = <<"stdin", clients'[f].cgiPid>>
    BY <1>2, <1>8, <1>9 DEF FilesInv
  <2>4. ASSUME NEW fd \in DOMAIN cgiOutputOwners'
        PROVE  LET f == cgiOutputOwners'[fd]
               IN /\ f \in DOMAIN clients' /\ clients'[f].cgiOutputFd = fd
                  /\ files'[fd] = <<"stdout", clients'[f].cgiPid>>
    BY <1>2, <1>8, <1>9 DEF FilesInv
  <2> QED
    BY <2>1, <2>2, <2>3, <2>4 DEF FilesInv
<1>13. /\ RunningCgi' = RunningCgi
       /\ \A f \in RunningCgi : f \in DOMAIN clients /\ clients'[f] = clients[f]
  BY <1>9, <1>10 DEF RunningCgi
<1>14. ScriptsInv'
  <2>1. ChildrenExact'
    <3>1. ChildrenExact /\ scripts' = scripts
      BY <1>2, <1>8 DEF ScriptsInv
    <3>2. DOMAIN scripts' = {clients'[f].cgiPid : f \in RunningCgi'}
      BY <1>13, <3>1 DEF ChildrenExact
    <3>3. \A f, g \in RunningCgi' : clients'[f].cgiPid = clients'[g].cgiPid => f = g
      BY <1>13, <3>1 DEF ChildrenExact
    <3> QED
      BY <3>2, <3>3 DEF ChildrenExact
  <2>2. OutputInv'
    BY <1>2, <1>8, <1>13 DEF ScriptsInv, OutputInv
  <2> QED
    BY <1>2, <1>8, <2>1, <2>2 DEF ScriptsInv
<1>15. LimitsInv'
  <2>1. /\ IsFiniteSet(DOMAIN clients) /\ Cardinality(DOMAIN clients) \in Nat
        /\ IsFiniteSet(new) /\ Cardinality(new) \in Nat
    BY <1>2, <1>7, SocketsAreFinite DEF ClientInv
  <2>2. Cardinality(new) <= number
    <3>1. [n \in 1..number |-> taken[n]] \in Surjection(1..number, new)
      BY <1>6 DEF Surjection
    <3> QED
      BY <1>3, <3>1, FS_SurjCardinalityBound DEF ExistsSurjection
  <2>3. DOMAIN clients \cap new = {}
    BY <1>7
  <2>4. Cardinality(DOMAIN clients') = Cardinality(DOMAIN clients) + Cardinality(new)
    <3>1. Cardinality(DOMAIN clients \cup new)
            = Cardinality(DOMAIN clients) + Cardinality(new) - Cardinality(DOMAIN clients \cap new)
      BY <2>1, FS_Union
    <3>2. Cardinality(DOMAIN clients \cap new) = 0
      BY <2>3, FS_EmptySet
    <3>3. DOMAIN clients' = DOMAIN clients \cup new
      BY <1>9
    <3> QED
      BY <2>1, <3>1, <3>2, <3>3
  <2>5. Cardinality(DOMAIN clients') <= MaxConnections
    BY <1>1, <1>3, <2>1, <2>2, <2>4, WebservAssumption DEF WebservAssumption
  <2> QED
    BY <1>2, <1>13, <2>5 DEF LimitsInv
<1>16. /\ ext \in Seq(PollEntry) /\ Len(ext) = number
       /\ \A n \in 1..number : /\ ext[n].fd = taken[n] /\ ext[n].events = {"IN"}
                               /\ ext[n].revents = {}
  <2>1. \A n \in 1..number : Entry(taken[n], {"IN"}) \in PollEntry
    BY <1>5 DEF Entry, PollEntry, Sockets, Descriptors
  <2> QED
    BY <1>3, <1>4, <2>1 DEF Entry
<1> HIDE DEF ext
<1>17. PICK base : base = Seen(k)
  OBVIOUS
<1>18. /\ base \in Seq(PollEntry) /\ Len(base) = Len(pollfds)
       /\ \A j \in 1..Len(pollfds) :
            /\ base[j].fd = pollfds[j].fd /\ base[j].events = pollfds[j].events
            /\ base[j].revents = IF j = k THEN {} ELSE pollfds[j].revents
  <2>1. TableOK(base)
    BY <1>2, <1>17, SeenTable
  <2>2. base \in Seq(PollEntry)
    BY <2>1 DEF TableOK
  <2> QED
    BY <1>2, <1>17, <2>2, SeenTable
<1>19. \A j \in 1..Len(pollfds) :
         /\ pollfds[j].fd \in DOMAIN files /\ pollfds[j].fd \notin new
         /\ pollfds[j].events = Wanted(pollfds[j].fd)
  BY <1>2, <1>7 DEF TableOK
<1>20. \A fd \in DOMAIN files : Wanted(fd)' = Wanted(fd)
  BY <1>7, <1>8, <1>9 DEF Wanted
<1>21. \A fd \in new : Wanted(fd)' = {"IN"}
  BY <1>9, <1>10 DEF Wanted
<1>22. PICK entries : entries = pollfds'
  OBVIOUS
<1>23. TableOK(entries)'
  <2>1. \A j \in 1..Len(base) :
          base[j].fd = pollfds[j].fd /\ base[j].events = Wanted(base[j].fd)'
    BY <1>18, <1>19, <1>20
  <2>2. \A n \in 1..Len(ext) :
          ext[n].fd \notin DOMAIN files /\ ext[n].events = Wanted(ext[n].fd)'
    <3> TAKE n \in 1..Len(ext)
    <3>1. ext[n].fd = taken[n] /\ ext[n].events = {"IN"} /\ taken[n] \in new
      BY <1>6, <1>16
    <3>2. Wanted(taken[n])' = {"IN"}
      BY <1>21, <3>1
    <3> QED
      BY <1>7, <3>1, <3>2 DEF Wanted
  <2>3. \A a, b \in 1..Len(ext) : ext[a].fd = ext[b].fd => a = b
    BY <1>5, <1>16
  <2>4. DOMAIN files' = DOMAIN files \cup {ext[n].fd : n \in 1..Len(ext)}
    BY <1>6, <1>9, <1>16
  <2> QED
    <3>1. entries = base \o ext
      BY <1>8, <1>17, <1>22
    <3>2. ext \in Seq(PollEntry) /\ base \in Seq(PollEntry) /\ Len(base) = Len(pollfds)
      BY <1>16, <1>18
    <3>3. PICK table : table = pollfds
      OBVIOUS
    <3>4. TableOK(table) /\ Len(base) = Len(table)
      BY <1>2, <3>2, <3>3
    <3>5. \A j \in 1..Len(base) :
            base[j].fd = table[j].fd /\ base[j].events = Wanted(base[j].fd)'
      BY <2>1, <3>3
    <3> QED
      BY <2>2, <2>3, <2>4, <3>1, <3>2, <3>4, <3>5, GrowTable
<1>24. ReportOK(entries)'
  <2>1. ReportOK(base)'
    <3>1. ASSUME NEW j \in 1..Len(base)
          PROVE  base[j].fd \in DOMAIN clients' =>
                   base[j].revents \subseteq base[j].events \cup {"ERR"}
      BY <1>2, <1>9, <1>18, <1>19 DEF ReportOK
    <3>2. ASSUME NEW j \in 1..Len(base), base[j].fd \in DOMAIN cgiOutputOwners',
                 base[j].revents # {}
          PROVE  LET script == scripts'[clients'[cgiOutputOwners'[base[j].fd]].cgiPid]
                 IN script.data \/ ~script.writer
      <4>1. cgiOutputOwners[base[j].fd] \in DOMAIN clients
        BY <1>2, <1>8, <3>2 DEF FilesInv
      <4> QED
        BY ZenonT(60), <1>2, <1>8, <1>9, <1>18, <3>2, <4>1 DEF ReportOK
    <3> QED
      BY <3>1, <3>2 DEF ReportOK
  <2> QED
    BY <1>8, <1>16, <1>17, <1>18, <1>22, <2>1, GrowReport
<1>25. TableOK(pollfds)' /\ ReportOK(pollfds)'
  BY <1>22, <1>23, <1>24 DEF TableOK, ReportOK
<1>26. Life!Accept
  <2>1. LifeIs
    BY <1>2, LifeOfTables
  <2>2. LifeIs'
    BY <1>11, <1>14, LifeOfTables, PTL
  <2>3. new \in SUBSET Life!In("closed")
    <3>1. \A f \in new : f \in Descriptors
      BY <1>7 DEF Sockets, Descriptors
    <3>2. \A f \in new : conn[f] = "closed"
      BY <1>7, <2>1, <3>1 DEF LifeIs
    <3> QED
      BY <3>1, <3>2 DEF Life!In, conn
  <2>4. DOMAIN clients \subseteq Descriptors
    BY <1>2 DEF ClientInv, Sockets, Descriptors
  <2>5. Life!Open = DOMAIN clients
    <3>1. \A f \in Descriptors : conn[f] = "closed" <=> f \notin DOMAIN clients
      BY <2>1 DEF LifeIs
    <3> QED
      BY <2>4, <3>1 DEF Life!Open, Life!In, conn
  <2>6. Cardinality(Life!Open \cup new) <= MaxConnections
    BY <1>9, <1>15, <2>5 DEF LimitsInv
  <2>7. conn' = Life!Move(new, "reading")
    <3>1. \A f \in Descriptors : conn'[f] = IF f \in new THEN "reading" ELSE conn[f]
      BY <1>9, <1>10, <1>13, <2>1, <2>2 DEF LifeIs, RunningCgi
    <3> QED
      BY <3>1 DEF conn, Life!Move
  <2> QED
    BY <2>3, <2>6, <2>7, LifeCounts DEF Life!Accept, conn
<1>27. Whole
  BY <1>2, <1>9, <1>13 DEF Whole, ClientInv, RunningCgi
<1>28. i' \in Nat /\ i' > 0
  BY <1>2, <1>8
<1> QED
  BY <1>2, <1>8, <1>11, <1>12, <1>14, <1>15, <1>25, <1>26, <1>27, <1>28
     DEF Keeps, WebInv, UpInv, Life!Next

\* New masks for some of the entries.
LEMMA MaskedTable ==
  ASSUME NEW table \in Seq(PollEntry), NEW asks,
         \A f \in DOMAIN asks : asks[f] \in SUBSET {"IN", "OUT"},
         NEW new, new = WithEvents(table, asks)
  PROVE  /\ new \in Seq(PollEntry) /\ Len(new) = Len(table)
         /\ \A j \in 1..Len(table) :
              /\ new[j].fd = table[j].fd /\ new[j].revents = table[j].revents
              /\ new[j].events = IF table[j].fd \in DOMAIN asks THEN asks[table[j].fd]
                                 ELSE table[j].events
<1>1. DOMAIN table = 1..Len(table) /\ \A j \in 1..Len(table) : table[j] \in PollEntry
  OBVIOUS
<1>2. /\ DOMAIN new = 1..Len(table) /\ new = [j \in 1..Len(table) |-> new[j]]
      /\ \A j \in 1..Len(table) :
           /\ new[j] \in PollEntry
           /\ new[j].fd = table[j].fd /\ new[j].revents = table[j].revents
           /\ new[j].events = IF table[j].fd \in DOMAIN asks THEN asks[table[j].fd]
                              ELSE table[j].events
  BY <1>1 DEF WithEvents, PollEntry
<1>3. Len(table) \in Nat
  OBVIOUS
<1>4. new \in Seq(PollEntry) /\ Len(new) = Len(table)
  BY <1>2, <1>3
<1> QED
  BY <1>2, <1>4

\* A script is started for a client whose request is complete.
LEMMA StartCgiKeeps ==
  ASSUME NEW k, OnEntry(k), StartCgi(k)
  PROVE  Keeps
<1>1. /\ ClientInv /\ FilesInv /\ TableOK(pollfds) /\ ScriptsInv /\ LimitsInv
      /\ pc = "scan" /\ k \in 1..Len(pollfds) /\ ReportOK(pollfds)
  BY DEF OnEntry, UpInv
<1>2. PICK f : f = pollfds[k].fd
  OBVIOUS
<1>3. PICK inputFd : inputFd = FreeDescriptors[2]
  OBVIOUS
<1>4. PICK outputFd : outputFd = FreeDescriptors[3]
  OBVIOUS
<1>5. PICK body \in BodySizes, pid \in FreePid :
       LET fed == body > 0
       IN /\ clients' = [clients EXCEPT ![f] =
               [AfterRequest(k) EXCEPT
                  !.cgiPid = pid, !.cgiOutputFd = outputFd,
                  !.cgiInputFd = IF fed THEN inputFd ELSE None,
                  !.input = 0, !.cgiInput = body]]
          /\ files' = Put(Put(files, Just(outputFd, <<"stdout", pid>>)),
                          IF fed THEN Just(inputFd, <<"stdin", pid>>) ELSE <<>>)
          /\ cgiOutputOwners' = Put(cgiOutputOwners, Just(outputFd, f))
          /\ cgiInputOwners' =
               Put(cgiInputOwners, IF fed THEN Just(inputFd, f) ELSE <<>>)
          /\ GoOn(k, WithEvents(Seen(k), Just(f, {})) \o <<Entry(outputFd, {"IN"})>>
                     \o (IF fed THEN <<Entry(inputFd, {"OUT"})>> ELSE <<>>))
          /\ scripts' = Put(scripts, Just(pid, [state |-> "run", reader |-> TRUE, writer |-> TRUE,
                                              full |-> FALSE, data |-> FALSE]))
  BY <1>2, <1>3, <1>4 DEF StartCgi
<1> DEFINE fed == body > 0
<1>6. /\ f \in DOMAIN clients /\ clients[f] \in ClientState
      /\ clients[f].cgiPid = None /\ clients[f].output = "none"
      /\ clients[f].cgiInputFd = None /\ clients[f].cgiOutputFd = None
  BY <1>2, ClientIs DEF StartCgi, Requested, Readable
<1>7. /\ inputFd \in Sockets /\ outputFd \in Sockets /\ inputFd # outputFd
      /\ inputFd \notin DOMAIN files /\ outputFd \notin DOMAIN files
  <2>1. 2 \in 1..Len(FreeDescriptors) /\ 3 \in 1..Len(FreeDescriptors)
    BY FreeIs DEF StartCgi
  <2> QED
    BY <1>3, <1>4, <2>1, FreeIs
<1>8. inputFd # None /\ outputFd # None /\ inputFd \in Descriptors /\ outputFd \in Descriptors
  BY <1>7 DEF Sockets, Descriptors, None
<1>9. pid \in Pids /\ pid \notin DOMAIN scripts /\ pid # None
  BY WebservAssumption DEF FreePid, WebservAssumption, None
<1>10. /\ inputFd \notin DOMAIN clients /\ outputFd \notin DOMAIN clients
       /\ inputFd \notin DOMAIN cgiInputOwners /\ inputFd \notin DOMAIN cgiOutputOwners
       /\ outputFd \notin DOMAIN cgiInputOwners /\ outputFd \notin DOMAIN cgiOutputOwners
       /\ inputFd # Listener /\ outputFd # Listener
  BY <1>1, <1>7 DEF FilesInv
<1>11. DOMAIN <<>> = {}
  OBVIOUS
<1> DEFINE ins == IF fed THEN {inputFd} ELSE {}
<1>12. /\ DOMAIN files' = DOMAIN files \cup {outputFd} \cup ins
       /\ files'[outputFd] = <<"stdout", pid>>
       /\ fed => files'[inputFd] = <<"stdin", pid>>
       /\ \A fd \in DOMAIN files : files'[fd] = files[fd]
  BY <1>5, <1>7, <1>11 DEF Put, Just
<1>13. /\ DOMAIN cgiOutputOwners' = DOMAIN cgiOutputOwners \cup {outputFd}
       /\ cgiOutputOwners'[outputFd] = f
       /\ \A fd \in DOMAIN cgiOutputOwners : cgiOutputOwners'[fd] = cgiOutputOwners[fd]
  BY <1>5, <1>10 DEF Put, Just
<1>14. /\ DOMAIN cgiInputOwners' = DOMAIN cgiInputOwners \cup ins
       /\ fed => cgiInputOwners'[inputFd] = f
       /\ \A fd \in DOMAIN cgiInputOwners : cgiInputOwners'[fd] = cgiInputOwners[fd]
  BY <1>5, <1>10, <1>11 DEF Put, Just
<1>15. /\ DOMAIN scripts' = DOMAIN scripts \cup {pid}
       /\ scripts'[pid] = [state |-> "run", reader |-> TRUE, writer |-> TRUE,
                           full |-> FALSE, data |-> FALSE]
       /\ \A p \in DOMAIN scripts : scripts'[p] = scripts[p]
  BY <1>5, <1>9 DEF Put, Just
<1>16. PICK d : d = [AfterRequest(k) EXCEPT
                       !.cgiPid = pid, !.cgiOutputFd = outputFd,
                       !.cgiInputFd = IF fed THEN inputFd ELSE None,
                       !.input = 0, !.cgiInput = body]
  OBVIOUS
<1>17. /\ d \in ClientState /\ d.cgiPid = pid /\ d.output = "none" /\ d.cgiOutputFd = outputFd
       /\ d.cgiInputFd = IF fed THEN inputFd ELSE None
  <2>1. /\ AfterRequest(k) = [clients[f] EXCEPT !.input = @ + 1, !.overdue = FALSE]
        /\ clients[f].input + 1 \in 0..RequestLimit
    <3>1. clients[f].input + 1 <= RequestLimit
      BY <1>2 DEF StartCgi, Requested
    <3>2. clients[f].input \in Nat
      BY <1>6 DEF ClientState
    <3>3. AfterRequest(k) = [clients[f] EXCEPT !.input = @ + 1, !.overdue = FALSE]
      BY <1>2 DEF AfterRequest
    <3> QED
      BY <3>1, <3>2, <3>3, WebservAssumption DEF WebservAssumption
  <2>2. AfterRequest(k) \in ClientState /\ AfterRequest(k).output = "none"
    BY <1>6, <2>1 DEF ClientState
  <2>3. 0 \in 0..RequestLimit
    BY WebservAssumption DEF WebservAssumption
  <2>4. (IF fed THEN inputFd ELSE None) \in Descriptors \cup {None}
    BY <1>8
  <2> QED
    BY <1>8, <1>9, <1>16, <2>2, <2>3, <2>4 DEF ClientState
<1> HIDE DEF fed
<1>18. /\ DOMAIN clients' = DOMAIN clients /\ clients'[f] = d
       /\ \A g \in DOMAIN clients : g # f => clients'[g] = clients[g]
  BY <1>5, <1>6, <1>16 DEF fed
<1>19. i' \in {k, k + 1} /\ pc' = pc
  BY <1>5 DEF GoOn
<1>20. ClientInv'
  <2>1. ASSUME NEW g \in DOMAIN clients'
        PROVE  /\ g \in Sockets /\ clients'[g] \in ClientState
               /\ clients'[g].cgiPid = None =>
                    clients'[g].cgiInputFd = None /\ clients'[g].cgiOutputFd = None
               /\ clients'[g].cgiPid # None => clients'[g].output = "none"
    <3>1. CASE g = f
      BY <1>1, <1>6, <1>9, <1>17, <1>18, <3>1 DEF ClientInv
    <3>2. CASE g # f
      BY <1>1, <1>18, <3>2 DEF ClientInv
    <3> QED
      BY <3>1, <3>2
  <2> QED
    BY <2>1 DEF ClientInv
<1>21. FilesInv'
  <2>1. /\ DOMAIN files = {Listener} \cup DOMAIN clients \cup DOMAIN cgiInputOwners
                             \cup DOMAIN cgiOutputOwners
        /\ DOMAIN files \subseteq Descriptors
        /\ files[Listener] = <<"listener", None>>
    BY <1>1 DEF FilesInv
  <2>2. /\ DOMAIN files' = {Listener} \cup DOMAIN clients' \cup DOMAIN cgiInputOwners'
                             \cup DOMAIN cgiOutputOwners'
        /\ DOMAIN files' \subseteq Descriptors
        /\ files'[Listener] = <<"listener", None>>
    BY <1>8, <1>12, <1>13, <1>14, <1>18, <2>1
  <2>3. ASSUME NEW g \in DOMAIN clients'
        PROVE  LET c == clients'[g]
               IN /\ files'[g] = <<"client", None>>
                  /\ c.cgiInputFd # None =>
                       c.cgiInputFd \in DOMAIN cgiInputOwners' /\ cgiInputOwners'[c.cgiInputFd] = g
                  /\ c.cgiOutputFd # None =>
                       c.cgiOutputFd \in DOMAIN cgiOutputOwners' /\ cgiOutputOwners'[c.cgiOutputFd] = g
    <3>1. files'[g] = <<"client", None>>
      <4>1. g \in DOMAIN files /\ files[g] = <<"client", None>>
        BY <1>1, <1>18, <2>1 DEF FilesInv
      <4> QED
        BY <1>12, <4>1
    <3>2. CASE g = f
      BY <1>13, <1>14, <1>17, <1>18, <3>1, <3>2
    <3>3. CASE g # f
      <4>1. clients'[g] = clients[g] /\ g \in DOMAIN clients
        BY <1>18, <3>3
      <4> QED
        BY <1>1, <1>13, <1>14, <3>1, <4>1 DEF FilesInv
    <3> QED
      BY <3>2, <3>3
  <2>4. ASSUME NEW fd \in DOMAIN cgiInputOwners'
        PROVE  LET g == cgiInputOwners'[fd]
               IN /\ g \in DOMAIN clients' /\ clients'[g].cgiInputFd = fd
                  /\ files'[fd] = <<"stdin", clients'[g].cgiPid>>
    <3>1. CASE fd \in DOMAIN cgiInputOwners
      <4>1. cgiInputOwners[fd] # f /\ fd \in DOMAIN files
        BY <1>1, <1>6, <2>1, <3>1, PipesOf DEF RunningCgi
      <4> QED
        BY <1>1, <1>12, <1>14, <1>18, <3>1, <4>1 DEF FilesInv
    <3>2. CASE fd = inputFd /\ fed
      BY <1>6, <1>12, <1>14, <1>17, <1>18, <3>2
    <3> QED
      BY <1>14, <3>1, <3>2
  <2>5. ASSUME NEW fd \in DOMAIN cgiOutputOwners'
        PROVE  LET g == cgiOutputOwners'[fd]
               IN /\ g \in DOMAIN clients' /\ clients'[g].cgiOutputFd = fd
                  /\ files'[fd] = <<"stdout", clients'[g].cgiPid>>
    <3>1. CASE fd \in DOMAIN cgiOutputOwners
      <4>1. cgiOutputOwners[fd] # f /\ fd \in DOMAIN files
        BY <1>1, <1>6, <2>1, <3>1, PipesOf DEF RunningCgi
      <4> QED
        BY <1>1, <1>12, <1>13, <1>18, <3>1, <4>1 DEF FilesInv
    <3>2. CASE fd = outputFd
      BY <1>6, <1>12, <1>13, <1>17, <1>18, <3>2
    <3> QED
      BY <1>13, <3>1, <3>2
  <2> QED
    BY <2>2, <2>3, <2>4, <2>5 DEF FilesInv
<1>22. RunningCgi' = RunningCgi \cup {f} /\ f \notin RunningCgi
  BY <1>6, <1>9, <1>17, <1>18 DEF RunningCgi
<1>23. \A g \in RunningCgi : /\ g # f /\ g \in DOMAIN clients /\ clients'[g] = clients[g]
                             /\ clients[g].cgiPid \in DOMAIN scripts
                             /\ clients[g].cgiPid # pid
  BY <1>1, <1>9, <1>18, <1>22, ScriptOf DEF RunningCgi
<1>24. ScriptsInv'
  <2>1. ChildrenExact'
    <3>1. DOMAIN scripts' = {clients'[g].cgiPid : g \in RunningCgi'}
      BY <1>1, <1>15, <1>17, <1>18, <1>22, <1>23 DEF ScriptsInv, ChildrenExact
    <3>2. \A g, h \in RunningCgi' : clients'[g].cgiPid = clients'[h].cgiPid => g = h
      BY <1>1, <1>17, <1>18, <1>22, <1>23, ScriptOf
    <3> QED
      BY <3>1, <3>2 DEF ChildrenExact
  <2>2. OutputInv'
    <3>1. ASSUME NEW g \in RunningCgi', clients'[g].cgiOutputFd = None
          PROVE  ~scripts'[clients'[g].cgiPid].data /\ ~scripts'[clients'[g].cgiPid].writer
      <4>1. g \in RunningCgi
        BY <1>8, <1>17, <1>18, <1>22, <3>1
      <4> QED
        BY <1>1, <1>15, <1>23, <3>1, <4>1 DEF ScriptsInv, OutputInv
    <3> QED
      BY <3>1 DEF OutputInv
  <2>3. \A p \in DOMAIN scripts' : scripts'[p] \in Script
    <3>1. scripts'[pid] \in Script
      BY <1>15 DEF Script
    <3> QED
      BY <1>1, <1>15, <3>1 DEF ScriptsInv
  <2>4. DOMAIN scripts' \subseteq Pids
    BY <1>1, <1>9, <1>15 DEF ScriptsInv
  <2> QED
    BY <2>1, <2>2, <2>3, <2>4 DEF ScriptsInv
<1>25. /\ IsFiniteSet(RunningCgi) /\ Cardinality(RunningCgi) \in Nat
       /\ Cardinality(RunningCgi) < MaxCgiProcesses
  <2>1. IsFiniteSet(RunningCgi) /\ Cardinality(RunningCgi) \in Nat
    BY <1>1, SocketsAreFinite DEF ClientInv, RunningCgi
  <2> QED
    BY <2>1, WebservAssumption DEF StartCgi, CgiIsFull, WebservAssumption
<1>26. LimitsInv'
  <2>1. Cardinality(RunningCgi') = Cardinality(RunningCgi) + 1
    BY <1>22, <1>25, FS_AddElement
  <2> QED
    BY <1>1, <1>18, <1>25, <2>1, WebservAssumption DEF LimitsInv, WebservAssumption
<1>27. Life!Start
  <2>1. LifeIs
    BY <1>1, LifeOfTables
  <2>2. LifeIs'
    BY <1>20, <1>24, LifeOfTables, PTL
  <2>3. DOMAIN clients \subseteq Descriptors
    BY <1>1 DEF ClientInv, Sockets, Descriptors
  <2>4. f \in Life!In("reading")
    BY <1>6, <1>22, <2>1, <2>3 DEF LifeIs, Life!In, conn
  <2>5. Life!In("running") = RunningCgi
    <3>1. \A g \in Descriptors : conn[g] = "running" <=> g \in RunningCgi
      BY <2>1 DEF LifeIs, RunningCgi
    <3>2. RunningCgi \subseteq Descriptors
      BY <2>3 DEF RunningCgi
    <3> QED
      BY <3>1, <3>2 DEF Life!In, conn
  <2>6. conn' = Life!Move({f}, "running")
    <3>1. \A g \in Descriptors : conn'[g] = IF g \in {f} THEN "running" ELSE conn[g]
      BY <1>6, <1>18, <1>22, <2>1, <2>2 DEF LifeIs
    <3> QED
      BY <3>1 DEF conn, Life!Move
  <2> QED
    BY <1>25, <2>4, <2>5, <2>6, LifeCounts DEF Life!Start, conn
<1>28. Whole
  BY <1>1, <1>23 DEF Whole, ClientInv, RunningCgi
<1>29. i' \in Nat /\ i' > 0
  BY <1>1, <1>19
<1>30. TableOK(pollfds)' /\ ReportOK(pollfds)'
  <2>1. PICK seen : seen = Seen(k)
    OBVIOUS
  <2>2. /\ TableOK(seen) /\ seen \in Seq(PollEntry) /\ Len(seen) = Len(pollfds)
        /\ \A j \in 1..Len(pollfds) :
             /\ seen[j].fd = pollfds[j].fd /\ seen[j].events = pollfds[j].events
             /\ seen[j].revents = IF j = k THEN {} ELSE pollfds[j].revents
    <3>1. TableOK(seen)
      BY <1>1, <2>1, SeenTable
    <3>2. seen \in Seq(PollEntry)
      BY <3>1 DEF TableOK
    <3> QED
      BY <1>1, <2>1, <3>1, <3>2, SeenTable
  <2>3. PICK base : base = WithEvents(seen, Just(f, {}))
    OBVIOUS
  <2>4. DOMAIN Just(f, {}) = {f} /\ Just(f, {})[f] = {}
    BY DEF Just
  <2>5. /\ base \in Seq(PollEntry) /\ Len(base) = Len(pollfds)
        /\ \A j \in 1..Len(pollfds) :
             /\ base[j].fd = pollfds[j].fd
             /\ base[j].revents = IF j = k THEN {} ELSE pollfds[j].revents
             /\ base[j].events = IF pollfds[j].fd = f THEN {} ELSE pollfds[j].events
    <3>1. /\ base \in Seq(PollEntry) /\ Len(base) = Len(seen)
          /\ \A j \in 1..Len(seen) :
               /\ base[j].fd = seen[j].fd /\ base[j].revents = seen[j].revents
               /\ base[j].events = IF seen[j].fd \in DOMAIN Just(f, {}) THEN Just(f, {})[seen[j].fd]
                                   ELSE seen[j].events
      BY <2>2, <2>3, <2>4, MaskedTable
    <3> QED
      BY <2>2, <2>4, <3>1
  <2>6. \A j \in 1..Len(pollfds) :
          /\ pollfds[j].fd \in DOMAIN files
          /\ pollfds[j].events = Wanted(pollfds[j].fd)
          /\ pollfds[j].fd = f => j = k
    BY <1>1, <1>2 DEF TableOK
  <2>7. \A fd \in DOMAIN files : Wanted(fd)' = IF fd = f THEN {} ELSE Wanted(fd)
    <3> TAKE fd \in DOMAIN files
    <3>1. fd \in DOMAIN cgiInputOwners' <=> fd \in DOMAIN cgiInputOwners
      BY <1>7, <1>14
    <3>2. fd = f => clients'[fd].cgiPid # None /\ fd \in DOMAIN clients'
      BY <1>6, <1>9, <1>17, <1>18
    <3>3. fd \in DOMAIN clients' <=> fd \in DOMAIN clients
      BY <1>18
    <3>4. fd # f /\ fd \in DOMAIN clients => clients'[fd] = clients[fd]
      BY <1>18
    <3> QED
      BY <3>1, <3>2, <3>3, <3>4 DEF Wanted
  <2>8. Wanted(outputFd)' = {"IN"} /\ (fed => Wanted(inputFd)' = {"OUT"})
    BY <1>7, <1>10, <1>14, <1>18 DEF Wanted
  <2>9. PICK ext : ext = <<Entry(outputFd, {"IN"})>>
                          \o (IF fed THEN <<Entry(inputFd, {"OUT"})>> ELSE <<>>)
    OBVIOUS
  <2>10. /\ Entry(outputFd, {"IN"}) \in PollEntry /\ Entry(inputFd, {"OUT"}) \in PollEntry
         /\ Entry(outputFd, {"IN"}).fd = outputFd /\ Entry(inputFd, {"OUT"}).fd = inputFd
         /\ Entry(outputFd, {"IN"}).events = {"IN"} /\ Entry(inputFd, {"OUT"}).events = {"OUT"}
         /\ Entry(outputFd, {"IN"}).revents = {} /\ Entry(inputFd, {"OUT"}).revents = {}
    BY <1>8 DEF Entry, PollEntry
  <2>11. /\ ext \in Seq(PollEntry) /\ Len(ext) = (IF fed THEN 2 ELSE 1)
         /\ ext[1] = Entry(outputFd, {"IN"})
         /\ fed => ext[2] = Entry(inputFd, {"OUT"})
    BY <2>9, <2>10
  <2>12. \A n \in 1..Len(ext) :
           \/ n = 1 /\ ext[n] = Entry(outputFd, {"IN"})
           \/ n = 2 /\ fed /\ ext[n] = Entry(inputFd, {"OUT"})
    BY <2>11
  <2>13. PICK entries : entries = pollfds'
    OBVIOUS
  <2>14. entries = base \o ext
    <3>1. entries = base \o <<Entry(outputFd, {"IN"})>>
                    \o (IF fed THEN <<Entry(inputFd, {"OUT"})>> ELSE <<>>)
      BY <1>5, <2>1, <2>3, <2>13 DEF GoOn, fed
    <3>2. /\ <<Entry(outputFd, {"IN"})>> \in Seq(PollEntry)
          /\ (IF fed THEN <<Entry(inputFd, {"OUT"})>> ELSE <<>>) \in Seq(PollEntry)
      BY <2>10
    <3> QED
      BY <2>5, <2>9, <3>1, <3>2, ConcatAssociative
  <2>15. TableOK(entries)'
    <3>1. \A j \in 1..Len(base) :
            base[j].fd = pollfds[j].fd /\ base[j].events = Wanted(base[j].fd)'
      BY <2>5, <2>6, <2>7
    <3>2. \A n \in 1..Len(ext) :
            ext[n].fd \notin DOMAIN files /\ ext[n].events = Wanted(ext[n].fd)'
      <4> TAKE n \in 1..Len(ext)
      <4>1. CASE n = 1 /\ ext[n] = Entry(outputFd, {"IN"})
        BY <1>7, <2>8, <2>10, <4>1 DEF Wanted
      <4>2. CASE n = 2 /\ fed /\ ext[n] = Entry(inputFd, {"OUT"})
        BY <1>7, <2>8, <2>10, <4>2 DEF Wanted
      <4> QED
        BY <2>12, <4>1, <4>2
    <3>3. \A a, b \in 1..Len(ext) : ext[a].fd = ext[b].fd => a = b
      BY <1>7, <2>10, <2>12
    <3>4. DOMAIN files' = DOMAIN files \cup {ext[n].fd : n \in 1..Len(ext)}
      <4>1. {ext[n].fd : n \in 1..Len(ext)} = {outputFd} \cup ins
        BY <2>10, <2>11, <2>12
      <4> QED
        BY <1>12, <4>1
    <3>5. PICK table : table = pollfds
      OBVIOUS
    <3>6. TableOK(table) /\ Len(base) = Len(table)
      BY <1>1, <2>5, <3>5
    <3>7. \A j \in 1..Len(base) :
            base[j].fd = table[j].fd /\ base[j].events = Wanted(base[j].fd)'
      BY <3>1, <3>5
    <3> QED
      BY <2>5, <2>11, <2>14, <3>2, <3>3, <3>4, <3>6, <3>7, GrowTable
  <2>16. ReportOK(base)'
    <3>1. ASSUME NEW j \in 1..Len(base), base[j].fd \in DOMAIN clients'
          PROVE  base[j].revents \subseteq base[j].events \cup {"ERR"}
      BY <1>1, <1>18, <2>5, <2>6, <3>1 DEF ReportOK
    <3>2. ASSUME NEW j \in 1..Len(base), base[j].fd \in DOMAIN cgiOutputOwners',
                 base[j].revents # {}
          PROVE  LET script == scripts'[clients'[cgiOutputOwners'[base[j].fd]].cgiPid]
                 IN script.data \/ ~script.writer
      <4>1. base[j].fd = pollfds[j].fd /\ j \in 1..Len(pollfds) /\ pollfds[j].revents # {}
        BY <2>5, <3>2
      <4>2. base[j].fd \in DOMAIN cgiOutputOwners
        BY <1>7, <1>13, <2>6, <3>2, <4>1
      <4>3. cgiOutputOwners[base[j].fd] \in RunningCgi
        BY <1>1, <4>2, PipesOf
      <4>4. LET script == scripts[clients[cgiOutputOwners[base[j].fd]].cgiPid]
            IN script.data \/ ~script.writer
        BY <1>1, <4>1, <4>2 DEF ReportOK
      <4> QED
        BY <1>13, <1>15, <1>23, <4>2, <4>3, <4>4
    <3> QED
      BY <3>1, <3>2 DEF ReportOK
  <2>17. ReportOK(entries)'
    <3>1. \A n \in 1..Len(ext) : ext[n].revents = {}
      BY <2>10, <2>12
    <3> QED
      BY <2>5, <2>11, <2>14, <2>16, <3>1, GrowReport
  <2> QED
    BY <2>13, <2>15, <2>17 DEF TableOK, ReportOK
<1> QED
  BY <1>1, <1>19, <1>20, <1>21, <1>24, <1>26, <1>27, <1>28, <1>29, <1>30
     DEF Keeps, WebInv, UpInv, Life!Next

(***************************************************************************)
(* After the scan                                                          *)
(***************************************************************************)

\* The clients of A get their answers, those of C, which have no script, go.
Answering(cs, A, C) ==
  /\ A \subseteq DOMAIN clients /\ C \subseteq DOMAIN clients /\ A \cap C = {}
  /\ DOMAIN cs = DOMAIN clients \ C
  /\ \A f \in A : \E what \in {"own", "cgi"} :
       /\ cs[f] = Answered(clients[f], what)
       /\ what = "cgi" /\ f \in RunningCgi =>
            LET script == scripts[clients[f].cgiPid]
            IN script.state = "ok" /\ ~script.data /\ ~script.writer
  /\ \A f \in DOMAIN cs \ A : cs[f] = clients[f]
  /\ \A f \in C : clients[f].cgiPid = None

LEMMA AnsweringIs ==
  ASSUME NEW cs, NEW A, NEW C, Answering(cs, A, C), ClientInv, NEW f \in A
  PROVE  /\ f \in DOMAIN cs /\ f \in DOMAIN clients
         /\ Fits(f, cs[f], Pipes(clients[f]), Just(f, {"OUT"}))
         /\ cs[f].cgiPid = None /\ cs[f].output # "none"
         /\ cs[f].cgiInputFd = None /\ cs[f].cgiOutputFd = None
         /\ WantedOf(cs[f]) = {"OUT"}
<1>1. f \in DOMAIN cs /\ f \in DOMAIN clients /\ clients[f] \in ClientState
  BY DEF Answering, ClientInv
<1>2. PICK what \in {"own", "cgi"} : cs[f] = Answered(clients[f], what)
  BY DEF Answering
<1>3. /\ Fits(f, cs[f], Pipes(clients[f]), Just(f, {"OUT"}))
      /\ cs[f].cgiPid = None /\ cs[f].output = what
  BY <1>1, <1>2, AnsweredFits
<1>4. cs[f].cgiInputFd = None /\ cs[f].cgiOutputFd = None
  BY <1>3 DEF Fits
<1> QED
  BY <1>1, <1>3, <1>4 DEF WantedOf

LEMMA AnsweringShrinks ==
  ASSUME ClientInv, FilesInv, NEW cs, NEW A, NEW C, Answering(cs, A, C),
         NEW gone, gone = C \cup UNION {Pipes(clients[f]) : f \in A}
  PROVE  Shrinks(cs, gone, [f \in A |-> {"OUT"}])
<1> DEFINE asks == [f \in A |-> {"OUT"}]
<1>1. /\ DOMAIN asks = A /\ \A f \in A : asks[f] = {"OUT"}
      /\ A \subseteq DOMAIN cs /\ DOMAIN cs \subseteq DOMAIN clients
  BY DEF Answering
<1>2. ASSUME NEW f \in DOMAIN cs
      PROVE  LET c == clients[f]
                 d == cs[f]
             IN /\ d \in ClientState
                /\ d.cgiPid \in {None, c.cgiPid}
                /\ d.cgiInputFd \in {None, c.cgiInputFd}
                /\ d.cgiOutputFd \in {None, c.cgiOutputFd}
                /\ d.cgiPid = None => d.cgiInputFd = None /\ d.cgiOutputFd = None
                /\ d.cgiPid # None => d.output = "none"
                /\ d.cgiPid # c.cgiPid \/ c.output # "none" => d.output # "none"
                /\ IF f \in DOMAIN asks THEN asks[f] = WantedOf(d)
                   ELSE WantedOf(d) = WantedOf(c)
  <2>1. CASE f \in A
    BY <1>1, <2>1, AnsweringIs DEF Fits
  <2>2. CASE f \notin A
    <3>1. cs[f] = clients[f] /\ f \in DOMAIN clients
      BY <2>2 DEF Answering
    <3> QED
      BY <1>1, <2>2, <3>1 DEF ClientInv
  <2> QED
    BY <2>1, <2>2
<1>3. C = DOMAIN clients \ DOMAIN cs
  BY DEF Answering
<1>4. \A f \in A : cs[f].cgiInputFd = None /\ cs[f].cgiOutputFd = None
  BY AnsweringIs
<1>5. \A fd \in DOMAIN cgiInputOwners :
        \/ cgiInputOwners[fd] \notin DOMAIN cs
        \/ cs[cgiInputOwners[fd]].cgiInputFd = None
        <=> cgiInputOwners[fd] \in A
  <2> TAKE fd \in DOMAIN cgiInputOwners
  <2>1. /\ cgiInputOwners[fd] \in DOMAIN clients /\ cgiInputOwners[fd] \notin C
        /\ clients[cgiInputOwners[fd]].cgiInputFd # None
    BY PipesOf DEF Answering, RunningCgi
  <2> QED
    BY <1>1, <1>3, <1>4, <2>1 DEF Answering
<1>6. \A fd \in DOMAIN cgiOutputOwners :
        \/ cgiOutputOwners[fd] \notin DOMAIN cs
        \/ cs[cgiOutputOwners[fd]].cgiOutputFd = None
        <=> cgiOutputOwners[fd] \in A
  <2> TAKE fd \in DOMAIN cgiOutputOwners
  <2>1. /\ cgiOutputOwners[fd] \in DOMAIN clients /\ cgiOutputOwners[fd] \notin C
        /\ clients[cgiOutputOwners[fd]].cgiOutputFd # None
    BY PipesOf DEF Answering, RunningCgi
  <2> QED
    BY <1>1, <1>3, <1>4, <2>1 DEF Answering
<1>7. UNION {Pipes(clients[f]) : f \in A}
        = {fd \in DOMAIN cgiInputOwners : cgiInputOwners[fd] \in A}
          \cup {fd \in DOMAIN cgiOutputOwners : cgiOutputOwners[fd] \in A}
  <2>1. \A f \in A : f \in DOMAIN clients
    BY DEF Answering
  <2>2. \A fd : fd \in UNION {Pipes(clients[f]) : f \in A} <=>
          \E f \in A : fd # None /\ (fd = clients[f].cgiInputFd \/ fd = clients[f].cgiOutputFd)
    BY DEF Pipes
  <2>3. \A fd : (\E f \in A : fd # None /\ fd = clients[f].cgiInputFd) <=>
          fd \in DOMAIN cgiInputOwners /\ cgiInputOwners[fd] \in A
    BY <2>1, PipesOf
  <2>4. \A fd : (\E f \in A : fd # None /\ fd = clients[f].cgiOutputFd) <=>
          fd \in DOMAIN cgiOutputOwners /\ cgiOutputOwners[fd] \in A
    BY <2>1, PipesOf
  <2> QED
    BY <2>2, <2>3, <2>4
<1>8. gone = (DOMAIN clients \ DOMAIN cs)
             \cup {fd \in DOMAIN cgiInputOwners :
                    \/ cgiInputOwners[fd] \notin DOMAIN cs
                    \/ cs[cgiInputOwners[fd]].cgiInputFd = None}
             \cup {fd \in DOMAIN cgiOutputOwners :
                    \/ cgiOutputOwners[fd] \notin DOMAIN cs
                    \/ cs[cgiOutputOwners[fd]].cgiOutputFd = None}
  BY <1>3, <1>5, <1>6, <1>7
<1> QED
  BY <1>1, <1>2, <1>8 DEF Shrinks

LEMMA AnsweringScripts ==
  ASSUME ClientInv, ScriptsInv, NEW cs, NEW A, NEW C, Answering(cs, A, C),
         scripts' = Drop(scripts, {clients[f].cgiPid : f \in A \cap RunningCgi})
  PROVE  ScriptsFollow(cs)
<1>1. {g \in RunningCgi : g \in DOMAIN cs => cs[g].cgiPid = None} = A \cap RunningCgi
  <2>1. \A g \in RunningCgi : g \in A => g \in DOMAIN cs /\ cs[g].cgiPid = None
    BY AnsweringIs
  <2>2. \A g \in RunningCgi : g \notin A => g \in DOMAIN cs /\ cs[g].cgiPid # None
    BY DEF Answering, RunningCgi
  <2> QED
    BY <2>1, <2>2
<1>2. /\ DOMAIN scripts' = DOMAIN scripts \ {clients[f].cgiPid : f \in A \cap RunningCgi}
      /\ \A pid \in DOMAIN scripts' : scripts'[pid] = scripts[pid]
  BY DEF Drop, Restrict
<1>3. ASSUME NEW f \in DOMAIN cs, cs[f].cgiPid # None, cs[f].cgiOutputFd = None
      PROVE  ~scripts'[cs[f].cgiPid].data /\ ~scripts'[cs[f].cgiPid].writer
  <2>1. f \notin A
    BY <1>3, AnsweringIs
  <2>2. cs[f] = clients[f] /\ f \in RunningCgi
    BY <1>3, <2>1 DEF Answering, RunningCgi
  <2>3. clients[f].cgiPid \in DOMAIN scripts'
    BY <1>2, <2>1, <2>2, ScriptOf
  <2> QED
    BY <1>2, <1>3, <2>2, <2>3 DEF ScriptsInv, OutputInv
<1> QED
  BY <1>1, <1>2, <1>3 DEF ScriptsFollow, ScriptsInv

LEMMA AfterScanKeeps ==
  ASSUME UpInv, NEW cs, NEW A, NEW C, Answering(cs, A, C), NEW gone, NEW reaped,
         gone = C \cup UNION {Pipes(clients[f]) : f \in A},
         reaped = {clients[f].cgiPid : f \in A \cap RunningCgi},
         NEW next \in {"expire", "poll"}, AfterScan(cs, gone, A, reaped, next)
  PROVE  Keeps
<1> DEFINE asks == [f \in A |-> {"OUT"}]
<1>1. ClientInv /\ FilesInv /\ TableOK(pollfds) /\ ScriptsInv /\ LimitsInv
  BY DEF UpInv
<1>2. /\ clients' = cs /\ Close(gone) /\ pollfds' = NewTable(pollfds, gone, asks)
      /\ scripts' = Drop(scripts, reaped) /\ pc' = next /\ i' = 0
  BY DEF AfterScan
<1>3. Shrinks(cs, gone, asks)
  BY <1>1, AnsweringShrinks
<1>4. ScriptsFollow(cs)
  BY <1>1, <1>2, AnsweringScripts
<1> HIDE DEF asks
<1>5. ClientInv' /\ FilesInv'
  BY <1>1, <1>2, <1>3, ShrinkClients, ShrinkFiles
<1>6. TableOK(pollfds)'
  <2>1. PICK table, new : table = pollfds /\ new = pollfds'
    OBVIOUS
  <2>2. PICK needs : needs = asks
    OBVIOUS
  <2>3. TableOK(table) /\ new = NewTable(table, gone, needs) /\ Shrinks(cs, gone, needs)
    BY <1>1, <1>2, <1>3, <2>1, <2>2
  <2>4. TableOK(new)'
    BY <1>1, <1>2, <2>3, ShrinkTable
  <2> QED
    BY <2>1, <2>4 DEF TableOK
<1>7. ScriptsInv' /\ RunningCgi' \subseteq RunningCgi
  BY <1>1, <1>2, <1>3, <1>4, ShrinkScripts
<1>8. LimitsInv'
  <2>1. DOMAIN clients' \subseteq DOMAIN clients
    BY <1>2, <1>3 DEF Shrinks
  <2> QED
    BY <1>1, <1>7, <2>1, ShrinkLimits
<1>9. Life!Settle
  BY <1>1, <1>2, <1>3, <1>5, <1>7, ShrinkLife
<1>10. WebInv'
  BY <1>2, <1>5, <1>6, <1>7, <1>8 DEF WebInv, UpInv
<1>11. Whole
  <2> SUFFICES ASSUME NEW f \in RunningCgi, f \in DOMAIN cs, cs[f].output = "cgi"
               PROVE  LET script == scripts[clients[f].cgiPid]
                      IN script.state = "ok" /\ ~script.data /\ ~script.writer
    BY <1>2 DEF Whole
  <2>1. f \in A
    BY <1>1 DEF Answering, ClientInv, RunningCgi
  <2>2. PICK what \in {"own", "cgi"} :
          /\ cs[f] = Answered(clients[f], what)
          /\ what = "cgi" =>
               LET script == scripts[clients[f].cgiPid]
               IN script.state = "ok" /\ ~script.data /\ ~script.writer
    BY <2>1 DEF Answering
  <2>3. clients[f] \in ClientState
    BY <1>1 DEF ClientInv, RunningCgi
  <2>4. cs[f].output = what
    BY <2>2, <2>3, AnsweredFits
  <2> QED
    BY <2>2, <2>4
<1> QED
  BY <1>9, <1>10, <1>11 DEF Keeps, Life!Next

LEMMA ReapKeeps ==
  ASSUME UpInv, ReapCgi
  PROVE  Keeps
<1> DEFINE done == {f \in RunningCgi : /\ clients[f].cgiOutputFd = None
                                       /\ scripts[clients[f].cgiPid].state # "run"}
<1>1. PICK wellFormed \in SUBSET done :
        AfterScan([f \in DOMAIN clients |->
                     IF f \in done
                     THEN Finished(clients[f], scripts[clients[f].cgiPid].state, f \in wellFormed)
                     ELSE clients[f]],
                  UNION {Pipes(clients[f]) : f \in done}, done,
                  {clients[f].cgiPid : f \in done}, "expire")
  BY DEF ReapCgi
<1>2. PICK cs : cs = [f \in DOMAIN clients |->
                   IF f \in done
                   THEN Finished(clients[f], scripts[clients[f].cgiPid].state, f \in wellFormed)
                   ELSE clients[f]]
  OBVIOUS
<1>3. PICK A : A = done
  OBVIOUS
<1>4. A \subseteq RunningCgi /\ A \subseteq DOMAIN clients
  BY <1>3 DEF RunningCgi
<1>5. \A f \in A : \E what \in {"own", "cgi"} :
        /\ cs[f] = Answered(clients[f], what)
        /\ what = "cgi" /\ f \in RunningCgi =>
             LET script == scripts[clients[f].cgiPid]
             IN script.state = "ok" /\ ~script.data /\ ~script.writer
  <2> TAKE f \in A
  <2> DEFINE script == scripts[clients[f].cgiPid]
             what == Response(clients[f], script.state, f \in wellFormed)
  <2>1. what \in {"own", "cgi"} /\ (what = "cgi" => script.state = "ok")
    BY DEF Response
  <2>2. cs[f] = Answered(clients[f], what)
    BY <1>2, <1>3, <1>4 DEF Finished
  <2>3. ~script.data /\ ~script.writer
    BY <1>3 DEF UpInv, ScriptsInv, OutputInv
  <2> HIDE DEF what
  <2> QED
    BY <2>1, <2>2, <2>3
<1>6. Answering(cs, A, {})
  BY <1>2, <1>3, <1>4, <1>5 DEF Answering
<1>7. A \cap RunningCgi = A
  BY <1>4
<1>8. PICK gone, reaped : gone = UNION {Pipes(clients[f]) : f \in A}
                           /\ reaped = {clients[f].cgiPid : f \in A}
  OBVIOUS
<1>9. AfterScan(cs, gone, A, reaped, "expire")
  BY <1>1, <1>2, <1>3, <1>8
<1>10. gone = {} \cup UNION {Pipes(clients[f]) : f \in A}
  BY <1>8
<1>11. reaped = {clients[f].cgiPid : f \in A \cap RunningCgi}
  BY <1>7, <1>8
<1> HIDE DEF done
<1> QED
  BY <1>6, <1>9, <1>10, <1>11, AfterScanKeeps

LEMMA ExpireKeeps ==
  ASSUME UpInv, ExpireClients
  PROVE  Keeps
<1> DEFINE expired == {f \in DOMAIN clients : clients[f].overdue}
           running == expired \cap RunningCgi
           silent == {f \in expired \ running : Unanswered(clients[f])}
           closed == expired \ (running \cup silent)
<1>1. PICK cs : cs = [f \in DOMAIN clients \ closed |->
                   IF f \in running THEN Answered(clients[f], "own")
                   ELSE IF f \in silent THEN Answered(clients[f], "own")
                   ELSE clients[f]]
  OBVIOUS
<1>2. PICK A, C : A = running \cup silent /\ C = closed
  OBVIOUS
<1>3. PICK gone, reaped : gone = closed \cup UNION {Pipes(clients[f]) : f \in running}
                           /\ reaped = {clients[f].cgiPid : f \in running}
  OBVIOUS
<1>4. AfterScan(cs, gone, A, reaped, "poll")
  BY <1>1, <1>2, <1>3 DEF ExpireClients
<1>5. Answering(cs, A, C)
  <2>1. A \subseteq DOMAIN clients /\ C \subseteq DOMAIN clients /\ A \cap C = {}
    BY <1>2
  <2>2. DOMAIN cs = DOMAIN clients \ C
    BY <1>1, <1>2
  <2>3. \A f \in A : cs[f] = Answered(clients[f], "own")
    BY <1>1, <1>2
  <2>4. \A f \in DOMAIN cs \ A : cs[f] = clients[f]
    BY <1>1, <1>2
  <2>5. \A f \in C : clients[f].cgiPid = None
    BY <1>2 DEF RunningCgi
  <2> QED
    BY <2>1, <2>2, <2>3, <2>4, <2>5 DEF Answering
<1>6. \A f \in silent : Pipes(clients[f]) = {}
  BY DEF UpInv, ClientInv, RunningCgi, Pipes
<1>7. gone = C \cup UNION {Pipes(clients[f]) : f \in A}
  BY <1>2, <1>3, <1>6
<1>8. reaped = {clients[f].cgiPid : f \in A \cap RunningCgi}
  <2>1. A \cap RunningCgi = running
    BY <1>2
  <2> QED
    BY <1>3, <2>1
<1> HIDE DEF expired, running, silent, closed
<1> QED
  BY <1>4, <1>5, <1>7, <1>8, AfterScanKeeps

(***************************************************************************)
(* poll(), the end and the environment                                     *)
(***************************************************************************)

LEMMA PollKeeps ==
  ASSUME UpInv, Poll
  PROVE  Keeps
<1>1. /\ ClientInv /\ FilesInv /\ TableOK(pollfds) /\ ScriptsInv /\ LimitsInv
      /\ pollfds \in Seq(PollEntry)
  BY DEF UpInv, TableOK
<1>2. /\ pc' = "scan" /\ i' = 1
      /\ UNCHANGED <<clients, cgiInputOwners, cgiOutputOwners, files, scripts>>
  BY DEF Poll
<1>3. PICK heard, reset \in SUBSET ({Listener} \cup DOMAIN clients) :
        /\ heard \cap reset = {} /\ Listener \notin reset
        /\ LET Report(e) ==
                 IF e.fd \in heard THEN e.events
                 ELSE IF e.fd \in reset THEN {"ERR"}
                 ELSE IF files[e.fd][2] = None THEN {}
                 ELSE PipeReport(files[e.fd][1], scripts[files[e.fd][2]])
           IN pollfds' = [j \in DOMAIN pollfds |->
                            [pollfds[j] EXCEPT !.revents = Report(pollfds[j])]]
  BY DEF Poll
<1> DEFINE Report(e) ==
             IF e.fd \in heard THEN e.events
             ELSE IF e.fd \in reset THEN {"ERR"}
             ELSE IF files[e.fd][2] = None THEN {}
             ELSE PipeReport(files[e.fd][1], scripts[files[e.fd][2]])
<1>4. PICK new : new = pollfds'
  OBVIOUS
<1>5. new = [j \in 1..Len(pollfds) |-> [pollfds[j] EXCEPT !.revents = Report(pollfds[j])]]
  BY <1>1, <1>3, <1>4
<1>6. \A j \in 1..Len(pollfds) : pollfds[j] \in PollEntry /\ Len(pollfds) \in Nat
  BY <1>1
<1>7. \A j \in 1..Len(pollfds) : Report(pollfds[j]) \in SUBSET {"IN", "OUT", "ERR"}
  BY <1>6 DEF PollEntry, PipeReport
<1> HIDE DEF Report
<1>8. /\ DOMAIN new = 1..Len(pollfds) /\ new = [j \in 1..Len(pollfds) |-> new[j]]
      /\ \A j \in 1..Len(pollfds) :
           /\ new[j] \in PollEntry
           /\ new[j].fd = pollfds[j].fd /\ new[j].events = pollfds[j].events
           /\ new[j].revents = Report(pollfds[j])
  BY <1>5, <1>6, <1>7 DEF PollEntry
<1>9. Len(pollfds) \in Nat
  BY <1>1
<1>10. new \in Seq(PollEntry) /\ Len(new) = Len(pollfds)
  BY <1>8, <1>9
<1>11. TableOK(new)'
  BY <1>1, <1>2, <1>8, <1>10 DEF TableOK, Wanted
<1>12. ReportOK(new)'
  <2>1. ASSUME NEW j \in 1..Len(new), new[j].fd \in DOMAIN clients
        PROVE  new[j].revents \subseteq new[j].events \cup {"ERR"}
    <3>1. files[pollfds[j].fd] = <<"client", None>>
      BY <1>1, <1>8, <1>10, <2>1 DEF FilesInv
    <3> QED
      BY <1>8, <1>10, <3>1 DEF Report
  <2>2. ASSUME NEW j \in 1..Len(new), new[j].fd \in DOMAIN cgiOutputOwners, new[j].revents # {}
        PROVE  LET script == scripts[clients[cgiOutputOwners[new[j].fd]].cgiPid]
               IN script.data \/ ~script.writer
    <3> DEFINE fd == pollfds[j].fd
               pid == clients[cgiOutputOwners[fd]].cgiPid
    <3>1. new[j].fd = fd /\ new[j].revents = Report(pollfds[j])
      BY <1>8, <1>10
    <3>2. fd \notin heard /\ fd \notin reset
      BY <1>1, <1>3, <2>2, <3>1, KindsDiffer
    <3>3. files[fd] = <<"stdout", pid>> /\ pid # None
      BY <1>1, <2>2, <3>1, PipesOf DEF FilesInv, RunningCgi
    <3>4. Report(pollfds[j]) = PipeReport("stdout", scripts[pid])
      BY <3>2, <3>3 DEF Report
    <3> QED
      BY <2>2, <3>1, <3>4 DEF PipeReport
  <2> QED
    BY <1>2, <2>1, <2>2 DEF ReportOK
<1>13. TableOK(pollfds)' /\ ReportOK(pollfds)'
  BY <1>4, <1>11, <1>12 DEF TableOK, ReportOK
<1>14. (ClientInv /\ FilesInv /\ ScriptsInv /\ LimitsInv)'
  BY <1>1, <1>2 DEF ClientInv, FilesInv, ScriptsInv, LimitsInv, ChildrenExact,
                    OutputInv, RunningCgi
<1>15. UNCHANGED conn
  BY <1>2 DEF conn, LifeOf
<1>16. Whole
  BY <1>1, <1>2 DEF Whole, ClientInv, RunningCgi
<1> QED
  BY <1>2, <1>13, <1>14, <1>15, <1>16 DEF Keeps, WebInv, UpInv

\* The destructor leaves nothing behind.
LEMMA StopKeeps ==
  ASSUME UpInv, Stop
  PROVE  Keeps
<1>1. ClientInv /\ FilesInv /\ ScriptsInv
  BY DEF UpInv
<1>2. PICK gone : gone = {Listener} \cup DOMAIN clients
                           \cup UNION {Pipes(clients[f]) : f \in DOMAIN clients}
  OBVIOUS
<1>3. /\ clients' = <<>> /\ Close(gone) /\ pollfds' = <<>> /\ pc' = "stopped" /\ i' = 0
      /\ scripts' = Drop(scripts, {clients[f].cgiPid : f \in RunningCgi})
      /\ DOMAIN clients' = {}
  BY <1>2 DEF Stop
<1>4. /\ Listener \in gone /\ DOMAIN clients \subseteq gone
      /\ \A f \in DOMAIN clients : Pipes(clients[f]) \subseteq gone
  BY <1>2
<1>5. /\ DOMAIN files \subseteq gone
      /\ DOMAIN cgiInputOwners \subseteq gone /\ DOMAIN cgiOutputOwners \subseteq gone
  <2>1. \A fd \in DOMAIN cgiInputOwners :
          /\ cgiInputOwners[fd] \in DOMAIN clients
          /\ fd \in Pipes(clients[cgiInputOwners[fd]])
    BY <1>1, PipesOf DEF Pipes, RunningCgi
  <2>2. \A fd \in DOMAIN cgiOutputOwners :
          /\ cgiOutputOwners[fd] \in DOMAIN clients
          /\ fd \in Pipes(clients[cgiOutputOwners[fd]])
    BY <1>1, PipesOf DEF Pipes, RunningCgi
  <2>3. /\ DOMAIN cgiInputOwners \subseteq gone /\ DOMAIN cgiOutputOwners \subseteq gone
        /\ DOMAIN clients \subseteq gone /\ Listener \in gone
    BY <1>4, <2>1, <2>2
  <2> QED
    BY <1>1, <2>3 DEF FilesInv
<1>6. DOMAIN files' = {} /\ DOMAIN cgiInputOwners' = {} /\ DOMAIN cgiOutputOwners' = {}
  BY <1>3, <1>5 DEF Close, Drop, Restrict
<1>7. DOMAIN scripts' = {}
  BY <1>1, <1>3 DEF Drop, Restrict, ScriptsInv, ChildrenExact
<1>8. WebInv'
  BY <1>3, <1>6, <1>7 DEF WebInv, DownInv
<1>9. Life!Settle
  <2>1. \A f \in Descriptors : conn'[f] = "closed"
    BY <1>3 DEF conn, LifeOf
  <2>2. conn' = [f \in Descriptors |-> IF f \in Life!Open THEN "closed"
                                       ELSE IF f \in {} THEN "answering" ELSE conn[f]]
    <3>1. \A f \in Descriptors : f \in Life!Open \/ conn[f] = "closed"
      BY DEF Life!Open, Life!In, conn
    <3> QED
      BY <2>1, <3>1 DEF conn
  <2>3. /\ {} \in SUBSET (Life!In("reading") \cup Life!In("running"))
        /\ Life!Open \in SUBSET (Life!Open \ {})
    OBVIOUS
  <2> QED
    BY <2>2, <2>3 DEF Life!Settle, conn
<1>10. Whole
  BY <1>3 DEF Whole
<1> QED
  BY <1>8, <1>9, <1>10 DEF Keeps, Life!Next

\* A script says or hears something only while the loop waits in poll().
LEMMA ScriptKeeps ==
  ASSUME UpInv, NEW pid \in DOMAIN scripts, NEW new, ScriptMoves(pid, new), new \in Script,
         \/ new.data = scripts[pid].data /\ new.writer = scripts[pid].writer
         \/ pc = "poll" /\ scripts[pid].writer
  PROVE  Keeps
<1>1. ClientInv /\ FilesInv /\ TableOK(pollfds) /\ ScriptsInv /\ LimitsInv
  BY DEF UpInv
<1>2. /\ UNCHANGED <<clients, pollfds, cgiInputOwners, cgiOutputOwners, files, pc, i>>
      /\ DOMAIN scripts' = DOMAIN scripts /\ scripts'[pid] = new
      /\ \A p \in DOMAIN scripts : p # pid => scripts'[p] = scripts[p]
  BY DEF ScriptMoves, tables
<1>3. (ClientInv /\ FilesInv /\ LimitsInv /\ ChildrenExact)'
  BY <1>1, <1>2 DEF ClientInv, FilesInv, ScriptsInv, LimitsInv, ChildrenExact, RunningCgi
<1>4. TableOK(pollfds)'
  BY <1>1, <1>2 DEF TableOK, Wanted
<1>5. \A f \in RunningCgi : clients[f].cgiPid \in DOMAIN scripts
  BY <1>1, ScriptOf
<1>6. OutputInv'
  <2> SUFFICES ASSUME NEW f \in RunningCgi, clients[f].cgiOutputFd = None
               PROVE  ~scripts'[clients[f].cgiPid].data /\ ~scripts'[clients[f].cgiPid].writer
    BY <1>2 DEF OutputInv, RunningCgi
  <2>1. ~scripts[clients[f].cgiPid].data /\ ~scripts[clients[f].cgiPid].writer
    BY <1>1 DEF ScriptsInv, OutputInv
  <2> QED
    BY <1>2, <1>5, <2>1
<1>7. ScriptsInv'
  BY <1>1, <1>2, <1>3, <1>6 DEF ScriptsInv
<1>8. pc' = "scan" => ReportOK(pollfds)'
  <2> SUFFICES ASSUME pc = "scan" PROVE ReportOK(pollfds)'
    BY <1>2
  <2>1. ReportOK(pollfds) /\ new.data = scripts[pid].data /\ new.writer = scripts[pid].writer
    BY DEF UpInv
  <2>2. \A fd \in DOMAIN cgiOutputOwners : clients[cgiOutputOwners[fd]].cgiPid \in DOMAIN scripts
    BY <1>1, <1>5, PipesOf
  <2>3. \A p \in DOMAIN scripts : scripts'[p].data = scripts[p].data
                                  /\ scripts'[p].writer = scripts[p].writer
    BY <1>2, <2>1
  <2> QED
    BY <1>2, <2>1, <2>2, <2>3 DEF ReportOK
<1>9. UNCHANGED conn
  BY <1>2 DEF conn, LifeOf
<1>10. Whole
  BY <1>1, <1>2 DEF Whole, ClientInv, RunningCgi
<1>11. pc' \in {"poll", "scan", "expire"} /\ i' \in Nat /\ (pc' = "scan" => i' > 0)
  BY <1>2 DEF UpInv
<1> QED
  BY <1>3, <1>4, <1>7, <1>8, <1>9, <1>10, <1>11 DEF Keeps, WebInv, UpInv

LEMMA DeadlineKeeps ==
  ASSUME UpInv, NEW f, DeadlinePasses(f)
  PROVE  Keeps
<1>1. ClientInv /\ FilesInv /\ TableOK(pollfds) /\ ScriptsInv /\ LimitsInv
  BY DEF UpInv
<1>2. /\ UNCHANGED <<pollfds, cgiInputOwners, cgiOutputOwners, files, scripts, pc, i>>
      /\ f \in DOMAIN clients
      /\ clients' = [clients EXCEPT ![f].overdue = TRUE]
  BY DEF DeadlinePasses
<1>3. \A g \in DOMAIN clients : clients[g] \in ClientState
  BY <1>1 DEF ClientInv
<1>4. /\ DOMAIN clients' = DOMAIN clients
      /\ \A g \in DOMAIN clients :
           /\ clients'[g] \in ClientState
           /\ clients'[g].cgiPid = clients[g].cgiPid
           /\ clients'[g].output = clients[g].output
           /\ clients'[g].cgiInputFd = clients[g].cgiInputFd
           /\ clients'[g].cgiOutputFd = clients[g].cgiOutputFd
  <2>1. ASSUME NEW g \in DOMAIN clients
        PROVE  \/ clients'[g] = clients[g]
               \/ clients'[g] = [clients[g] EXCEPT !.overdue = TRUE]
    BY <1>2
  <2>2. DOMAIN clients' = DOMAIN clients
    BY <1>2
  <2>3. ASSUME NEW g \in DOMAIN clients
        PROVE  /\ clients'[g] \in ClientState
               /\ clients'[g].cgiPid = clients[g].cgiPid
               /\ clients'[g].output = clients[g].output
               /\ clients'[g].cgiInputFd = clients[g].cgiInputFd
               /\ clients'[g].cgiOutputFd = clients[g].cgiOutputFd
    <3>1. CASE clients'[g] = clients[g]
      BY <1>3, <3>1
    <3>2. CASE clients'[g] = [clients[g] EXCEPT !.overdue = TRUE]
      BY <1>3, <3>2 DEF ClientState
    <3> QED
      BY <2>1, <3>1, <3>2
  <2> QED
    BY <2>2, <2>3
<1>5. ClientInv'
  BY <1>1, <1>4 DEF ClientInv
<1>6. FilesInv'
  BY <1>1, <1>2, <1>4 DEF FilesInv
<1>7. RunningCgi' = RunningCgi /\ RunningCgi \subseteq DOMAIN clients
  BY <1>4 DEF RunningCgi
<1>8. ScriptsInv'
  <2>1. ChildrenExact'
    BY <1>1, <1>2, <1>4, <1>7 DEF ScriptsInv, ChildrenExact
  <2>2. OutputInv'
    BY <1>1, <1>2, <1>4, <1>7 DEF ScriptsInv, OutputInv
  <2> QED
    BY <1>1, <1>2, <2>1, <2>2 DEF ScriptsInv
<1>9. LimitsInv'
  BY <1>1, <1>4, <1>7 DEF LimitsInv
<1>10. TableOK(pollfds)'
  <2>1. \A fd : Wanted(fd)' = Wanted(fd)
    BY <1>2, <1>4 DEF Wanted
  <2> QED
    BY <1>1, <1>2, <2>1 DEF TableOK, Wanted
<1>11. pc' = "scan" => ReportOK(pollfds)'
  <2> SUFFICES ASSUME pc = "scan" PROVE ReportOK(pollfds)'
    BY <1>2
  <2>1. ReportOK(pollfds)
    BY DEF UpInv
  <2>2. \A fd \in DOMAIN cgiOutputOwners : cgiOutputOwners[fd] \in DOMAIN clients
    BY <1>1, PipesOf DEF RunningCgi
  <2> QED
    BY <1>2, <1>4, <2>1, <2>2 DEF ReportOK
<1>12. UNCHANGED conn
  BY <1>2, <1>4 DEF conn, LifeOf
<1>13. Whole
  BY <1>1, <1>4, <1>7 DEF Whole, ClientInv, RunningCgi
<1>14. pc' \in {"poll", "scan", "expire"} /\ i' \in Nat /\ (pc' = "scan" => i' > 0)
  BY <1>2 DEF UpInv
<1> QED
  BY <1>5, <1>6, <1>8, <1>9, <1>10, <1>11, <1>12, <1>13, <1>14 DEF Keeps, WebInv, UpInv

(***************************************************************************)
(* The whole program                                                       *)
(***************************************************************************)

LEMMA InitHolds == Init => WebInv /\ Life!Init
<1> SUFFICES ASSUME Init PROVE WebInv /\ Life!Init
  OBVIOUS
<1>1. /\ clients = <<>> /\ cgiInputOwners = <<>> /\ cgiOutputOwners = <<>> /\ scripts = <<>>
      /\ files = Just(Listener, <<"listener", None>>) /\ pollfds = <<Entry(Listener, {"IN"})>>
      /\ pc = "poll" /\ i = 0
  BY DEF Init
<1>2. /\ DOMAIN clients = {} /\ DOMAIN cgiInputOwners = {} /\ DOMAIN cgiOutputOwners = {}
      /\ DOMAIN scripts = {}
      /\ DOMAIN files = {Listener} /\ files[Listener] = <<"listener", None>>
  BY <1>1 DEF Just
<1>3. Listener \in Descriptors
  BY WebservAssumption DEF Descriptors, Listener, WebservAssumption
<1>4. ClientInv /\ FilesInv
  BY <1>2, <1>3 DEF ClientInv, FilesInv
<1>5. RunningCgi = {}
  BY <1>2 DEF RunningCgi
<1>6. ScriptsInv
  BY <1>2, <1>5 DEF ScriptsInv, ChildrenExact, OutputInv
<1>7. LimitsInv
  BY <1>2, <1>5, FS_EmptySet, WebservAssumption DEF LimitsInv, WebservAssumption
<1>8. TableOK(pollfds)
  <2>1. /\ Entry(Listener, {"IN"}) \in PollEntry
        /\ Entry(Listener, {"IN"}).fd = Listener /\ Entry(Listener, {"IN"}).events = {"IN"}
    BY <1>3 DEF Entry, PollEntry
  <2>2. pollfds \in Seq(PollEntry) /\ Len(pollfds) = 1 /\ pollfds[1] = Entry(Listener, {"IN"})
    BY <1>1, <2>1
  <2>3. Wanted(Listener) = {"IN"}
    BY <1>2 DEF Wanted
  <2> QED
    BY <1>2, <2>1, <2>2, <2>3 DEF TableOK, Wanted
<1>9. Life!Init
  BY <1>2 DEF Life!Init, LifeOf
<1> QED
  BY <1>1, <1>4, <1>6, <1>7, <1>8, <1>9 DEF WebInv, UpInv

\* Every step of the program, its scripts, its peers and the clock.
LEMMA StepKeeps ==
  ASSUME WebInv, [Next]_vars
  PROVE  Keeps
<1>1. CASE UNCHANGED vars
  <2>1. /\ UNCHANGED <<clients, pollfds, cgiInputOwners, cgiOutputOwners, files>>
        /\ UNCHANGED <<scripts, pc, i>>
    BY <1>1 DEF vars, tables
  <2>2. WebInv'
    <3>1. CASE DownInv
      BY <2>1, <3>1 DEF WebInv, DownInv
    <3>2. CASE UpInv
      <4>1. ClientInv' /\ FilesInv'
        BY <2>1, <3>2 DEF UpInv, ClientInv, FilesInv
      <4>2. TableOK(pollfds)' /\ (pc' = "scan" => ReportOK(pollfds)')
        BY <2>1, <3>2 DEF UpInv, TableOK, ReportOK, Wanted
      <4>3. ScriptsInv' /\ LimitsInv'
        BY <2>1, <3>2 DEF UpInv, ScriptsInv, LimitsInv, ChildrenExact, OutputInv, RunningCgi
      <4>4. pc' \in {"poll", "scan", "expire"} /\ i' \in Nat /\ (pc' = "scan" => i' > 0)
        BY <2>1, <3>2 DEF UpInv
      <4> QED
        BY <4>1, <4>2, <4>3, <4>4 DEF WebInv, UpInv
    <3> QED
      BY <3>1, <3>2 DEF WebInv
  <2>3. UNCHANGED conn
    BY <2>1 DEF conn, LifeOf
  <2>4. Whole
    BY <2>1 DEF Whole, WebInv, UpInv, DownInv, ClientInv, RunningCgi
  <2> QED
    BY <2>2, <2>3, <2>4 DEF Keeps
<1>2. CASE DownInv /\ Next
  <2>1. UNCHANGED vars
    BY <1>2 DEF DownInv, Next, Loop, Poll, Dispatch, ReapCgi, ExpireClients, Stop, Stopped,
                Environment, DeadlinePasses
  <2> QED
    BY <1>1, <2>1
<1>3. CASE UpInv /\ Next
  <2>1. CASE Poll
    BY <1>3, <2>1, PollKeeps
  <2>2. CASE Dispatch
    <3>1. PICK k : k = Visited
      OBVIOUS
    <3>2. OnEntry(k)
      BY <1>3, <2>2, <3>1, VisitedIs DEF Dispatch
    <3>3. \/ AcceptClient(k)
          \/ ReadCgiChunk(k) \/ ReadCgiEnd(k)
          \/ WriteCgi(k) \/ InputPipeBroken(k)
          \/ ClientGone(k) \/ NothingDone(k) \/ PeerClosed(k)
          \/ AnswerNow(k) \/ KeepReading(k)
          \/ RefuseCgi(k) \/ StartCgiFails(k) \/ StartCgi(k)
          \/ WriteClient(k)
      BY <2>2, <3>1 DEF Dispatch
    <3> QED
      BY <3>2, <3>3, AcceptKeeps, ReadCgiChunkKeeps, ReadCgiEndKeeps, WriteCgiKeeps,
         ClosingKeeps, NothingDoneKeeps, AnsweringKeeps, KeepReadingKeeps, StartCgiKeeps,
         WriteClientKeeps
  <2>3. CASE ReapCgi
    BY <1>3, <2>3, ReapKeeps
  <2>4. CASE ExpireClients
    BY <1>3, <2>4, ExpireKeeps
  <2>5. CASE Stop
    BY <1>3, <2>5, StopKeeps
  <2>6. CASE Stopped
    BY <1>1, <2>6 DEF Stopped
  <2>7. CASE \E pid \in DOMAIN scripts :
               \/ ScriptExits(pid) \/ ScriptReads(pid) \/ ScriptWrites(pid)
               \/ ScriptClosesInput(pid) \/ ScriptClosesOutput(pid)
    <3>1. PICK pid \in DOMAIN scripts :
               \/ ScriptExits(pid) \/ ScriptReads(pid) \/ ScriptWrites(pid)
               \/ ScriptClosesInput(pid) \/ ScriptClosesOutput(pid)
      BY <2>7
    <3>2. scripts[pid] \in Script
      BY <1>3 DEF UpInv, ScriptsInv
    <3>3. CASE ScriptExits(pid)
      <4>1. PICK status \in {"ok", "bad"} :
              ScriptMoves(pid, [scripts[pid] EXCEPT !.state = status])
        BY <3>3 DEF ScriptExits
      <4>2. PICK new : new = [scripts[pid] EXCEPT !.state = status]
        OBVIOUS
      <4>3. /\ new \in Script
            /\ new.data = scripts[pid].data /\ new.writer = scripts[pid].writer
        BY <3>2, <4>2 DEF Script
      <4> QED
        BY <1>3, <4>1, <4>2, <4>3, ScriptKeeps
    <3>4. CASE ScriptReads(pid)
      <4>1. PICK new : new = [scripts[pid] EXCEPT !.full = FALSE]
        OBVIOUS
      <4>2. /\ new \in Script
            /\ new.data = scripts[pid].data /\ new.writer = scripts[pid].writer
        BY <3>2, <4>1 DEF Script
      <4> QED
        BY <1>3, <3>4, <4>1, <4>2, ScriptKeeps DEF ScriptReads
    <3>5. CASE ScriptWrites(pid)
      <4>1. PICK new : new = [scripts[pid] EXCEPT !.data = TRUE]
        OBVIOUS
      <4>2. new \in Script
        BY <3>2, <4>1 DEF Script
      <4> QED
        BY <1>3, <3>5, <4>1, <4>2, ScriptKeeps DEF ScriptWrites
    <3>6. CASE ScriptClosesInput(pid)
      <4>1. PICK new : new = [scripts[pid] EXCEPT !.reader = FALSE]
        OBVIOUS
      <4>2. /\ new \in Script
            /\ new.data = scripts[pid].data /\ new.writer = scripts[pid].writer
        BY <3>2, <4>1 DEF Script
      <4> QED
        BY <1>3, <3>6, <4>1, <4>2, ScriptKeeps DEF ScriptClosesInput
    <3>7. CASE ScriptClosesOutput(pid)
      <4>1. PICK new : new = [scripts[pid] EXCEPT !.writer = FALSE]
        OBVIOUS
      <4>2. new \in Script
        BY <3>2, <4>1 DEF Script
      <4> QED
        BY <1>3, <3>7, <4>1, <4>2, ScriptKeeps DEF ScriptClosesOutput
    <3> QED
      BY <3>1, <3>3, <3>4, <3>5, <3>6, <3>7
  <2>8. CASE \E f \in Descriptors : DeadlinePasses(f)
    BY <1>3, <2>8, DeadlineKeeps
  <2> QED
    BY <1>3, <2>1, <2>2, <2>3, <2>4, <2>5, <2>6, <2>7, <2>8 DEF Next, Loop, Environment
<1> QED
  BY <1>1, <1>2, <1>3 DEF WebInv

(***************************************************************************)
(* What the invariant says                                                 *)
(***************************************************************************)

LEMMA TypesFollow == WebInv => TypeOK
<1> SUFFICES ASSUME WebInv PROVE TypeOK
  OBVIOUS
<1>1. CASE UpInv
  <2>1. DOMAIN clients \subseteq Descriptors /\ Range(clients) \subseteq ClientState
    BY <1>1 DEF UpInv, ClientInv, Sockets, Descriptors, Range
  <2>2. /\ DOMAIN cgiInputOwners \subseteq Descriptors /\ DOMAIN cgiOutputOwners \subseteq Descriptors
        /\ DOMAIN files \subseteq Descriptors
    BY <1>1 DEF UpInv, FilesInv
  <2>3. Range(cgiInputOwners) \subseteq Descriptors /\ Range(cgiOutputOwners) \subseteq Descriptors
    BY <1>1, <2>1 DEF UpInv, FilesInv, Range
  <2>4. DOMAIN scripts \subseteq Pids /\ Range(scripts) \subseteq Script
    BY <1>1 DEF UpInv, ScriptsInv, Range
  <2>5. pollfds \in Seq(PollEntry) /\ pc \in {"poll", "scan", "expire"} /\ i \in Nat
    BY <1>1 DEF UpInv, TableOK
  <2> QED
    BY <2>1, <2>2, <2>3, <2>4, <2>5 DEF TypeOK
<1>2. CASE DownInv
  <2>1. pollfds \in Seq(PollEntry)
    BY <1>2 DEF DownInv
  <2> QED
    BY <1>2, <2>1 DEF TypeOK, DownInv, Range
<1> QED
  BY <1>1, <1>2 DEF WebInv

LEMMA DescriptorsFollow == WebInv => DescriptorsExact
<1> SUFFICES ASSUME UpInv PROVE DescriptorsExact
  BY DEF WebInv, DownInv, DescriptorsExact
<1> DEFINE held == UNION {Held(f) : f \in DOMAIN clients}
           open == {<<fd, files[fd][1], files[fd][2]>> : fd \in DOMAIN files}
<1>1. ClientInv /\ FilesInv
  BY DEF UpInv
<1>2. open \subseteq held \cup {<<Listener, "listener", None>>}
  <2> SUFFICES ASSUME NEW fd \in DOMAIN files
               PROVE  \/ fd = Listener /\ files[fd] = <<"listener", None>>
                      \/ \E f \in DOMAIN clients : <<fd, files[fd][1], files[fd][2]>> \in Held(f)
    OBVIOUS
  <2>1. CASE fd \in DOMAIN clients
    <3>1. files[fd] = <<"client", None>>
      BY <1>1, <2>1 DEF FilesInv
    <3> QED
      BY <2>1, <3>1 DEF Held
  <2>2. CASE fd \in DOMAIN cgiInputOwners
    <3>1. LET f == cgiInputOwners[fd]
          IN /\ f \in DOMAIN clients /\ clients[f].cgiInputFd = fd /\ fd # None
             /\ files[fd] = <<"stdin", clients[f].cgiPid>>
      BY <1>1, <2>2, PipesOf DEF FilesInv
    <3>2. <<fd, files[fd][1], files[fd][2]>> \in Held(cgiInputOwners[fd])
      BY <3>1 DEF Held
    <3> QED
      BY <3>1, <3>2
  <2>3. CASE fd \in DOMAIN cgiOutputOwners
    <3>1. LET f == cgiOutputOwners[fd]
          IN /\ f \in DOMAIN clients /\ clients[f].cgiOutputFd = fd /\ fd # None
             /\ files[fd] = <<"stdout", clients[f].cgiPid>>
      BY <1>1, <2>3, PipesOf DEF FilesInv
    <3>2. <<fd, files[fd][1], files[fd][2]>> \in Held(cgiOutputOwners[fd])
      BY <3>1 DEF Held
    <3> QED
      BY <3>1, <3>2
  <2>4. CASE fd = Listener
    BY <1>1, <2>4 DEF FilesInv
  <2> QED
    BY <1>1, <2>1, <2>2, <2>3, <2>4 DEF FilesInv
<1>3. <<Listener, "listener", None>> \in open
  BY <1>1 DEF FilesInv
<1>4. ASSUME NEW f \in DOMAIN clients
      PROVE  Held(f) \subseteq open
  <2>1. /\ f \in DOMAIN files /\ files[f] = <<"client", None>>
        /\ clients[f].cgiInputFd # None =>
             /\ clients[f].cgiInputFd \in DOMAIN files
             /\ files[clients[f].cgiInputFd] = <<"stdin", clients[f].cgiPid>>
        /\ clients[f].cgiOutputFd # None =>
             /\ clients[f].cgiOutputFd \in DOMAIN files
             /\ files[clients[f].cgiOutputFd] = <<"stdout", clients[f].cgiPid>>
    BY <1>1, <1>4 DEF FilesInv
  <2>2. <<f, "client", None>> \in open
    BY <2>1
  <2>3. clients[f].cgiInputFd # None => <<clients[f].cgiInputFd, "stdin", clients[f].cgiPid>> \in open
    BY <2>1
  <2>4. clients[f].cgiOutputFd # None => <<clients[f].cgiOutputFd, "stdout", clients[f].cgiPid>> \in open
    BY <2>1
  <2> HIDE DEF open
  <2> QED
    BY <2>2, <2>3, <2>4 DEF Held
<1>5. open = held \cup {<<Listener, "listener", None>>}
  <2>1. held \subseteq open
    <3> HIDE DEF open
    <3> QED
      BY <1>4
  <2> HIDE DEF open, held
  <2> QED
    BY <1>2, <1>3, <2>1
<1>6. {<<fd, cgiInputOwners[fd]>> : fd \in DOMAIN cgiInputOwners}
        = {<<clients[f].cgiInputFd, f>> :
             f \in {g \in DOMAIN clients : clients[g].cgiInputFd # None}}
  <2>1. \A fd \in DOMAIN cgiInputOwners :
          LET f == cgiInputOwners[fd]
          IN f \in DOMAIN clients /\ clients[f].cgiInputFd = fd /\ clients[f].cgiInputFd # None
    BY <1>1, PipesOf DEF FilesInv
  <2>2. \A f \in {g \in DOMAIN clients : clients[g].cgiInputFd # None} :
          clients[f].cgiInputFd \in DOMAIN cgiInputOwners /\ cgiInputOwners[clients[f].cgiInputFd] = f
    BY <1>1 DEF FilesInv
  <2> QED
    BY <2>1, <2>2
<1>7. {<<fd, cgiOutputOwners[fd]>> : fd \in DOMAIN cgiOutputOwners}
        = {<<clients[f].cgiOutputFd, f>> :
             f \in {g \in DOMAIN clients : clients[g].cgiOutputFd # None}}
  <2>1. \A fd \in DOMAIN cgiOutputOwners :
          LET f == cgiOutputOwners[fd]
          IN f \in DOMAIN clients /\ clients[f].cgiOutputFd = fd /\ clients[f].cgiOutputFd # None
    BY <1>1, PipesOf DEF FilesInv
  <2>2. \A f \in {g \in DOMAIN clients : clients[g].cgiOutputFd # None} :
          clients[f].cgiOutputFd \in DOMAIN cgiOutputOwners /\ cgiOutputOwners[clients[f].cgiOutputFd] = f
    BY <1>1 DEF FilesInv
  <2> QED
    BY <2>1, <2>2
<1> QED
  BY <1>5, <1>6, <1>7 DEF DescriptorsExact

LEMMA PollTableFollows == WebInv => PollTableExact
<1> SUFFICES ASSUME UpInv PROVE PollTableExact
  BY DEF WebInv, DownInv, PollTableExact
<1> DEFINE l == Len(pollfds)
           fds == [j \in 1..l |-> pollfds[j].fd]
<1>1. TableOK(pollfds)
  BY DEF UpInv
<1>2. pollfds \in Seq(PollEntry)
  BY <1>1 DEF TableOK
<1>3. l \in Nat /\ DOMAIN pollfds = 1..l
  BY <1>2
<1> HIDE DEF l
<1>4. /\ \A j \in 1..l : pollfds[j].fd \in DOMAIN files /\ pollfds[j].events = Wanted(pollfds[j].fd)
      /\ \A j, m \in 1..l : pollfds[j].fd = pollfds[m].fd => j = m
      /\ \A fd \in DOMAIN files : \E j \in 1..l : pollfds[j].fd = fd
  BY <1>1 DEF TableOK, l
<1>5. fds \in Bijection(1..l, DOMAIN files)
  BY <1>4 DEF Bijection, Injection, Surjection, IsInjective
<1>6. ExistsBijection(1..l, DOMAIN files)
  BY <1>5 DEF ExistsBijection
<1>7. IsFiniteSet(1..l) /\ Cardinality(1..l) = l
  BY <1>3, FS_Interval
<1>8. Cardinality(DOMAIN files) = l
  BY <1>6, <1>7, FS_Bijection
<1>9. {pollfds[j].fd : j \in DOMAIN pollfds} = DOMAIN files
  <2>1. {pollfds[j].fd : j \in 1..l} \subseteq DOMAIN files
    BY <1>4
  <2>2. DOMAIN files \subseteq {pollfds[j].fd : j \in 1..l}
    BY <1>4
  <2> QED
    BY <1>3, <2>1, <2>2
<1>10. \A j \in DOMAIN pollfds : pollfds[j].events = Wanted(pollfds[j].fd)
  BY <1>3, <1>4
<1>11. Len(pollfds) = Cardinality(DOMAIN files)
  BY <1>8 DEF l
<1> QED
  BY <1>9, <1>10, <1>11 DEF PollTableExact

LEMMA ChildrenFollow == WebInv => ChildrenExact
<1> SUFFICES ASSUME WebInv PROVE ChildrenExact
  OBVIOUS
<1>1. CASE UpInv
  BY <1>1 DEF UpInv, ScriptsInv
<1>2. CASE DownInv
  BY <1>2 DEF DownInv, ChildrenExact, RunningCgi
<1> QED
  BY <1>1, <1>2 DEF WebInv

(***************************************************************************)
(* The theorems                                                            *)
(***************************************************************************)

\* Whatever scripts, peers and the clock do, the tables of the web server fit
\* together after every step of run() (Server.cpp).
THEOREM TablesHold == Spec => []WebInv
<1>1. Init => WebInv
  BY InitHolds
<1>2. WebInv /\ [Next]_vars => WebInv'
  BY StepKeeps DEF Keeps
<1> QED
  BY <1>1, <1>2, PTL DEF Spec

\* Every variable keeps its type: no length over its limit, no number the
\* kernel could not have handed out.
THEOREM TypesAreKept == Spec => []TypeOK
BY TablesHold, TypesFollow, PTL

\* The open descriptors are those the clients hold, and the owner maps lead to
\* and from them, through every order of closing and taking numbers again.
THEOREM DescriptorsStayExact == Spec => []DescriptorsExact
BY TablesHold, DescriptorsFollow, PTL

\* poll() watches every open descriptor once, for what its state needs.
THEOREM PollTableStaysExact == Spec => []PollTableExact
BY TablesHold, PollTableFollows, PTL

\* Every child process has one client, and every client waits for its own.
THEOREM ChildrenStayExact == Spec => []ChildrenExact
BY TablesHold, ChildrenFollow, PTL

\* Only a script that ended well is passed on, with all it wrote, unless that
\* goes over the limit (readCgi, reapCgi, finishCgi).
THEOREM OutputIsWhole == Spec => OutputIsPassedOnWhole
<1>1. WebInv /\ [Next]_vars =>
        [\A f \in RunningCgi :
           (f \in DOMAIN clients' /\ clients'[f].output = "cgi") =>
              LET script == scripts[clients[f].cgiPid]
              IN /\ script.state = "ok"
                 /\ ~OverTheLimit(f) => ~script.data /\ ~script.writer]_vars
  BY StepKeeps DEF Keeps, Whole, OverTheLimit
<1> QED
  BY <1>1, TablesHold, PTL DEF Spec, OutputIsPassedOnWhole

\* Every step of the loop is a step of a request's life or leaves it alone:
\* accepted, given to a script, answered once and gone, within both limits.
THEOREM LoopImplementsRequestLife == Spec => ImplementsRequestLife
<1>1. Init => Life!Init
  BY InitHolds
<1>2. WebInv /\ [Next]_vars => [Life!Next]_conn
  BY StepKeeps DEF Keeps
<1> QED
  BY <1>1, <1>2, TablesHold, PTL DEF Spec, ImplementsRequestLife, Life!Spec, conn

(***************************************************************************)
(* What is computed step by step                                           *)
(***************************************************************************)

\* Induction over the numbers up to n, for a set.
LEMMA UpTo ==
  ASSUME NEW n \in Nat, NEW K, 0 \in K,
         \A m \in 0..n : m \in K /\ m < n => m + 1 \in K
  PROVE  \A m \in 0..n : m \in K
<1>. SUFFICES ASSUME NEW m \in 0..n, m \notin K PROVE FALSE
  OBVIOUS
<1>1. PICK u \in (0..n) \ K : \A j \in (0..n) \ K : u <= j
  <2>1. (0..n) \ K \in SUBSET Nat /\ (0..n) \ K # {}
    OBVIOUS
  <2>. QED BY <2>1, LeastOf
<1>2. u # 0
  BY <1>1
<1>3. u - 1 \in 0..n /\ u - 1 < n /\ u - 1 + 1 = u
  BY <1>1, <1>2
<1>4. u - 1 \in K
  BY <1>1, <1>3
<1>. QED BY <1>1, <1>3, <1>4

\* What is computed in n steps, each from the one before, is computed.
Computes(f, n, base, step) ==
  f[0] = base /\ \A j \in 1..n : f[j] = step[<<j, f[j - 1]>>]

LEMMA StepByStep ==
  ASSUME NEW n \in Nat, NEW S, NEW base \in S, NEW step \in [(1..n) \X S -> S]
  PROVE  \E f \in [0..n -> S] : Computes(f, n, base, step)
<1>. DEFINE Good(m, f) == f[0] = base /\ \A j \in 1..m : f[j] = step[<<j, f[j - 1]>>]
            K == {m \in 0..n : \E f \in [0..m -> S] : Good(m, f)}
<1>1. 0 \in K
  <2>1. PICK f \in [0..0 -> S] : f = [j \in 0..0 |-> base]
    OBVIOUS
  <2>2. Good(0, f)
    BY <2>1
  <2>. QED BY <2>2
<1>2. \A m \in 0..n : m \in K /\ m < n => m + 1 \in K
  <2>. SUFFICES ASSUME NEW m \in 0..n, m \in K, m < n PROVE m + 1 \in K
    OBVIOUS
  <2>1. PICK f \in [0..m -> S] : Good(m, f)
    OBVIOUS
  <2>. DEFINE new == step[<<m + 1, f[m]>>]
              g == [j \in 0..m + 1 |-> IF j <= m THEN f[j] ELSE new]
  <2>2. new \in S
    OBVIOUS
  <2>3. g \in [0..m + 1 -> S]
    BY <2>2
  <2>4. \A j \in 0..m : g[j] = f[j]
    OBVIOUS
  <2>5. g[m + 1] = new
    OBVIOUS
  <2>. HIDE DEF g
  <2>6. Good(m + 1, g)
    <3>1. ASSUME NEW j \in 1..m + 1 PROVE g[j] = step[<<j, g[j - 1]>>]
      <4>1. CASE j \in 1..m
        BY <4>1, <2>1, <2>4
      <4>2. CASE j = m + 1
        BY <4>2, <2>4, <2>5
      <4>. QED BY <4>1, <4>2
    <3>. QED BY <2>1, <2>4, <3>1
  <2>. QED BY <2>3, <2>6
<1>3. n \in K
  <2>. HIDE DEF K
  <2>1. \A m \in 0..n : m \in K
    BY <1>1, <1>2, UpTo
  <2>. QED BY <2>1
<1>4. PICK f \in [0..n -> S] : Good(n, f)
  BY <1>3
<1>. QED BY <1>4 DEF Computes

\* Induction from the end of a text to its begin, for a set of places.
LEMMA Downward ==
  ASSUME NEW n \in Nat, NEW K,
         \A p \in 1..n + 1 : (\A q \in p + 1..n + 1 : q \in K) => p \in K
  PROVE  \A p \in 1..n + 1 : p \in K
<1>. SUFFICES ASSUME NEW p \in 1..n + 1, p \notin K PROVE FALSE
  OBVIOUS
<1>. DEFINE gaps == {m \in 0..n : n + 1 - m \notin K}
<1>1. n + 1 - p \in gaps
  <2>1. n + 1 - p \in 0..n /\ n + 1 - (n + 1 - p) = p
    OBVIOUS
  <2>. QED BY <2>1
<1>2. PICK g \in gaps : \A m \in gaps : g <= m
  <2>1. gaps \in SUBSET Nat
    OBVIOUS
  <2>. HIDE DEF gaps
  <2>. QED BY <1>1, <2>1, LeastOf
<1>3. PICK last \in 1..n + 1 : last = n + 1 - g
  BY <1>2
<1>4. last \notin K
  BY <1>2, <1>3
<1>5. ASSUME NEW q \in last + 1..n + 1, q \notin K PROVE FALSE
  <2>1. n + 1 - q \in 0..n /\ n + 1 - (n + 1 - q) = q /\ n + 1 - q < g
    BY <1>3
  <2>2. n + 1 - q \in gaps
    BY <1>5, <2>1
  <2>3. g <= n + 1 - q
    BY <1>2, <2>2
  <2>. QED BY <1>2, <2>1, <2>3
<1>. QED BY <1>3, <1>4, <1>5

\* What is computed of each place from a place further on is computed.
Reaches(f, n, done, base, next, step) ==
  \A p \in 1..n + 1 :
    f[p] = IF p \in done THEN base[p] ELSE step[<<p, f[next[p]]>>]

LEMMA FromTheEnd ==
  ASSUME NEW n \in Nat, NEW S, NEW done, NEW base \in [1..n + 1 -> S],
         NEW next \in [1..n + 1 -> 1..n + 1],
         NEW step \in [(1..n + 1) \X S -> S],
         \A p \in 1..n + 1 : p \notin done => next[p] > p
  PROVE  \E f \in [1..n + 1 -> S] : Reaches(f, n, done, base, next, step)
<1>. DEFINE Value(f, p) == IF p \in done THEN base[p] ELSE step[<<p, f[next[p]]>>]
            Good(m, f) == \A p \in n + 2 - m..n + 1 : f[p] = Value(f, p)
            K == {m \in 0..n + 1 : \E f \in [n + 2 - m..n + 1 -> S] : Good(m, f)}
<1>1. 0 \in K
  <2>1. PICK f : f = [p \in n + 2..n + 1 |-> base[p]]
    OBVIOUS
  <2>2. n + 2 - 0 = n + 2 /\ \A p : p \notin n + 2..n + 1
    OBVIOUS
  <2>3. f \in [n + 2 - 0..n + 1 -> S]
    BY <2>1, <2>2
  <2>4. Good(0, f)
    BY <2>2
  <2>. HIDE DEF Good
  <2>. QED BY <2>3, <2>4
<1>2. ASSUME NEW m \in 0..n + 1, m \in K, m < n + 1 PROVE m + 1 \in K
  <2>1. PICK f \in [n + 2 - m..n + 1 -> S] : Good(m, f)
    BY <1>2
  <2>2. PICK new \in 1..n + 1 : new = n + 1 - m /\ new = n + 2 - (m + 1) /\ new + 1 = n + 2 - m
    BY <1>2
  <2>3. PICK v \in S : v = Value(f, new)
    <3>1. CASE new \in done
      BY <3>1
    <3>2. CASE new \notin done
      <4>1. next[new] \in new + 1..n + 1
        BY <3>2
      <4>2. f[next[new]] \in S
        BY <2>2, <4>1
      <4>3. step[<<new, f[next[new]]>>] \in S
        BY <4>2
      <4>. QED BY <3>2, <4>3
    <3>. QED BY <3>1, <3>2
  <2>4. PICK g : g = [p \in new..n + 1 |-> IF p = new THEN v ELSE f[p]]
    OBVIOUS
  <2>5. \A p \in new..n + 1 : p = new \/ p \in new + 1..n + 1
    OBVIOUS
  <2>6. \A p \in new + 1..n + 1 : p \in new..n + 1 /\ p # new
    OBVIOUS
  <2>7. /\ g \in [new..n + 1 -> S] /\ g[new] = v
        /\ \A p \in new + 1..n + 1 : g[p] = f[p]
    <3>1. ASSUME NEW p \in new + 1..n + 1 PROVE f[p] \in S
      BY <2>2
    <3>. QED BY <2>4, <2>5, <2>6, <3>1
  <2>8. ASSUME NEW p \in new..n + 1 PROVE g[p] = Value(g, p)
    <3>1. p \notin done => next[p] \in new + 1..n + 1
      <4>1. p \in 1..n + 1
        OBVIOUS
      <4>2. p \notin done => next[p] > p /\ next[p] \in 1..n + 1
        BY <4>1
      <4>. QED BY <4>1, <4>2
    <3>2. Value(g, p) = Value(f, p)
      BY <2>7, <3>1
    <3>3. CASE p = new
      <4>. HIDE DEF Value
      <4>. QED BY <2>3, <2>7, <3>2, <3>3
    <3>4. CASE p \in new + 1..n + 1
      <4>1. f[p] = Value(f, p)
        BY <2>1, <2>2, <3>4
      <4>. HIDE DEF Value
      <4>. QED BY <2>7, <3>2, <3>4, <4>1
    <3>. QED BY <2>5, <3>3, <3>4
  <2>9. Good(m + 1, g)
    <3>. HIDE DEF Value
    <3>. QED BY <2>2, <2>8
  <2>10. g \in [n + 2 - (m + 1)..n + 1 -> S]
    BY <2>2, <2>7
  <2>11. m + 1 \in 0..n + 1
    BY <1>2
  <2>. HIDE DEF Good
  <2>. QED BY <2>9, <2>10, <2>11
<1>3. n + 1 \in K
  <2>. HIDE DEF K
  <2>1. PICK l \in Nat : l = n + 1
    OBVIOUS
  <2>2. \A m \in 0..l : m \in K
    BY <1>1, <1>2, <2>1, UpTo
  <2>. QED BY <2>1, <2>2
<1>4. PICK f \in [n + 2 - (n + 1)..n + 1 -> S] : Good(n + 1, f)
  BY <1>3
<1>5. n + 2 - (n + 1) = 1
  OBVIOUS
<1>. QED BY <1>4, <1>5 DEF Reaches

\* What holds of nothing and of each text with one symbol more holds of a text.
LEMMA SymbolBySymbol ==
  ASSUME NEW Symbol, NEW text \in Seq(Symbol), NEW K, <<>> \in K,
         \A t \in Seq(Symbol), c \in Symbol : t \in K => Append(t, c) \in K
  PROVE  text \in K
<1>1. PICK n \in Nat : n = Len(text)
  OBVIOUS
<1>. DEFINE J == {m \in 0..n : SubSeq(text, 1, m) \in K}
<1>2. 0 \in J
  <2>1. SubSeq(text, 1, 0) = <<>>
    OBVIOUS
  <2>2. SubSeq(text, 1, 0) \in K
    BY <2>1, Zenon
  <2>. QED BY <2>2
<1>3. ASSUME NEW m \in 0..n, m \in J, m < n PROVE m + 1 \in J
  <2>1. PICK t : t = SubSeq(text, 1, m)
    OBVIOUS
  <2>2. t \in Seq(Symbol) /\ text[m + 1] \in Symbol /\ t \in K
    BY <1>1, <1>3, <2>1
  <2>3. Append(t, text[m + 1]) = SubSeq(text, 1, m + 1)
    BY <1>1, <1>3, <2>1
  <2>4. Append(t, text[m + 1]) \in K
    BY <2>2, Zenon
  <2>. QED BY <1>3, <2>3, <2>4
<1>4. \A m \in 0..n : m \in J
  <2>. HIDE DEF J
  <2>. QED BY <1>2, <1>3, UpTo
<1>5. SubSeq(text, 1, n) \in K /\ SubSeq(text, 1, n) = text
  BY <1>1, <1>4
<1>. QED BY <1>5

(***************************************************************************)
(* Splitting                                                               *)
(***************************************************************************)

NonEmpty(Symbol) == {t \in Seq(Symbol) : t # <<>>}
Pieces(Symbol) == NonEmpty(Seq(Symbol))

LEMMA NoPiece ==
  ASSUME NEW Symbol
  PROVE  <<<<>>>> \in Pieces(Symbol)
<1>1. PICK T : T = Seq(Symbol)
  OBVIOUS
<1>2. PICK e \in T : e = <<>>
  BY <1>1, EmptySeq, Zenon
<1>3. <<e>> \in Seq(T) /\ <<e>> # <<>>
  OBVIOUS
<1>. QED BY <1>1, <1>2, <1>3, Zenon DEF Pieces, NonEmpty

\* The last piece grows, or one begins.
LEMMA GrownIs ==
  ASSUME NEW Symbol, NEW pieces \in Pieces(Symbol), NEW c \in Symbol, NEW separator
  PROVE  /\ c = separator => Grown(pieces, c, separator) = Append(pieces, <<>>)
         /\ c # separator => Grown(pieces, c, separator) =
                               Append(Front(pieces), Append(Last(pieces), c))
<1>1. PICK T : T = Seq(Symbol)
  OBVIOUS
<1>2. pieces \in Seq(T) /\ pieces # <<>>
  BY <1>1, Zenon DEF Pieces, NonEmpty
<1>3. PICK n \in Nat \ {0} : n = Len(pieces)
  BY <1>2
<1>4. PICK last \in T : last = pieces[n]
  BY <1>2, <1>3
<1>5. PICK longer \in T : longer = Append(last, c)
  BY <1>1, <1>4, AppendProperties, Zenon
<1>6. [pieces EXCEPT ![n] = longer] = Append(SubSeq(pieces, 1, n - 1), longer)
  BY <1>2, <1>3, <1>5
<1>7. Front(pieces) = SubSeq(pieces, 1, n - 1) /\ Last(pieces) = last
  BY <1>2, <1>3, <1>4 DEF Front, Last
<1>8. c # separator => Grown(pieces, c, separator) = [pieces EXCEPT ![n] = longer]
  BY <1>3, <1>4, <1>5, Zenon DEF Grown
<1>9. c = separator => Grown(pieces, c, separator) = Append(pieces, <<>>)
  BY Zenon DEF Grown
<1>. QED BY <1>5, <1>6, <1>7, <1>8, <1>9, Zenon

\* Of any sequence that is not empty: all but the last, and the last.
LEMMA Ends ==
  ASSUME NEW T, NEW s \in Seq(T), s # <<>>
  PROVE  /\ Front(s) \in Seq(T) /\ Last(s) \in T /\ s = Append(Front(s), Last(s))
         /\ Len(Front(s)) = Len(s) - 1
         /\ Last(s) = s[Len(s)] /\ \A j \in 1..Len(s) - 1 : Front(s)[j] = s[j]
<1>1. PICK n \in Nat \ {0} : n = Len(s)
  BY EmptySeq
<1>2. Front(s) = SubSeq(s, 1, n - 1) /\ Last(s) = s[n]
  BY <1>1 DEF Front, Last
<1>3. PICK f \in Seq(T) : f = SubSeq(s, 1, n - 1) /\ Len(f) = n - 1
                          /\ \A j \in 1..n - 1 : f[j] = s[j]
  <2>1. PICK f : f = SubSeq(s, 1, n - 1)
    OBVIOUS
  <2>2. f \in Seq(T) /\ Len(f) = n - 1 /\ \A j \in 1..n - 1 : f[j] = s[j]
    BY <1>1, <2>1
  <2>. QED BY <2>1, <2>2, Zenon
<1>4. s[n] \in T
  BY <1>1
<1>5. s = Append(f, s[n])
  BY <1>1, <1>3, <1>4
<1>. QED BY <1>1, <1>2, <1>3, <1>4, <1>5, Zenon

LEMMA Longer ==
  ASSUME NEW T, NEW s \in Seq(T), NEW e \in T
  PROVE  /\ Append(s, e) \in Seq(T) /\ Append(s, e) # <<>>
         /\ Front(Append(s, e)) = s /\ Last(Append(s, e)) = e
         /\ Append(s, e) = s \o <<e>>
  BY DEF Front, Last

LEMMA OneMore ==
  ASSUME NEW T, NEW s \in Seq(T), NEW e \in T, NEW more, more = Append(s, e)
  PROVE  /\ more \in Seq(T) /\ more # <<>>
         /\ Len(more) = Len(s) + 1 /\ more[Len(s) + 1] = e
         /\ \A j \in 1..Len(s) : more[j] = s[j]
OBVIOUS

LEMMA GrownType ==
  ASSUME NEW Symbol, NEW pieces \in Pieces(Symbol), NEW c \in Symbol, NEW separator
  PROVE  Grown(pieces, c, separator) \in Pieces(Symbol)
<1>1. PICK T : T = Seq(Symbol)
  OBVIOUS
<1>2. pieces \in Seq(T) /\ pieces # <<>>
  BY <1>1, Zenon DEF Pieces, NonEmpty
<1>3. Front(pieces) \in Seq(T) /\ Last(pieces) \in T
  BY <1>2, Ends, Zenon
<1>4. Append(Last(pieces), c) \in T /\ <<>> \in T
  BY <1>1, <1>3, AppendProperties, EmptySeq, Zenon
<1>5. \A e \in T : /\ Append(pieces, e) \in Seq(T) /\ Append(pieces, e) # <<>>
                   /\ Append(Front(pieces), e) \in Seq(T) /\ Append(Front(pieces), e) # <<>>
  <2>1. ASSUME NEW e \in T, NEW some \in Seq(T)
        PROVE  Append(some, e) \in Seq(T) /\ Append(some, e) # <<>>
    BY <2>1, Longer, Zenon
  <2>. QED BY <1>2, <1>3, <2>1, Zenon
<1>6. PICK grown : grown = Grown(pieces, c, separator)
  OBVIOUS
<1>7. grown \in Seq(T) /\ grown # <<>>
  <2>1. CASE c = separator
    <3>1. grown = Append(pieces, <<>>)
      BY <1>6, <2>1, GrownIs, Zenon
    <3>. QED BY <1>4, <1>5, <3>1, Zenon
  <2>2. CASE c # separator
    <3>1. grown = Append(Front(pieces), Append(Last(pieces), c))
      BY <1>6, <2>2, GrownIs
    <3>. QED BY <1>4, <1>5, <3>1, Zenon
  <2>. QED BY <2>1, <2>2
<1>. QED BY <1>1, <1>6, <1>7, Zenon DEF Pieces, NonEmpty

\* The pieces after each symbol.
IsSplit(text, separator, r) ==
  /\ Split(text, separator) = r[Len(text)] /\ r[0] = <<<<>>>>
  /\ \A j \in 1..Len(text) : r[j] = Grown(r[j - 1], text[j], separator)

LEMMA SplitRead ==
  ASSUME NEW Symbol, NEW text \in Seq(Symbol), NEW separator
  PROVE  \E r \in [0..Len(text) -> Pieces(Symbol)] : IsSplit(text, separator, r)
<1>1. PICK n \in Nat : n = Len(text)
  OBVIOUS
<1>2. PICK S : S = Pieces(Symbol)
  OBVIOUS
<1>3. PICK empty \in S : empty = <<<<>>>>
  BY <1>2, NoPiece, Zenon
<1>. DEFINE new(s, j) == Grown(s, text[j], separator)
<1>4. ASSUME NEW s \in S, NEW j \in 1..n PROVE new(s, j) \in S
  <2>1. text[j] \in Symbol
    BY <1>1
  <2>. QED BY <1>2, <2>1, GrownType, Zenon
<1>5. PICK step : step = [q \in (1..n) \X S |-> new(q[2], q[1])]
  OBVIOUS
<1>6. step \in [(1..n) \X S -> S]
  <2>. HIDE DEF new
  <2>. QED BY <1>4, <1>5
<1>7. PICK f \in [0..n -> S] : Computes(f, n, empty, step)
  BY <1>6, StepByStep, Zenon
<1>8. ASSUME NEW j \in 1..n PROVE f[j] = new(f[j - 1], j)
  <2>. HIDE DEF new
  <2>1. f[j] = step[<<j, f[j - 1]>>]
    BY <1>7 DEF Computes
  <2>2. <<j, f[j - 1]>> \in (1..n) \X S
    OBVIOUS
  <2>. QED BY <1>5, <2>1, <2>2
<1>9. f[0] = empty
  BY <1>7, Zenon DEF Computes
<1>10. f = [j \in 0..n |-> IF j = 0 THEN empty ELSE new(f[j - 1], j)]
  <2>. HIDE DEF new
  <2>1. \A j \in 0..n : f[j] = IF j = 0 THEN empty ELSE new(f[j - 1], j)
    BY <1>8, <1>9
  <2>2. f = [j \in 0..n |-> f[j]]
    OBVIOUS
  <2>3. [j \in 0..n |-> f[j]]
          = [j \in 0..n |-> IF j = 0 THEN empty ELSE new(f[j - 1], j)]
    BY <2>1
  <2>. QED BY <2>2, <2>3, Zenon
<1>11. PICK r : r = CHOOSE result : result = [j \in 0..n |->
                        IF j = 0 THEN empty ELSE new(result[j - 1], j)]
  OBVIOUS
<1>12. r = [j \in 0..n |-> IF j = 0 THEN empty ELSE new(r[j - 1], j)]
  <2>. HIDE DEF new
  <2>. QED BY <1>10, <1>11, Zenon
<1>13. ASSUME NEW j \in 0..n PROVE r[j] = IF j = 0 THEN empty ELSE new(r[j - 1], j)
  <2>. HIDE DEF new
  <2>. QED BY <1>12, Zenon
<1>14. r[0] = empty
  BY <1>13
<1>15. ASSUME NEW j \in 1..n PROVE r[j] = new(r[j - 1], j)
  <2>. HIDE DEF new
  <2>1. j \in 0..n /\ j # 0
    OBVIOUS
  <2>. QED BY <1>13, <2>1
<1>16. \A j \in 0..n : r[j] \in S
  <2>. HIDE DEF new
  <2>. DEFINE K == {j \in 0..n : r[j] \in S}
  <2>1. 0 \in K
    BY <1>14
  <2>2. ASSUME NEW m \in 0..n, m \in K, m < n PROVE m + 1 \in K
    <3>1. PICK j \in 1..n : j = m + 1 /\ j - 1 = m
      BY <2>2
    <3>2. r[j] = new(r[m], j)
      BY <1>15, <3>1
    <3>3. new(r[m], j) \in S
      BY <1>4, <2>2
    <3>. QED BY <3>1, <3>2, <3>3
  <2>. HIDE DEF K
  <2>3. \A j \in 0..n : j \in K
    BY <2>1, <2>2, UpTo
  <2>. QED BY <2>3 DEF K
<1>17. r \in [0..n -> S]
  <2>. HIDE DEF new
  <2>1. r = [j \in 0..n |-> r[j]]
    <3>1. [j \in 0..n |-> r[j]]
            = [j \in 0..n |-> IF j = 0 THEN empty ELSE new(r[j - 1], j)]
      BY <1>13
    <3>. QED BY <1>12, <3>1, Zenon
  <2>. QED BY <1>16, <2>1
<1>18. Split(text, separator) = r[n]
  BY <1>1, <1>3, <1>11, Zenon DEF Split
<1>19. IsSplit(text, separator, r)
  <2>1. \A j \in 1..n : r[j] = new(r[j - 1], j)
    BY <1>15, Zenon
  <2>. QED BY <1>1, <1>3, <1>14, <1>18, <2>1, Zenon DEF IsSplit
<1>. QED BY <1>1, <1>2, <1>17, <1>19, Zenon

\* One symbol more.
LEMMA SplitMore ==
  ASSUME NEW Symbol, NEW text \in Seq(Symbol), NEW separator, NEW c \in Symbol
  PROVE  /\ Split(text, separator) \in Pieces(Symbol)
         /\ Split(Append(text, c), separator) = Grown(Split(text, separator), c, separator)
<1>1. PICK n \in Nat : n = Len(text)
  OBVIOUS
<1>2. PICK more \in Seq(Symbol) :
        /\ more = Append(text, c) /\ Len(more) = n + 1 /\ more[n + 1] = c
        /\ \A j \in 1..n : more[j] = text[j]
  <2>1. PICK more : more = Append(text, c)
    OBVIOUS
  <2>2. /\ more \in Seq(Symbol) /\ Len(more) = Len(text) + 1 /\ more[Len(text) + 1] = c
        /\ \A j \in 1..Len(text) : more[j] = text[j]
    BY <2>1, OneMore
  <2>. QED BY <1>1, <2>1, <2>2, Zenon
<1>3. PICK S : S = Pieces(Symbol)
  OBVIOUS
<1>4. PICK r \in [0..n -> S] : IsSplit(text, separator, r)
  BY <1>1, <1>3, SplitRead, Zenon
<1>5. PICK q : IsSplit(more, separator, q)
  BY <1>2, SplitRead, Zenon
<1>6. r[0] = q[0]
  BY <1>4, <1>5, Zenon DEF IsSplit
<1>7. \A j \in 1..n : r[j] = Grown(r[j - 1], text[j], separator)
  BY <1>1, <1>4, Zenon DEF IsSplit
<1>8. \A j \in 1..n + 1 : q[j] = Grown(q[j - 1], more[j], separator)
  BY <1>2, <1>5, Zenon DEF IsSplit
<1>. DEFINE K == {j \in 0..n : r[j] = q[j]}
<1>9. 0 \in K
  BY <1>6
<1>10. ASSUME NEW m \in 0..n, m \in K, m < n PROVE m + 1 \in K
  <2>1. PICK j \in 1..n : j = m + 1 /\ j - 1 = m /\ j \in 1..n + 1
    BY <1>10
  <2>2. r[m] = q[m] /\ more[j] = text[j]
    BY <1>2, <1>10
  <2>3. r[j] = Grown(r[m], text[j], separator) /\ q[j] = Grown(q[m], more[j], separator)
    BY <1>7, <1>8, <2>1, Zenon
  <2>4. r[j] = q[j]
    BY <2>2, <2>3, Zenon
  <2>. QED BY <2>1, <2>4
<1>11. \A j \in 0..n : j \in K
  <2>. HIDE DEF K
  <2>. QED BY <1>9, <1>10, UpTo
<1>12. n \in 0..n /\ n + 1 \in 1..n + 1 /\ n + 1 - 1 = n
  OBVIOUS
<1>13. r[n] = q[n]
  BY <1>11, <1>12
<1>14. r[n] = Split(text, separator) /\ q[n + 1] = Split(more, separator)
  BY <1>1, <1>2, <1>4, <1>5, Zenon DEF IsSplit
<1>15. q[n + 1] = Grown(q[n], more[n + 1], separator)
  <2>1. PICK j \in 1..n + 1 : j = n + 1 /\ j - 1 = n
    BY <1>12
  <2>2. q[j] = Grown(q[j - 1], more[j], separator)
    BY <1>8, Zenon
  <2>. QED BY <2>1, <2>2, Zenon
<1>16. r[n] \in S
  BY <1>4, <1>12
<1>. QED BY <1>2, <1>3, <1>13, <1>14, <1>15, <1>16, Zenon

LEMMA PiecesAre ==
  ASSUME NEW Symbol, NEW pieces
  PROVE  pieces \in Pieces(Symbol) <=> pieces \in Seq(Seq(Symbol)) /\ pieces # <<>>
BY Zenon DEF Pieces, NonEmpty

LEMMA SplitNothing ==
  ASSUME NEW separator
  PROVE  Split(<<>>, separator) = <<<<>>>>
<1>1. PICK text \in Seq({}) : text = <<>> /\ Len(text) = 0
  BY EmptySeq, Zenon
<1>2. PICK r : IsSplit(text, separator, r)
  BY SplitRead, Zenon
<1>. QED BY <1>1, <1>2, Zenon DEF IsSplit

\* A separator more.
LEMMA SplitEnded ==
  ASSUME NEW Symbol, NEW text \in Seq(Symbol), NEW separator \in Symbol
  PROVE  Split(Append(text, separator), separator) = Append(Split(text, separator), <<>>)
<1>1. PICK pieces \in Pieces(Symbol) : pieces = Split(text, separator)
  BY SplitMore, Zenon
<1>2. Split(Append(text, separator), separator) = Grown(pieces, separator, separator)
  BY <1>1, SplitMore, Zenon
<1>3. Grown(pieces, separator, separator) = Append(pieces, <<>>)
  BY GrownIs, Zenon
<1>. QED BY <1>1, <1>2, <1>3, Zenon

\* Another symbol more belongs to the last piece.
Lengthened(text, c, separator, pieces) ==
  Split(Append(text, c), separator) = Append(Front(pieces), Append(Last(pieces), c))

LEMMA SplitLonger ==
  ASSUME NEW Symbol, NEW text \in Seq(Symbol), NEW c \in Symbol, NEW separator, c # separator,
         NEW pieces, pieces = Split(text, separator)
  PROVE  Lengthened(text, c, separator, pieces)
<1>1. pieces \in Pieces(Symbol)
  BY SplitMore, Zenon
<1>2. Split(Append(text, c), separator) = Grown(pieces, c, separator)
  BY SplitMore, Zenon
<1>3. Grown(pieces, c, separator) = Append(Front(pieces), Append(Last(pieces), c))
  BY <1>1, GrownIs
<1>. QED BY <1>2, <1>3, Zenon DEF Lengthened

\* What stands before a sequence stays when that grows.
Behind(x, y, e) == x \o Append(y, e) = Append(x \o y, e)

LEMMA AppendBehind ==
  ASSUME NEW T, NEW x \in Seq(T), NEW y \in Seq(T), NEW e \in T
  PROVE  Behind(x, y, e)
<1>1. x \o Append(y, e) = Append(x \o y, e)
  OBVIOUS
<1>. QED BY <1>1, Zenon DEF Behind

\* What stands before the pieces stays when the last one grows.
StaysBefore(x, y, c, separator) ==
  Grown(x \o y, c, separator) = x \o Grown(y, c, separator)

LEMMA GrownBehind ==
  ASSUME NEW Symbol, NEW x \in Seq(Seq(Symbol)), NEW y \in Pieces(Symbol), NEW c \in Symbol,
         NEW separator
  PROVE  StaysBefore(x, y, c, separator)
<1>1. PICK T : T = Seq(Symbol)
  OBVIOUS
<1>2. x \in Seq(T) /\ y \in Seq(T) /\ y # <<>>
  BY <1>1, PiecesAre, Zenon
<1>3. PICK f \in Seq(T), l \in T : f = Front(y) /\ l = Last(y) /\ y = Append(f, l)
  <2>1. Front(y) \in Seq(T) /\ Last(y) \in T /\ y = Append(Front(y), Last(y))
    BY <1>2, Ends
  <2>. QED BY <2>1
<1>4. PICK z : z = x \o y
  OBVIOUS
<1>5. PICK g : g = x \o f
  OBVIOUS
<1>6. z \in Seq(T) /\ g \in Seq(T) /\ \A e \in T : /\ Append(z, e) = x \o Append(y, e)
                                                  /\ Append(g, e) = x \o Append(f, e)
  <2>1. z \in Seq(T) /\ g \in Seq(T)
    BY <1>2, <1>3, <1>4, <1>5, ConcatProperties, Zenon
  <2>2. \A e \in T : Behind(x, y, e) /\ Behind(x, f, e)
    BY <1>2, <1>3, AppendBehind, Zenon
  <2>. QED BY <1>4, <1>5, <2>1, <2>2, Zenon DEF Behind
<1>8. z = Append(g, l)
  BY <1>3, <1>4, <1>6, Zenon
<1>9. z # <<>> /\ Front(z) = g /\ Last(z) = l
  BY <1>3, <1>6, <1>8, Longer, Zenon
<1>10. z \in Pieces(Symbol)
  BY <1>1, <1>6, <1>9, PiecesAre, Zenon
<1>11. CASE c = separator
  <2>1. PICK e \in T : e = <<>>
    BY <1>1, EmptySeq, Zenon
  <2>2. Grown(z, c, separator) = Append(z, e) /\ Grown(y, c, separator) = Append(y, e)
    BY <1>10, <1>11, <2>1, GrownIs, Zenon
  <2>. QED BY <1>4, <1>6, <2>2, Zenon DEF StaysBefore
<1>12. CASE c # separator
  <2>1. PICK e \in T : e = Append(l, c)
    BY <1>1, AppendProperties, Zenon
  <2>2. Grown(z, c, separator) = Append(g, e)
    BY <1>9, <1>10, <1>12, <2>1, GrownIs
  <2>3. Grown(y, c, separator) = Append(f, e)
    BY <1>3, <1>12, <2>1, GrownIs
  <2>. QED BY <1>4, <1>6, <2>2, <2>3, Zenon DEF StaysBefore
<1>. QED BY <1>11, <1>12, Zenon

\* The pieces of two texts with a separator between them.
Divided(a, b, separator) ==
  Split(Append(a, separator) \o b, separator) = Split(a, separator) \o Split(b, separator)

LEMMA SplitBetween ==
  ASSUME NEW Symbol, NEW a \in Seq(Symbol), NEW b \in Seq(Symbol), NEW separator \in Symbol
  PROVE  Divided(a, b, separator)
<1>1. PICK head \in Seq(Symbol) : head = Append(a, separator)
  BY AppendProperties, Zenon
<1>2. PICK x \in Seq(Seq(Symbol)) : x = Split(a, separator)
  BY SplitMore, PiecesAre, Zenon
<1>. DEFINE K == {t \in Seq(Symbol) :
                    Split(head \o t, separator) = x \o Split(t, separator)}
<1>3. <<>> \in K
  <2>1. head \o <<>> = head /\ <<>> \in Seq(Symbol)
    BY EmptySeq, ConcatEmptySeq, Zenon
  <2>2. PICK e \in Seq(Symbol) : e = <<>>
    BY <2>1
  <2>3. Append(x, e) = x \o <<e>>
    BY AppendIsConcat, Zenon
  <2>4. Split(head, separator) = Append(x, e)
    BY <1>1, <1>2, <2>2, SplitEnded, Zenon
  <2>5. Split(<<>>, separator) = <<e>>
    BY <2>2, SplitNothing, Zenon
  <2>. QED BY <2>1, <2>3, <2>4, <2>5, Zenon
<1>4. ASSUME NEW t \in Seq(Symbol), NEW c \in Symbol, t \in K PROVE Append(t, c) \in K
  <2>1. head \o Append(t, c) = Append(head \o t, c)
    OBVIOUS
  <2>2. head \o t \in Seq(Symbol) /\ Append(t, c) \in Seq(Symbol)
    BY ConcatProperties, AppendProperties, Zenon
  <2>3. PICK y \in Pieces(Symbol) : y = Split(t, separator)
    BY SplitMore, Zenon
  <2>4. Split(head \o t, separator) = x \o y
    BY <1>4, <2>3
  <2>5. Split(Append(head \o t, c), separator) = Grown(x \o y, c, separator)
    BY <2>2, <2>4, SplitMore, Zenon
  <2>6. Split(Append(t, c), separator) = Grown(y, c, separator)
    BY <2>3, SplitMore, Zenon
  <2>7. Grown(x \o y, c, separator) = x \o Grown(y, c, separator)
    <3>1. StaysBefore(x, y, c, separator)
      BY GrownBehind, Zenon
    <3>. QED BY <3>1, Zenon DEF StaysBefore
  <2>. QED BY <2>1, <2>2, <2>5, <2>6, <2>7, Zenon
<1>5. b \in K
  <2>. HIDE DEF K
  <2>. QED BY <1>3, <1>4, SymbolBySymbol, Zenon
<1>. QED BY <1>1, <1>2, <1>5 DEF Divided

\* A text without a symbol.
Lacks(text, c) == \A k \in 1..Len(text) : text[k] # c

LEMMA LacksMore ==
  ASSUME NEW Symbol, NEW text \in Seq(Symbol), NEW c \in Symbol, NEW other
  PROVE  Lacks(Append(text, c), other) <=> Lacks(text, other) /\ c # other
<1>1. PICK n \in Nat : n = Len(text)
  OBVIOUS
<1>2. PICK more : more = Append(text, c)
  OBVIOUS
<1>3. Len(more) = n + 1 /\ more[n + 1] = c /\ \A k \in 1..n : more[k] = text[k]
  BY <1>1, <1>2
<1>4. \A k \in 1..n + 1 : k \in 1..n \/ k = n + 1
  OBVIOUS
<1>5. \A k \in 1..n : k \in 1..n + 1
  OBVIOUS
<1>6. n + 1 \in 1..n + 1
  OBVIOUS
<1>. QED BY <1>1, <1>2, <1>3, <1>4, <1>5, <1>6, Zenon DEF Lacks

\* No separator is left in a piece.
LEMMA PiecesLack ==
  ASSUME NEW Symbol, NEW text \in Seq(Symbol), NEW separator,
         NEW j \in 1..Len(Split(text, separator))
  PROVE  Lacks(Split(text, separator)[j], separator)
<1>. DEFINE Apart(pieces) == \A u \in 1..Len(pieces) : Lacks(pieces[u], separator)
            K == {t \in Seq(Symbol) : Apart(Split(t, separator))}
<1>1. <<>> \in K
  <2>1. PICK e : e = <<>>
    OBVIOUS
  <2>2. Lacks(e, separator)
    BY <2>1 DEF Lacks
  <2>3. PICK pieces : pieces = <<e>>
    OBVIOUS
  <2>4. \A u \in 1..Len(pieces) : pieces[u] = e
    BY <2>3
  <2>5. Apart(pieces)
    BY <2>2, <2>4, Zenon
  <2>6. <<>> \in Seq(Symbol) /\ Split(<<>>, separator) = pieces
    BY <2>1, <2>3, EmptySeq, SplitNothing, Zenon
  <2>. HIDE DEF Apart
  <2>. QED BY <2>5, <2>6
<1>2. ASSUME NEW t \in Seq(Symbol), NEW c \in Symbol, t \in K PROVE Append(t, c) \in K
  <2>1. PICK T : T = Seq(Symbol)
    OBVIOUS
  <2>2. PICK pieces \in Seq(T) : pieces = Split(t, separator) /\ pieces # <<>> /\ Apart(pieces)
    <3>1. Split(t, separator) \in Seq(T) /\ Split(t, separator) # <<>>
      BY <2>1, SplitMore, PiecesAre, Zenon
    <3>2. Apart(Split(t, separator))
      BY <1>2, Zenon
    <3>. HIDE DEF Apart
    <3>. QED BY <3>1, <3>2, Zenon
  <2>3. ASSUME NEW f \in Seq(T), NEW e \in T, Apart(f), Lacks(e, separator)
        PROVE  Apart(Append(f, e))
    <3>1. PICK n \in Nat : n = Len(f)
      OBVIOUS
    <3>2. PICK more : more = Append(f, e)
      OBVIOUS
    <3>3. Len(more) = n + 1 /\ more[n + 1] = e /\ \A u \in 1..n : more[u] = f[u]
      BY <3>1, <3>2
    <3>4. \A u \in 1..n + 1 : u \in 1..n \/ u = n + 1
      OBVIOUS
    <3>. QED BY <2>3, <3>1, <3>2, <3>3, <3>4, Zenon
  <2>4. PICK f \in Seq(T), l \in T :
          /\ f = Front(pieces) /\ l = Last(pieces) /\ Len(f) = Len(pieces) - 1
          /\ l = pieces[Len(pieces)] /\ \A u \in 1..Len(pieces) - 1 : f[u] = pieces[u]
    <3>. HIDE DEF Apart
    <3>1. /\ Front(pieces) \in Seq(T) /\ Last(pieces) \in T
          /\ Len(Front(pieces)) = Len(pieces) - 1 /\ Last(pieces) = pieces[Len(pieces)]
          /\ \A u \in 1..Len(pieces) - 1 : Front(pieces)[u] = pieces[u]
      BY <2>2, Ends
    <3>. QED BY <3>1, Zenon
  <2>5. Lacks(l, separator) /\ Apart(f)
    <3>1. PICK n \in Nat \ {0} : n = Len(pieces)
      BY <2>2, EmptySeq
    <3>2. \A u \in 1..n - 1 : u \in 1..n
      OBVIOUS
    <3>3. n \in 1..n
      OBVIOUS
    <3>. QED BY <2>2, <2>4, <3>1, <3>2, <3>3, Zenon
  <2>6. Append(t, c) \in Seq(Symbol)
    BY AppendProperties, Zenon
  <2>7. CASE c = separator
    <3>1. PICK e \in T : e = <<>>
      BY <2>1, EmptySeq, Zenon
    <3>2. Lacks(e, separator)
      BY <3>1 DEF Lacks
    <3>3. Split(Append(t, c), separator) = Append(pieces, e)
      BY <2>2, <2>7, <3>1, SplitEnded, Zenon
    <3>4. Apart(Append(pieces, e))
      BY <2>2, <2>3, <3>2, Zenon
    <3>. HIDE DEF Apart
    <3>. QED BY <2>6, <3>3, <3>4
  <2>8. CASE c # separator
    <3>1. PICK e \in T : e = Append(l, c)
      BY <2>1, AppendProperties, Zenon
    <3>2. Lacks(e, separator)
      BY <2>1, <2>5, <2>8, <3>1, LacksMore, Zenon
    <3>3. Split(Append(t, c), separator) = Append(Front(pieces), Append(Last(pieces), c))
      <4>1. Lengthened(t, c, separator, pieces)
        BY <2>2, <2>8, SplitLonger, Zenon
      <4>. QED BY <4>1, Zenon DEF Lengthened
    <3>4. Apart(Append(f, e))
      BY <2>3, <2>5, <3>2, Zenon
    <3>5. Split(Append(t, c), separator) = Append(f, e)
      BY <2>4, <3>1, <3>3, Zenon
    <3>. HIDE DEF Apart
    <3>. QED BY <2>6, <3>4, <3>5
  <2>. QED BY <2>7, <2>8, Zenon
<1>3. text \in K
  <2>. HIDE DEF K
  <2>. QED BY <1>1, <1>2, SymbolBySymbol, Zenon
<1>. QED BY <1>3

\* A text without a separator is one piece.
LEMMA SplitWhole ==
  ASSUME NEW Symbol, NEW text \in Seq(Symbol), NEW separator, Lacks(text, separator)
  PROVE  Split(text, separator) = <<text>>
<1>. DEFINE K == {t \in Seq(Symbol) : Lacks(t, separator) => Split(t, separator) = <<t>>}
<1>1. <<>> \in K
  <2>1. <<>> \in Seq(Symbol) /\ Split(<<>>, separator) = <<<<>>>>
    BY EmptySeq, SplitNothing, Zenon
  <2>. QED BY <2>1, Zenon
<1>2. ASSUME NEW t \in Seq(Symbol), NEW c \in Symbol, t \in K PROVE Append(t, c) \in K
  <2>1. PICK T : T = Seq(Symbol)
    OBVIOUS
  <2>2. Append(t, c) \in T
    BY <2>1, AppendProperties, Zenon
  <2>3. ASSUME Lacks(Append(t, c), separator)
        PROVE  Split(Append(t, c), separator) = <<Append(t, c)>>
    <3>1. Lacks(t, separator) /\ c # separator
      BY <2>3, LacksMore, Zenon
    <3>2. Split(t, separator) = <<t>>
      BY <1>2, <3>1
    <3>3. PICK pieces : pieces = <<t>>
      OBVIOUS
    <3>4. Front(pieces) = <<>> /\ Last(pieces) = t
      BY <3>3 DEF Front, Last
    <3>5. Split(Append(t, c), separator) = Append(<<>>, Append(t, c))
      <4>1. Lengthened(t, c, separator, pieces)
        BY <3>1, <3>2, <3>3, SplitLonger, Zenon
      <4>. QED BY <3>4, <4>1, Zenon DEF Lengthened
    <3>. QED BY <3>5
  <2>. QED BY <2>1, <2>2, <2>3, Zenon
<1>3. text \in K
  <2>. HIDE DEF K
  <2>. QED BY <1>1, <1>2, SymbolBySymbol, Zenon
<1>. QED BY <1>3

\* The last piece is empty only behind a separator.
LEMMA LastPiece ==
  ASSUME NEW Symbol, NEW text \in Seq(Symbol), text # <<>>, NEW separator,
         Last(text) # separator
  PROVE  Last(Split(text, separator)) # <<>>
<1>1. PICK f \in Seq(Symbol), l \in Symbol : text = Append(f, l) /\ l = Last(text)
  BY Ends, Zenon
<1>2. PICK T : T = Seq(Symbol)
  OBVIOUS
<1>3. PICK pieces \in Seq(T) : pieces = Split(f, separator) /\ pieces # <<>>
  BY <1>2, SplitMore, PiecesAre, Zenon
<1>4. Front(pieces) \in Seq(T) /\ Last(pieces) \in T
  BY <1>3, Ends, Zenon
<1>5. PICK e \in T : e = Append(Last(pieces), l) /\ e # <<>>
  BY <1>2, <1>4, AppendProperties, Zenon
<1>6. Split(text, separator) = Append(Front(pieces), e)
  <2>1. Lengthened(f, l, separator, pieces)
    BY <1>1, <1>3, SplitLonger, Zenon
  <2>. QED BY <1>1, <1>5, <2>1, Zenon DEF Lengthened
<1>7. Last(Append(Front(pieces), e)) = e
  BY <1>4, Longer, Zenon
<1>. QED BY <1>5, <1>6, <1>7, Zenon

(***************************************************************************)
(* The path of a target                                                    *)
(***************************************************************************)

LEMMA NonEmptyIs ==
  ASSUME NEW Symbol, NEW text
  PROVE  text \in NonEmpty(Symbol) <=> text \in Seq(Symbol) /\ text # <<>>
BY Zenon DEF NonEmpty

LEMMA NoSegment ==
  ASSUME NEW Symbol, "/" \in Symbol
  PROVE  <<"/">> \in NonEmpty(Symbol)
<1>1. PICK c \in Symbol : c = "/"
  OBVIOUS
<1>2. <<c>> \in Seq(Symbol) /\ <<c>> # <<>>
  OBVIOUS
<1>. QED BY <1>1, <1>2, NonEmptyIs, Zenon

LEMMA SlashIs ==
  ASSUME NEW Symbol, "/" \in Symbol, NEW path \in Seq(Symbol), path # <<>>
  PROVE  /\ Slash(path) \in Seq(Symbol) /\ Slash(path) # <<>> /\ Slash(path)[1] = path[1]
         /\ Last(path) = "/" => Slash(path) = path
         /\ Last(path) # "/" => Slash(path) = Append(path, "/")
<1>1. PICK n \in Nat \ {0} : n = Len(path)
  BY EmptySeq
<1>2. PICK more : more = Append(path, "/")
  OBVIOUS
<1>3. more \in Seq(Symbol) /\ more # <<>> /\ \A j \in 1..n : more[j] = path[j]
  <2>1. more \in Seq(Symbol) /\ more # <<>> /\ \A j \in 1..Len(path) : more[j] = path[j]
    BY <1>2, OneMore
  <2>. QED BY <1>1, <2>1, Zenon
<1>4. 1 \in 1..n
  BY <1>1
<1>. QED BY <1>2, <1>3, <1>4, Zenon DEF Slash

LEMMA BelowType ==
  ASSUME NEW Symbol, "/" \in Symbol, NEW path \in NonEmpty(Symbol), NEW segment \in Seq(Symbol)
  PROVE  Below(path, segment) \in NonEmpty(Symbol)
<1>1. path \in Seq(Symbol) /\ path # <<>>
  BY NonEmptyIs, Zenon
<1>2. PICK slash \in Seq(Symbol) : slash = Slash(path) /\ slash # <<>>
  BY <1>1, SlashIs, Zenon
<1>3. slash \o segment \in Seq(Symbol) /\ slash \o segment # <<>>
  <2>1. Len(slash \o segment) = Len(slash) + Len(segment) /\ Len(slash) # 0
    BY <1>2
  <2>2. slash \o segment \in Seq(Symbol)
    BY ConcatProperties, Zenon
  <2>3. Len(slash \o segment) # 0
    BY <2>1
  <2>. QED BY <2>2, <2>3, EmptySeq, Zenon
<1>4. slash \o segment \in NonEmpty(Symbol)
  BY <1>3, NonEmptyIs, Zenon
<1>. QED BY <1>2, <1>4, Zenon DEF Below

\* The path after each segment.
IsJoined(segments, r) ==
  /\ Joined(segments) = r[Len(segments)] /\ r[0] = <<"/">>
  /\ \A j \in 1..Len(segments) : r[j] = Below(r[j - 1], segments[j])

LEMMA JoinedRead ==
  ASSUME NEW Symbol, "/" \in Symbol, NEW segments \in Seq(Seq(Symbol))
  PROVE  \E r \in [0..Len(segments) -> NonEmpty(Symbol)] : IsJoined(segments, r)
<1>1. PICK n \in Nat : n = Len(segments)
  OBVIOUS
<1>2. PICK S : S = NonEmpty(Symbol)
  OBVIOUS
<1>3. PICK empty \in S : empty = <<"/">>
  BY <1>2, NoSegment, Zenon
<1>. DEFINE new(s, j) == Below(s, segments[j])
<1>4. ASSUME NEW s \in S, NEW j \in 1..n PROVE new(s, j) \in S
  <2>1. segments[j] \in Seq(Symbol)
    BY <1>1
  <2>. QED BY <1>2, <2>1, BelowType, Zenon
<1>5. PICK step : step = [q \in (1..n) \X S |-> new(q[2], q[1])]
  OBVIOUS
<1>6. step \in [(1..n) \X S -> S]
  <2>. HIDE DEF new
  <2>. QED BY <1>4, <1>5
<1>7. PICK f \in [0..n -> S] : Computes(f, n, empty, step)
  BY <1>6, StepByStep, Zenon
<1>8. ASSUME NEW j \in 1..n PROVE f[j] = new(f[j - 1], j)
  <2>. HIDE DEF new
  <2>1. f[j] = step[<<j, f[j - 1]>>]
    BY <1>7 DEF Computes
  <2>2. <<j, f[j - 1]>> \in (1..n) \X S
    OBVIOUS
  <2>. QED BY <1>5, <2>1, <2>2
<1>9. f[0] = empty
  BY <1>7, Zenon DEF Computes
<1>10. f = [j \in 0..n |-> IF j = 0 THEN empty ELSE new(f[j - 1], j)]
  <2>. HIDE DEF new
  <2>1. \A j \in 0..n : f[j] = IF j = 0 THEN empty ELSE new(f[j - 1], j)
    BY <1>8, <1>9
  <2>2. f = [j \in 0..n |-> f[j]]
    OBVIOUS
  <2>3. [j \in 0..n |-> f[j]]
          = [j \in 0..n |-> IF j = 0 THEN empty ELSE new(f[j - 1], j)]
    BY <2>1
  <2>. QED BY <2>2, <2>3, Zenon
<1>11. PICK r : r = CHOOSE result : result = [j \in 0..n |->
                        IF j = 0 THEN empty ELSE new(result[j - 1], j)]
  OBVIOUS
<1>12. r = [j \in 0..n |-> IF j = 0 THEN empty ELSE new(r[j - 1], j)]
  <2>. HIDE DEF new
  <2>. QED BY <1>10, <1>11, Zenon
<1>13. ASSUME NEW j \in 0..n PROVE r[j] = IF j = 0 THEN empty ELSE new(r[j - 1], j)
  <2>. HIDE DEF new
  <2>. QED BY <1>12, Zenon
<1>14. r[0] = empty
  BY <1>13
<1>15. ASSUME NEW j \in 1..n PROVE r[j] = new(r[j - 1], j)
  <2>. HIDE DEF new
  <2>1. j \in 0..n /\ j # 0
    OBVIOUS
  <2>. QED BY <1>13, <2>1
<1>16. \A j \in 0..n : r[j] \in S
  <2>. HIDE DEF new
  <2>. DEFINE K == {j \in 0..n : r[j] \in S}
  <2>1. 0 \in K
    BY <1>14
  <2>2. ASSUME NEW m \in 0..n, m \in K, m < n PROVE m + 1 \in K
    <3>1. PICK j \in 1..n : j = m + 1 /\ j - 1 = m
      BY <2>2
    <3>2. r[j] = new(r[m], j)
      BY <1>15, <3>1
    <3>3. new(r[m], j) \in S
      BY <1>4, <2>2
    <3>. QED BY <3>1, <3>2, <3>3
  <2>. HIDE DEF K
  <2>3. \A j \in 0..n : j \in K
    BY <2>1, <2>2, UpTo
  <2>. QED BY <2>3 DEF K
<1>17. r \in [0..n -> S]
  <2>. HIDE DEF new
  <2>1. r = [j \in 0..n |-> r[j]]
    <3>1. [j \in 0..n |-> r[j]]
            = [j \in 0..n |-> IF j = 0 THEN empty ELSE new(r[j - 1], j)]
      BY <1>13
    <3>. QED BY <1>12, <3>1, Zenon
  <2>. QED BY <1>16, <2>1
<1>18. Joined(segments) = r[n]
  BY <1>1, <1>3, <1>11, Zenon DEF Joined
<1>19. IsJoined(segments, r)
  <2>1. \A j \in 1..n : r[j] = new(r[j - 1], j)
    BY <1>15, Zenon
  <2>. QED BY <1>1, <1>3, <1>14, <1>18, <2>1, Zenon DEF IsJoined
<1>. QED BY <1>1, <1>2, <1>17, <1>19, Zenon

\* One segment more.
LEMMA JoinedMore ==
  ASSUME NEW Symbol, "/" \in Symbol, NEW segments \in Seq(Seq(Symbol)), NEW c \in Seq(Symbol)
  PROVE  /\ Joined(segments) \in NonEmpty(Symbol)
         /\ Joined(Append(segments, c)) = Below(Joined(segments), c)
<1>1. PICK n \in Nat : n = Len(segments)
  OBVIOUS
<1>2. PICK more \in Seq(Seq(Symbol)) :
        /\ more = Append(segments, c) /\ Len(more) = n + 1 /\ more[n + 1] = c
        /\ \A j \in 1..n : more[j] = segments[j]
  <2>1. PICK more : more = Append(segments, c)
    OBVIOUS
  <2>2. /\ more \in Seq(Seq(Symbol)) /\ Len(more) = Len(segments) + 1 /\ more[Len(segments) + 1] = c
        /\ \A j \in 1..Len(segments) : more[j] = segments[j]
    BY <2>1, OneMore
  <2>. QED BY <1>1, <2>1, <2>2, Zenon
<1>3. PICK S : S = NonEmpty(Symbol)
  OBVIOUS
<1>4. PICK r \in [0..n -> S] : IsJoined(segments, r)
  BY <1>1, <1>3, JoinedRead, Zenon
<1>5. PICK q : IsJoined(more, q)
  BY <1>2, JoinedRead, Zenon
<1>6. r[0] = q[0]
  BY <1>4, <1>5, Zenon DEF IsJoined
<1>7. \A j \in 1..n : r[j] = Below(r[j - 1], segments[j])
  BY <1>1, <1>4, Zenon DEF IsJoined
<1>8. \A j \in 1..n + 1 : q[j] = Below(q[j - 1], more[j])
  BY <1>2, <1>5, Zenon DEF IsJoined
<1>. DEFINE K == {j \in 0..n : r[j] = q[j]}
<1>9. 0 \in K
  BY <1>6
<1>10. ASSUME NEW m \in 0..n, m \in K, m < n PROVE m + 1 \in K
  <2>1. PICK j \in 1..n : j = m + 1 /\ j - 1 = m /\ j \in 1..n + 1
    BY <1>10
  <2>2. r[m] = q[m] /\ more[j] = segments[j]
    BY <1>2, <1>10
  <2>3. r[j] = Below(r[m], segments[j]) /\ q[j] = Below(q[m], more[j])
    BY <1>7, <1>8, <2>1, Zenon
  <2>4. r[j] = q[j]
    BY <2>2, <2>3, Zenon
  <2>. QED BY <2>1, <2>4
<1>11. \A j \in 0..n : j \in K
  <2>. HIDE DEF K
  <2>. QED BY <1>9, <1>10, UpTo
<1>12. n \in 0..n /\ n + 1 \in 1..n + 1 /\ n + 1 - 1 = n
  OBVIOUS
<1>13. r[n] = q[n]
  BY <1>11, <1>12
<1>14. r[n] = Joined(segments) /\ q[n + 1] = Joined(more)
  BY <1>1, <1>2, <1>4, <1>5, Zenon DEF IsJoined
<1>15. q[n + 1] = Below(q[n], more[n + 1])
  <2>1. PICK j \in 1..n + 1 : j = n + 1 /\ j - 1 = n
    BY <1>12
  <2>2. q[j] = Below(q[j - 1], more[j])
    BY <1>8, Zenon
  <2>. QED BY <2>1, <2>2, Zenon
<1>16. r[n] \in S
  BY <1>4, <1>12
<1>. QED BY <1>2, <1>3, <1>13, <1>14, <1>15, <1>16, Zenon

LEMMA JoinedNothing ==
  Joined(<<>>) = <<"/">>
<1>1. PICK Symbol : Symbol = {"/"}
  OBVIOUS
<1>2. PICK segments \in Seq(Seq(Symbol)) : segments = <<>> /\ Len(segments) = 0
  BY EmptySeq, Zenon
<1>3. "/" \in Symbol
  BY <1>1
<1>4. PICK r : IsJoined(segments, r)
  BY <1>3, JoinedRead, Zenon
<1>. QED BY <1>2, <1>4, Zenon DEF IsJoined

\* A segment of a path in its shortest form.
Counts(segment) == segment \notin {<<>>, <<".">>, <<".", ".">>} /\ Lacks(segment, "/")

\* The path of segments that count.
Route(path, segments) ==
  /\ path[1] = "/" /\ path = Joined(segments)
  /\ \A j \in 1..Len(segments) : Counts(segments[j])
  /\ segments = <<>> => path = <<"/">>
  /\ segments # <<>> => Split(Tail(path), "/") = segments /\ Last(path) # "/"

LEMMA RootIsRoute ==
  Route(<<"/">>, <<>>)
<1>1. PICK root : root = <<"/">>
  OBVIOUS
<1>2. PICK none : none = <<>>
  OBVIOUS
<1>3. root[1] = "/"
  BY <1>1
<1>4. \A j \in 1..Len(none) : FALSE
  BY <1>2
<1>. QED BY <1>1, <1>2, <1>3, <1>4, JoinedNothing, Zenon DEF Route

\* Behind a slash stands another segment.
LEMMA RouteGrows ==
  ASSUME NEW Symbol, "/" \in Symbol, NEW path \in Seq(Symbol), path # <<>>,
         NEW segments \in Seq(Seq(Symbol)), Route(path, segments),
         NEW segment \in Seq(Symbol), Counts(segment)
  PROVE  Route(Below(path, segment), Append(segments, segment))
<1>1. PICK slash \in Seq(Symbol) :
        /\ slash = Slash(path) /\ slash # <<>> /\ slash[1] = path[1]
        /\ Last(path) = "/" => slash = path
        /\ Last(path) # "/" => slash = Append(path, "/")
  BY SlashIs, Zenon
<1>2. PICK new \in Seq(Symbol) : new = slash \o segment
  BY ConcatProperties, Zenon
<1>3. segment # <<>> /\ Lacks(segment, "/") /\ segment \notin {<<>>, <<".">>}
  BY Zenon DEF Counts
<1>4. Below(path, segment) = new
  BY <1>1, <1>2, <1>3, Zenon DEF Below
<1>5. PICK more : more = Append(segments, segment)
  OBVIOUS
<1>6. new = Joined(more)
  <2>1. path = Joined(segments)
    BY Zenon DEF Route
  <2>2. Joined(more) = Below(Joined(segments), segment)
    BY <1>5, JoinedMore, Zenon
  <2>. QED BY <1>4, <2>1, <2>2, Zenon
<1>7. PICK n \in Nat, m \in Nat : n = Len(slash) /\ m = Len(segment) /\ n # 0 /\ m # 0
  BY <1>1, <1>3, EmptySeq
<1>8. new[1] = "/"
  <2>1. path[1] = "/"
    BY Zenon DEF Route
  <2>2. new[1] = slash[1]
    BY <1>1, <1>2, <1>7
  <2>. QED BY <1>1, <2>1, <2>2
<1>9. new # <<>> /\ Last(new) # "/"
  <2>1. Len(new) = n + m /\ new[n + m] = segment[m]
    BY <1>2, <1>7
  <2>2. m \in 1..m
    BY <1>7
  <2>3. segment[m] # "/"
    BY <1>3, <1>7, <2>2, Zenon DEF Lacks
  <2>4. Last(new) = segment[m]
    BY <2>1 DEF Last
  <2>. QED BY <1>7, <2>1, <2>3, <2>4
<1>10. \A j \in 1..Len(more) : Counts(more[j])
  <2>1. PICK l \in Nat : l = Len(segments)
    OBVIOUS
  <2>2. Len(more) = l + 1 /\ more[l + 1] = segment /\ \A j \in 1..l : more[j] = segments[j]
    <3>1. /\ Len(more) = Len(segments) + 1 /\ more[Len(segments) + 1] = segment
          /\ \A j \in 1..Len(segments) : more[j] = segments[j]
      BY <1>5, OneMore
    <3>. QED BY <2>1, <3>1, Zenon
  <2>3. \A j \in 1..l + 1 : j \in 1..l \/ j = l + 1
    OBVIOUS
  <2>4. \A j \in 1..l : Counts(segments[j])
    BY <2>1, Zenon DEF Route
  <2>. QED BY <2>2, <2>3, <2>4, Zenon
<1>11. Split(Tail(new), "/") = more
  <2>1. CASE segments = <<>>
    <3>1. path = <<"/">>
      BY <2>1, Zenon DEF Route
    <3>2. slash = path
      <4>1. Last(path) = "/"
        BY <3>1 DEF Last
      <4>. QED BY <1>1, <4>1
    <3>3. Tail(new) = segment
      BY <1>2, <3>1, <3>2
    <3>4. Split(segment, "/") = <<segment>>
      BY <1>3, SplitWhole, Zenon
    <3>5. more = <<segment>>
      BY <1>5, <2>1
    <3>. QED BY <3>3, <3>4, <3>5, Zenon
  <2>2. CASE segments # <<>>
    <3>1. Split(Tail(path), "/") = segments /\ Last(path) # "/"
      BY <2>2, Zenon DEF Route
    <3>2. slash = Append(path, "/")
      BY <1>1, <3>1
    <3>3. PICK t \in Seq(Symbol) : t = Tail(path)
      BY HeadTailProperties, Zenon
    <3>4. Tail(new) = Append(t, "/") \o segment
      BY <1>2, <3>2, <3>3
    <3>5. Split(Append(t, "/") \o segment, "/") = Split(t, "/") \o Split(segment, "/")
      <4>1. Divided(t, segment, "/")
        BY SplitBetween, Zenon
      <4>. QED BY <4>1, Zenon DEF Divided
    <3>6. Split(segment, "/") = <<segment>>
      BY <1>3, SplitWhole, Zenon
    <3>7. more = segments \o <<segment>>
      BY <1>5, AppendIsConcat, Zenon
    <3>. QED BY <3>1, <3>3, <3>4, <3>5, <3>6, <3>7, Zenon
  <2>. QED BY <2>1, <2>2
<1>12. more # <<>>
  <2>1. PICK T : T = Seq(Symbol)
    OBVIOUS
  <2>2. segments \in Seq(T) /\ segment \in T
    BY <2>1, Zenon
  <2>. QED BY <1>5, <2>2, Longer, Zenon
<1>13. Route(new, more)
  BY <1>6, <1>8, <1>9, <1>10, <1>11, <1>12, Zenon DEF Route
<1>. QED BY <1>4, <1>5, <1>13, Zenon

\* Segments without a slash that do not climb make a path in its shortest form.
Harmless(segments) ==
  \A j \in 1..Len(segments) : segments[j] # <<".", ".">> /\ Lacks(segments[j], "/")

LEMMA JoinedIsRoute ==
  ASSUME NEW Symbol, "/" \in Symbol, NEW segments \in Seq(Seq(Symbol)), Harmless(segments)
  PROVE  \E kept \in Seq(Seq(Symbol)) : Route(Joined(segments), kept)
<1>1. PICK T : T = Seq(Symbol)
  OBVIOUS
<1>. DEFINE HasRoute(s) == \E kept \in Seq(T) : Route(Joined(s), kept)
            K == {s \in Seq(T) : Harmless(s) => HasRoute(s)}
<1>2. <<>> \in K
  <2>1. <<>> \in Seq(T)
    BY EmptySeq, Zenon
  <2>2. Route(Joined(<<>>), <<>>)
    BY RootIsRoute, JoinedNothing, Zenon
  <2>. QED BY <2>1, <2>2, Zenon
<1>3. ASSUME NEW s \in Seq(T), NEW e \in T, s \in K PROVE Append(s, e) \in K
  <2>1. PICK more : more = Append(s, e)
    OBVIOUS
  <2>2. more \in Seq(T)
    BY <2>1, AppendProperties, Zenon
  <2>3. ASSUME Harmless(more) PROVE HasRoute(more)
    <3>1. PICK l \in Nat : l = Len(s)
      OBVIOUS
    <3>2. Len(more) = l + 1 /\ more[l + 1] = e /\ \A j \in 1..l : more[j] = s[j]
      <4>1. /\ Len(more) = Len(s) + 1 /\ more[Len(s) + 1] = e
            /\ \A j \in 1..Len(s) : more[j] = s[j]
        BY <2>1, OneMore
      <4>. QED BY <3>1, <4>1, Zenon
    <3>3. (\A j \in 1..l : j \in 1..l + 1) /\ l + 1 \in 1..l + 1
      OBVIOUS
    <3>4. Harmless(s) /\ e # <<".", ".">> /\ Lacks(e, "/")
      BY <2>3, <3>1, <3>2, <3>3, Zenon DEF Harmless
    <3>5. PICK kept \in Seq(T) : Route(Joined(s), kept)
      BY <1>3, <3>4, Zenon
    <3>6. PICK path \in Seq(Symbol) : path = Joined(s) /\ path # <<>>
      BY <1>1, JoinedMore, NonEmptyIs, Zenon
    <3>7. Joined(more) = Below(path, e)
      BY <1>1, <2>1, <3>6, JoinedMore, Zenon
    <3>8. CASE e \in {<<>>, <<".">>}
      <4>1. Below(path, e) = path
        BY <3>8, Zenon DEF Below
      <4>. QED BY <3>5, <3>6, <3>7, <4>1, Zenon
    <3>9. CASE e \notin {<<>>, <<".">>}
      <4>1. Counts(e)
        BY <3>4, <3>9, Zenon DEF Counts
      <4>2. Route(Below(path, e), Append(kept, e))
        BY <1>1, <3>5, <3>6, <4>1, RouteGrows, Zenon
      <4>3. Append(kept, e) \in Seq(T)
        BY AppendProperties, Zenon
      <4>. QED BY <3>7, <4>2, <4>3, Zenon
    <3>. QED BY <3>8, <3>9, Zenon
  <2>. QED BY <2>1, <2>2, <2>3, Zenon
<1>4. segments \in K
  <2>. HIDE DEF K
  <2>. QED BY <1>1, <1>2, <1>3, SymbolBySymbol, Zenon
<1>. QED BY <1>1, <1>4

\* What is served: see PathIsCanonical.
Canonical(path) ==
  LET segments == Split(Tail(path), "/")
  IN /\ path[1] = "/"
     /\ \A j \in DOMAIN segments : segments[j] \notin {<<".">>, <<".", ".">>}
     /\ \A j \in 1..Len(segments) - 1 : segments[j] # <<>>
     /\ Normalised(path) = {path}

LEMMA CanonicalIs ==
  ASSUME NEW T, NEW path, NEW segments \in Seq(T), segments = Split(Tail(path), "/"),
         path[1] = "/",
         \A j \in 1..Len(segments) : segments[j] \notin {<<".">>, <<".", ".">>},
         \A j \in 1..Len(segments) - 1 : segments[j] # <<>>,
         path = IF Last(path) = "/" THEN Slash(Joined(segments)) ELSE Joined(segments)
  PROVE  Canonical(path)
<1>1. DOMAIN segments = 1..Len(segments)
  BY LenProperties, Zenon
<1>2. ~\E j \in DOMAIN segments : segments[j] = <<".", ".">>
  BY <1>1, Zenon
<1>3. Normalised(path) = {path}
  BY <1>2, Zenon DEF Normalised
<1>. QED BY <1>1, <1>3, Zenon DEF Canonical

\* The path of segments that count is in its shortest form, and with a slash too.
LEMMA RouteIsCanonical ==
  ASSUME NEW Symbol, "/" \in Symbol, NEW path \in Seq(Symbol), path # <<>>,
         NEW segments \in Seq(Seq(Symbol)), Route(path, segments)
  PROVE  Canonical(path) /\ Canonical(Slash(path))
<1>1. PICK T : T = Seq(Symbol)
  OBVIOUS
<1>2. PICK nothing \in T : nothing = <<>>
  BY <1>1, EmptySeq, Zenon
<1>3. path[1] = "/" /\ path = Joined(segments)
  BY Zenon DEF Route
<1>4. \A j \in 1..Len(segments) : segments[j] \notin {<<>>, <<".">>, <<".", ".">>}
  BY Zenon DEF Route, Counts
<1>5. nothing \notin {<<".">>, <<".", ".">>}
  BY <1>2
<1>6. Below(path, nothing) = path
  BY <1>2, Zenon DEF Below
<1>7. CASE segments = <<>>
  <2>1. path = <<"/">> /\ Last(path) = "/"
    <3>1. path = <<"/">>
      BY <1>7, Zenon DEF Route
    <3>. QED BY <3>1 DEF Last
  <2>2. Slash(path) = path
    BY <2>1, Zenon DEF Slash
  <2>3. Tail(path) = <<>>
    BY <2>1
  <2>4. PICK one \in Seq(T) : one = <<nothing>> /\ Len(one) = 1 /\ one[1] = nothing
    <3>1. <<nothing>> \in Seq(T) /\ Len(<<nothing>>) = 1 /\ <<nothing>>[1] = nothing
      OBVIOUS
    <3>. QED BY <3>1
  <2>5. one = Split(Tail(path), "/")
    BY <1>2, <2>3, <2>4, SplitNothing, Zenon
  <2>6. Joined(one) = path
    <3>1. one = Append(segments, nothing)
      BY <1>7, <2>4
    <3>2. Joined(Append(segments, nothing)) = Below(Joined(segments), nothing)
      BY <1>1, JoinedMore, Zenon
    <3>. QED BY <1>3, <1>6, <3>1, <3>2, Zenon
  <2>7. \A j \in 1..Len(one) : one[j] \notin {<<".">>, <<".", ".">>}
    <3>1. \A j \in 1..Len(one) : one[j] = nothing
      BY <2>4
    <3>. QED BY <1>5, <3>1, Zenon
  <2>8. \A j \in 1..Len(one) - 1 : one[j] # <<>>
    BY <2>4
  <2>9. path = IF Last(path) = "/" THEN Slash(Joined(one)) ELSE Joined(one)
    BY <2>1, <2>2, <2>6, Zenon
  <2>10. Canonical(path)
    BY <1>3, <2>5, <2>7, <2>8, <2>9, CanonicalIs, Zenon
  <2>. QED BY <2>2, <2>10, Zenon
<1>8. CASE segments # <<>>
  <2>1. Split(Tail(path), "/") = segments /\ Last(path) # "/"
    BY <1>8, Zenon DEF Route
  <2>2. Canonical(path)
    <3>1. \A j \in 1..Len(segments) - 1 : segments[j] # <<>>
      <4>1. \A j \in 1..Len(segments) - 1 : j \in 1..Len(segments)
        OBVIOUS
      <4>. QED BY <1>4, <4>1, Zenon
    <3>2. \A j \in 1..Len(segments) : segments[j] \notin {<<".">>, <<".", ".">>}
      BY <1>4, Zenon
    <3>3. segments \in Seq(T)
      BY <1>1
    <3>. QED BY <1>3, <2>1, <3>1, <3>2, <3>3, CanonicalIs, Zenon
  <2>3. PICK out \in Seq(Symbol) : out = Slash(path) /\ out[1] = "/" /\ out = Append(path, "/")
    BY <1>3, <2>1, SlashIs, Zenon
  <2>4. PICK more : more = Append(segments, nothing)
    OBVIOUS
  <2>5. more = Split(Tail(out), "/")
    <3>1. PICK t \in Seq(Symbol) : t = Tail(path)
      BY HeadTailProperties, Zenon
    <3>2. Tail(out) = Append(t, "/")
      BY <2>3, <3>1, HeadTailAppend, Zenon
    <3>3. Split(Append(t, "/"), "/") = Append(Split(t, "/"), <<>>)
      BY SplitEnded, Zenon
    <3>. QED BY <1>2, <2>1, <2>4, <3>1, <3>2, <3>3, Zenon
  <2>6. PICK l \in Nat : l = Len(segments)
    OBVIOUS
  <2>7. /\ more \in Seq(T) /\ Len(more) = l + 1 /\ more[l + 1] = nothing
        /\ \A j \in 1..l : more[j] = segments[j]
    <3>1. segments \in Seq(T)
      BY <1>1
    <3>2. /\ more \in Seq(T) /\ Len(more) = Len(segments) + 1
          /\ more[Len(segments) + 1] = nothing
          /\ \A j \in 1..Len(segments) : more[j] = segments[j]
      BY <2>4, <3>1, OneMore
    <3>. QED BY <2>6, <3>2, Zenon
  <2>8. Joined(more) = path
    <3>1. Joined(more) = Below(Joined(segments), nothing)
      BY <1>1, <2>4, JoinedMore, Zenon
    <3>. QED BY <1>3, <1>6, <3>1, Zenon
  <2>9. \A j \in 1..Len(more) : more[j] \notin {<<".">>, <<".", ".">>}
    <3>1. \A j \in 1..l + 1 : j \in 1..l \/ j = l + 1
      OBVIOUS
    <3>. QED BY <1>4, <1>5, <2>6, <2>7, <3>1, Zenon
  <2>10. \A j \in 1..Len(more) - 1 : more[j] # <<>>
    <3>1. Len(more) - 1 = l
      BY <2>7
    <3>2. \A j \in 1..l : more[j] = segments[j] /\ segments[j] # <<>>
      BY <1>4, <2>6, <2>7, Zenon
    <3>. QED BY <3>1, <3>2, Zenon
  <2>11. Last(out) = "/"
    <3>1. Last(Append(path, "/")) = "/"
      BY Longer
    <3>. QED BY <2>3, <3>1, Zenon
  <2>12. out = IF Last(out) = "/" THEN Slash(Joined(more)) ELSE Joined(more)
    BY <2>3, <2>8, <2>11, Zenon
  <2>13. Canonical(out)
    BY <2>3, <2>5, <2>7, <2>9, <2>10, <2>12, CanonicalIs, Zenon
  <2>. QED BY <2>2, <2>3, <2>13, Zenon
<1>. QED BY <1>7, <1>8

\* However many detours a path makes, what is left of it makes none.
LEMMA NormalisedIsCanonical ==
  ASSUME NEW Symbol, "/" \in Symbol, NEW decoded \in Seq(Symbol), decoded # <<>>,
         NEW path \in Normalised(decoded)
  PROVE  Canonical(path)
<1>1. PICK T : T = Seq(Symbol)
  OBVIOUS
<1>2. PICK segments \in Seq(T) : segments = Split(Tail(decoded), "/")
  <2>1. Tail(decoded) \in Seq(Symbol)
    BY HeadTailProperties, Zenon
  <2>. QED BY <1>1, <2>1, SplitMore, PiecesAre, Zenon
<1>3. PICK joined \in Seq(Symbol) : joined = Joined(segments) /\ joined # <<>>
  BY <1>1, JoinedMore, NonEmptyIs, Zenon
<1>4. ~\E j \in DOMAIN segments : segments[j] = <<".", ".">>
  BY <1>2, Zenon DEF Normalised
<1>5. path = IF Last(decoded) = "/" THEN Slash(joined) ELSE joined
  BY <1>2, <1>3, <1>4, Zenon DEF Normalised
<1>6. Harmless(segments)
  <2>1. DOMAIN segments = 1..Len(segments)
    BY LenProperties, Zenon
  <2>2. Tail(decoded) \in Seq(Symbol)
    BY HeadTailProperties, Zenon
  <2>3. \A j \in 1..Len(segments) : Lacks(segments[j], "/")
    BY <1>2, <2>2, PiecesLack, Zenon
  <2>. QED BY <1>4, <2>1, <2>3, Zenon DEF Harmless
<1>7. PICK kept \in Seq(T) : Route(joined, kept)
  BY <1>1, <1>3, <1>6, JoinedIsRoute, Zenon
<1>8. Canonical(joined) /\ Canonical(Slash(joined))
  BY <1>1, <1>3, <1>7, RouteIsCanonical, Zenon
<1>. QED BY <1>5, <1>8, Zenon

\* What the recursion of Unescaped() finds from each place on.
IsUnescaped(input, rest) ==
  /\ Unescaped(input) = rest[1]
  /\ \A j \in 1..Len(input) + 1 :
       rest[j] = IF j > Len(input) THEN {<<>>}
                 ELSE IF input[j] # "%" THEN Before({input[j]}, rest[j + 1])
                 ELSE IF j + 2 > Len(input) THEN {}
                 ELSE Before(HexByte(input[j + 1], input[j + 2]), rest[j + 3])

LEMMA HexBytes ==
  ASSUME NEW Symbol, {"/", ".", "o"} \subseteq Symbol, NEW a, NEW b
  PROVE  HexByte(a, b) \subseteq Symbol
BY DEF HexByte

BeginsWith(x, symbols, texts) == \E c \in symbols, t \in texts : x = <<c>> \o t

LEMMA BeforeIs ==
  ASSUME NEW symbols, NEW texts, NEW x \in Before(symbols, texts)
  PROVE  BeginsWith(x, symbols, texts)
BY Zenon DEF Before, BeginsWith

LEMMA BeforeType ==
  ASSUME NEW Symbol, NEW symbols, symbols \subseteq Symbol,
         NEW texts, texts \subseteq Seq(Symbol)
  PROVE  Before(symbols, texts) \in SUBSET Seq(Symbol)
<1>1. \A c \in symbols, t \in texts : <<c>> \o t \in Seq(Symbol)
  <2>. TAKE c \in symbols, t \in texts
  <2>1. c \in Symbol /\ t \in Seq(Symbol)
    OBVIOUS
  <2>. QED BY <2>1
<1>2. ASSUME NEW x \in Before(symbols, texts) PROVE x \in Seq(Symbol)
  <2>1. PICK c \in symbols, t \in texts : x = <<c>> \o t
    <3>1. BeginsWith(x, symbols, texts)
      BY BeforeIs, Zenon
    <3>. QED BY <3>1, Zenon DEF BeginsWith
  <2>. QED BY <1>1, <2>1, Zenon
<1>. QED BY <1>2

LEMMA UnescapedRead ==
  ASSUME NEW Symbol, {"/", ".", "o"} \subseteq Symbol, NEW input \in Seq(Symbol)
  PROVE  \E rest \in [1..Len(input) + 1 -> SUBSET Seq(Symbol)] : IsUnescaped(input, rest)
<1>1. PICK n \in Nat : n = Len(input)
  OBVIOUS
<1>2. PICK S : S = SUBSET Seq(Symbol)
  OBVIOUS
<1>. DEFINE Stops(p) == p > n \/ (input[p] = "%" /\ p + 2 > n)
            Bytes(p) == IF input[p] # "%" THEN {input[p]}
                        ELSE HexByte(input[p + 1], input[p + 2])
<1>3. PICK done : done = {p \in 1..n + 1 : Stops(p)}
  OBVIOUS
<1>4. PICK base \in [1..n + 1 -> S] :
        base = [p \in 1..n + 1 |-> IF p > n THEN {<<>>} ELSE {}]
  <2>1. {<<>>} \in S /\ {} \in S
    BY <1>2, EmptySeq
  <2>2. [p \in 1..n + 1 |-> IF p > n THEN {<<>>} ELSE {}] \in [1..n + 1 -> S]
    BY <2>1
  <2>. QED BY <2>2
<1>5. PICK next \in [1..n + 1 -> 1..n + 1] :
        next = [p \in 1..n + 1 |-> IF Stops(p) THEN p
                                   ELSE IF input[p] # "%" THEN p + 1 ELSE p + 3]
  <2>1. [p \in 1..n + 1 |-> IF Stops(p) THEN p
                            ELSE IF input[p] # "%" THEN p + 1 ELSE p + 3]
          \in [1..n + 1 -> 1..n + 1]
    OBVIOUS
  <2>. HIDE DEF Stops
  <2>. QED BY <2>1
<1>6. ASSUME NEW p \in 1..n + 1, p \notin done, NEW texts \in S PROVE Before(Bytes(p), texts) \in S
  <2>1. input[p] \in Symbol
    BY <1>1, <1>3, <1>6
  <2>2. Bytes(p) \subseteq Symbol
    <3>1. HexByte(input[p + 1], input[p + 2]) \subseteq Symbol
      BY HexBytes, Zenon
    <3>. QED BY <2>1, <3>1
  <2>. HIDE DEF Bytes
  <2>. QED BY <1>2, <2>2, BeforeType, Zenon
<1>7. PICK step \in [(1..n + 1) \X S -> S] :
        \A p \in 1..n + 1, texts \in S :
          step[<<p, texts>>] = IF p \in done THEN {} ELSE Before(Bytes(p), texts)
  <2>. DEFINE f == [q \in (1..n + 1) \X S |-> IF q[1] \in done THEN {} ELSE Before(Bytes(q[1]), q[2])]
  <2>. HIDE DEF Bytes
  <2>1. {} \in S
    BY <1>2
  <2>2. f \in [(1..n + 1) \X S -> S]
    BY <1>6, <2>1
  <2>3. ASSUME NEW p \in 1..n + 1, NEW texts \in S
        PROVE  f[<<p, texts>>] = IF p \in done THEN {} ELSE Before(Bytes(p), texts)
    <3>1. <<p, texts>> \in (1..n + 1) \X S
      OBVIOUS
    <3>. QED BY <3>1
  <2>. HIDE DEF f
  <2>. QED BY <2>2, <2>3
<1>8. \A p \in 1..n + 1 : p \notin done => next[p] > p
  BY <1>3, <1>5
<1>9. PICK f \in [1..n + 1 -> S] : Reaches(f, n, done, base, next, step)
  BY <1>8, FromTheEnd, Zenon
<1>. DEFINE Body(g, j) ==
       IF j > Len(input) THEN {<<>>}
       ELSE IF input[j] # "%" THEN Before({input[j]}, g[j + 1])
       ELSE IF j + 2 > Len(input) THEN {}
       ELSE Before(HexByte(input[j + 1], input[j + 2]), g[j + 3])
<1>10. ASSUME NEW g, NEW p \in 1..n + 1
       PROVE  Body(g, p) = IF p \in done THEN base[p] ELSE Before(Bytes(p), g[next[p]])
  <2>1. CASE p > n
    <3>1. p \in done /\ base[p] = {<<>>}
      BY <1>3, <1>4, <2>1
    <3>2. Body(g, p) = {<<>>}
      BY <1>1, <2>1
    <3>. HIDE DEF Body, Bytes
    <3>. QED BY <3>1, <3>2
  <2>2. CASE ~(p > n) /\ input[p] # "%"
    <3>1. p \notin done /\ next[p] = p + 1
      BY <1>3, <1>5, <2>2
    <3>2. Body(g, p) = Before({input[p]}, g[p + 1])
      BY <1>1, <2>2
    <3>3. Bytes(p) = {input[p]}
      BY <2>2
    <3>. HIDE DEF Body, Bytes
    <3>. QED BY <3>1, <3>2, <3>3, Zenon
  <2>3. CASE ~(p > n) /\ input[p] = "%" /\ p + 2 > n
    <3>1. p \in done /\ base[p] = {}
      BY <1>3, <1>4, <2>3
    <3>2. Body(g, p) = {}
      BY <1>1, <2>3
    <3>. HIDE DEF Body, Bytes
    <3>. QED BY <3>1, <3>2
  <2>4. CASE ~(p > n) /\ input[p] = "%" /\ ~(p + 2 > n)
    <3>1. p \notin done /\ next[p] = p + 3
      BY <1>3, <1>5, <2>4
    <3>2. Body(g, p) = Before(HexByte(input[p + 1], input[p + 2]), g[p + 3])
      BY <1>1, <2>4
    <3>3. Bytes(p) = HexByte(input[p + 1], input[p + 2])
      BY <2>4
    <3>. HIDE DEF Body, Bytes
    <3>. QED BY <3>1, <3>2, <3>3, Zenon
  <2>. QED BY <2>1, <2>2, <2>3, <2>4
<1>. HIDE DEF Bytes
<1>11. f = [j \in 1..n + 1 |-> Body(f, j)]
  <2>. HIDE DEF Body
  <2>1. ASSUME NEW p \in 1..n + 1 PROVE f[p] = Body(f, p)
    <3>1. f[next[p]] \in S /\ next[p] \in 1..n + 1
      OBVIOUS
    <3>2. f[p] = IF p \in done THEN base[p] ELSE step[<<p, f[next[p]]>>]
      BY <1>9, Zenon DEF Reaches
    <3>3. p \notin done => step[<<p, f[next[p]]>>] = Before(Bytes(p), f[next[p]])
      BY <1>7, <3>1, Zenon
    <3>. QED BY <1>10, <3>2, <3>3, Zenon
  <2>2. f = [j \in 1..n + 1 |-> f[j]]
    OBVIOUS
  <2>3. [j \in 1..n + 1 |-> f[j]] = [j \in 1..n + 1 |-> Body(f, j)]
    BY <2>1
  <2>. QED BY <2>2, <2>3, Zenon
<1>12. PICK r : r = CHOOSE rest : rest = [j \in 1..n + 1 |-> Body(rest, j)]
  OBVIOUS
<1>13. r = [j \in 1..n + 1 |-> Body(r, j)]
  <2>. HIDE DEF Body
  <2>. QED BY <1>11, <1>12, Zenon
<1>14. \A j \in 1..n + 1 : r[j] = Body(r, j)
  <2>. HIDE DEF Body
  <2>. QED BY <1>13, Zenon
<1>15. \A j \in 1..n + 1 : r[j] \in S
  <2>. HIDE DEF Body
  <2>. DEFINE K == {j \in 1..n + 1 : r[j] \in S}
  <2>1. ASSUME NEW p \in 1..n + 1, \A q \in p + 1..n + 1 : q \in K PROVE p \in K
    <3>1. r[p] = IF p \in done THEN base[p] ELSE Before(Bytes(p), r[next[p]])
      BY <1>10, <1>14, Zenon
    <3>2. CASE p \in done
      BY <3>1, <3>2
    <3>3. CASE p \notin done
      <4>1. next[p] \in p + 1..n + 1
        BY <1>8, <3>3
      <4>2. r[next[p]] \in S
        BY <2>1, <4>1
      <4>3. Before(Bytes(p), r[next[p]]) \in S
        BY <1>6, <3>3, <4>2, Zenon
      <4>. QED BY <3>1, <3>3, <4>3
    <3>. QED BY <3>2, <3>3
  <2>. HIDE DEF K
  <2>2. \A j \in 1..n + 1 : j \in K
    BY <2>1, Downward
  <2>. QED BY <2>2 DEF K
<1>16. r \in [1..n + 1 -> S]
  <2>. HIDE DEF Body
  <2>1. [j \in 1..n + 1 |-> r[j]] = [j \in 1..n + 1 |-> Body(r, j)]
    BY <1>14
  <2>2. r = [j \in 1..n + 1 |-> r[j]]
    BY <1>13, <2>1, Zenon
  <2>. QED BY <1>15, <2>2
<1>17. Unescaped(input) = r[1]
  BY <1>1, <1>12, Zenon DEF Unescaped
<1>18. IsUnescaped(input, r)
  BY <1>1, <1>14, <1>17, Zenon DEF IsUnescaped
<1>. QED BY <1>1, <1>2, <1>16, <1>18, Zenon

\* A target that begins with a slash does so unescaped.
LEMMA UnescapedType ==
  ASSUME NEW Symbol, {"/", ".", "o"} \subseteq Symbol, NEW input \in Seq(Symbol),
         input # <<>>, input[1] = "/", NEW decoded \in Unescaped(input)
  PROVE  decoded \in Seq(Symbol) /\ decoded # <<>>
<1>1. PICK n \in Nat \ {0} : n = Len(input)
  BY EmptySeq
<1>2. PICK rest \in [1..n + 1 -> SUBSET Seq(Symbol)] : IsUnescaped(input, rest)
  BY <1>1, UnescapedRead, Zenon
<1>3. 1 \in 1..n + 1 /\ ~(1 > n) /\ 1 + 1 \in 1..n + 1
  BY <1>1
<1>4. rest[1] = Before({"/"}, rest[1 + 1])
  BY <1>1, <1>2, <1>3 DEF IsUnescaped
<1>5. PICK t \in rest[1 + 1] : decoded = <<"/">> \o t
  <2>1. decoded \in Before({"/"}, rest[1 + 1])
    BY <1>2, <1>4, Zenon DEF IsUnescaped
  <2>2. PICK c \in {"/"}, t \in rest[1 + 1] : decoded = <<c>> \o t
    <3>1. BeginsWith(decoded, {"/"}, rest[1 + 1])
      BY <2>1, BeforeIs, Zenon
    <3>. QED BY <3>1, Zenon DEF BeginsWith
  <2>. QED BY <2>2
<1>6. PICK text \in Seq(Symbol) : text = t
  BY <1>3
<1>7. <<"/">> \o text \in Seq(Symbol) /\ <<"/">> \o text # <<>>
  OBVIOUS
<1>. QED BY <1>5, <1>6, <1>7, Zenon

LEMMA PathAlwaysCanonical ==
  ASSUME NEW Symbol, {"/", ".", "o"} \subseteq Symbol, NEW target \in Seq(Symbol),
         target # <<>>, target[1] = "/"
  PROVE  PathIsCanonical(target)
<1>1. ASSUME NEW path \in DecodePath(target) PROVE Canonical(path)
  <2>1. PICK decoded \in Unescaped(target) : path \in Normalised(decoded)
    BY <1>1, Zenon DEF DecodePath
  <2>2. decoded \in Seq(Symbol) /\ decoded # <<>>
    BY UnescapedType, Zenon
  <2>3. "/" \in Symbol
    OBVIOUS
  <2>. QED BY <2>1, <2>2, <2>3, NormalisedIsCanonical, Zenon
<1>. QED BY <1>1, Zenon DEF PathIsCanonical, Canonical

(***************************************************************************)
(* The choice of a location                                                *)
(***************************************************************************)

LEMMA NoLocation ==
  ASSUME NEW Symbol
  PROVE  {} \in SUBSET Seq(Symbol)
OBVIOUS

LEMMA BetterType ==
  ASSUME NEW Symbol, NEW best \in SUBSET Seq(Symbol), NEW location \in Seq(Symbol), NEW path
  PROVE  Better(best, location, path) \in SUBSET Seq(Symbol)
<1>1. {location} \in SUBSET Seq(Symbol)
  OBVIOUS
<1>. QED BY <1>1, Zenon DEF Better

\* The best location so far.
IsMatchLocation(locations, path, r) ==
  /\ MatchLocation(locations, path) = r[Len(locations)] /\ r[0] = {}
  /\ \A j \in 1..Len(locations) : r[j] = Better(r[j - 1], locations[j], path)

LEMMA MatchLocationRead ==
  ASSUME NEW Symbol, NEW locations \in Seq(Seq(Symbol)), NEW path
  PROVE  \E r \in [0..Len(locations) -> SUBSET Seq(Symbol)] : IsMatchLocation(locations, path, r)
<1>1. PICK n \in Nat : n = Len(locations)
  OBVIOUS
<1>2. PICK S : S = SUBSET Seq(Symbol)
  OBVIOUS
<1>3. PICK empty \in S : empty = {}
  BY <1>2, NoLocation, Zenon
<1>. DEFINE new(s, j) == Better(s, locations[j], path)
<1>4. ASSUME NEW s \in S, NEW j \in 1..n PROVE new(s, j) \in S
  <2>1. locations[j] \in Seq(Symbol)
    BY <1>1
  <2>. QED BY <1>2, <2>1, BetterType, Zenon
<1>5. PICK step : step = [q \in (1..n) \X S |-> new(q[2], q[1])]
  OBVIOUS
<1>6. step \in [(1..n) \X S -> S]
  <2>. HIDE DEF new
  <2>. QED BY <1>4, <1>5
<1>7. PICK f \in [0..n -> S] : Computes(f, n, empty, step)
  BY <1>6, StepByStep, Zenon
<1>8. ASSUME NEW j \in 1..n PROVE f[j] = new(f[j - 1], j)
  <2>. HIDE DEF new
  <2>1. f[j] = step[<<j, f[j - 1]>>]
    BY <1>7 DEF Computes
  <2>2. <<j, f[j - 1]>> \in (1..n) \X S
    OBVIOUS
  <2>. QED BY <1>5, <2>1, <2>2
<1>9. f[0] = empty
  BY <1>7, Zenon DEF Computes
<1>10. f = [j \in 0..n |-> IF j = 0 THEN empty ELSE new(f[j - 1], j)]
  <2>. HIDE DEF new
  <2>1. \A j \in 0..n : f[j] = IF j = 0 THEN empty ELSE new(f[j - 1], j)
    BY <1>8, <1>9
  <2>2. f = [j \in 0..n |-> f[j]]
    OBVIOUS
  <2>3. [j \in 0..n |-> f[j]]
          = [j \in 0..n |-> IF j = 0 THEN empty ELSE new(f[j - 1], j)]
    BY <2>1
  <2>. QED BY <2>2, <2>3, Zenon
<1>11. PICK r : r = CHOOSE result : result = [j \in 0..n |->
                        IF j = 0 THEN empty ELSE new(result[j - 1], j)]
  OBVIOUS
<1>12. r = [j \in 0..n |-> IF j = 0 THEN empty ELSE new(r[j - 1], j)]
  <2>. HIDE DEF new
  <2>. QED BY <1>10, <1>11, Zenon
<1>13. ASSUME NEW j \in 0..n PROVE r[j] = IF j = 0 THEN empty ELSE new(r[j - 1], j)
  <2>. HIDE DEF new
  <2>. QED BY <1>12, Zenon
<1>14. r[0] = empty
  BY <1>13
<1>15. ASSUME NEW j \in 1..n PROVE r[j] = new(r[j - 1], j)
  <2>. HIDE DEF new
  <2>1. j \in 0..n /\ j # 0
    OBVIOUS
  <2>. QED BY <1>13, <2>1
<1>16. \A j \in 0..n : r[j] \in S
  <2>. HIDE DEF new
  <2>. DEFINE K == {j \in 0..n : r[j] \in S}
  <2>1. 0 \in K
    BY <1>14
  <2>2. ASSUME NEW m \in 0..n, m \in K, m < n PROVE m + 1 \in K
    <3>1. PICK j \in 1..n : j = m + 1 /\ j - 1 = m
      BY <2>2
    <3>2. r[j] = new(r[m], j)
      BY <1>15, <3>1
    <3>3. new(r[m], j) \in S
      BY <1>4, <2>2
    <3>. QED BY <3>1, <3>2, <3>3
  <2>. HIDE DEF K
  <2>3. \A j \in 0..n : j \in K
    BY <2>1, <2>2, UpTo
  <2>. QED BY <2>3 DEF K
<1>17. r \in [0..n -> S]
  <2>. HIDE DEF new
  <2>1. r = [j \in 0..n |-> r[j]]
    <3>1. [j \in 0..n |-> r[j]]
            = [j \in 0..n |-> IF j = 0 THEN empty ELSE new(r[j - 1], j)]
      BY <1>13
    <3>. QED BY <1>12, <3>1, Zenon
  <2>. QED BY <1>16, <2>1
<1>18. MatchLocation(locations, path) = r[n]
  BY <1>1, <1>3, <1>11, Zenon DEF MatchLocation
<1>19. IsMatchLocation(locations, path, r)
  <2>1. \A j \in 1..n : r[j] = new(r[j - 1], j)
    BY <1>15, Zenon
  <2>. QED BY <1>1, <1>3, <1>14, <1>18, <2>1, Zenon DEF IsMatchLocation
<1>. QED BY <1>1, <1>2, <1>17, <1>19, Zenon

\* One location more.
LEMMA MatchLocationMore ==
  ASSUME NEW Symbol, NEW locations \in Seq(Seq(Symbol)), NEW path, NEW c \in Seq(Symbol)
  PROVE  /\ MatchLocation(locations, path) \in SUBSET Seq(Symbol)
         /\ MatchLocation(Append(locations, c), path) = Better(MatchLocation(locations, path), c, path)
<1>1. PICK n \in Nat : n = Len(locations)
  OBVIOUS
<1>2. PICK more \in Seq(Seq(Symbol)) :
        /\ more = Append(locations, c) /\ Len(more) = n + 1 /\ more[n + 1] = c
        /\ \A j \in 1..n : more[j] = locations[j]
  <2>1. PICK more : more = Append(locations, c)
    OBVIOUS
  <2>2. /\ more \in Seq(Seq(Symbol)) /\ Len(more) = Len(locations) + 1 /\ more[Len(locations) + 1] = c
        /\ \A j \in 1..Len(locations) : more[j] = locations[j]
    BY <2>1, OneMore
  <2>. QED BY <1>1, <2>1, <2>2, Zenon
<1>3. PICK S : S = SUBSET Seq(Symbol)
  OBVIOUS
<1>4. PICK r \in [0..n -> S] : IsMatchLocation(locations, path, r)
  BY <1>1, <1>3, MatchLocationRead, Zenon
<1>5. PICK q : IsMatchLocation(more, path, q)
  BY <1>2, MatchLocationRead, Zenon
<1>6. r[0] = q[0]
  BY <1>4, <1>5, Zenon DEF IsMatchLocation
<1>7. \A j \in 1..n : r[j] = Better(r[j - 1], locations[j], path)
  BY <1>1, <1>4, Zenon DEF IsMatchLocation
<1>8. \A j \in 1..n + 1 : q[j] = Better(q[j - 1], more[j], path)
  BY <1>2, <1>5, Zenon DEF IsMatchLocation
<1>. DEFINE K == {j \in 0..n : r[j] = q[j]}
<1>9. 0 \in K
  BY <1>6
<1>10. ASSUME NEW m \in 0..n, m \in K, m < n PROVE m + 1 \in K
  <2>1. PICK j \in 1..n : j = m + 1 /\ j - 1 = m /\ j \in 1..n + 1
    BY <1>10
  <2>2. r[m] = q[m] /\ more[j] = locations[j]
    BY <1>2, <1>10
  <2>3. r[j] = Better(r[m], locations[j], path) /\ q[j] = Better(q[m], more[j], path)
    BY <1>7, <1>8, <2>1, Zenon
  <2>4. r[j] = q[j]
    BY <2>2, <2>3, Zenon
  <2>. QED BY <2>1, <2>4
<1>11. \A j \in 0..n : j \in K
  <2>. HIDE DEF K
  <2>. QED BY <1>9, <1>10, UpTo
<1>12. n \in 0..n /\ n + 1 \in 1..n + 1 /\ n + 1 - 1 = n
  OBVIOUS
<1>13. r[n] = q[n]
  BY <1>11, <1>12
<1>14. r[n] = MatchLocation(locations, path) /\ q[n + 1] = MatchLocation(more, path)
  BY <1>1, <1>2, <1>4, <1>5, Zenon DEF IsMatchLocation
<1>15. q[n + 1] = Better(q[n], more[n + 1], path)
  <2>1. PICK j \in 1..n + 1 : j = n + 1 /\ j - 1 = n
    BY <1>12
  <2>2. q[j] = Better(q[j - 1], more[j], path)
    BY <1>8, Zenon
  <2>. QED BY <2>1, <2>2, Zenon
<1>16. r[n] \in S
  BY <1>4, <1>12
<1>. QED BY <1>2, <1>3, <1>13, <1>14, <1>15, <1>16, Zenon

LEMMA MatchNothing ==
  ASSUME NEW path
  PROVE  MatchLocation(<<>>, path) = {}
<1>1. PICK locations \in Seq(Seq({})) : locations = <<>> /\ Len(locations) = 0
  BY EmptySeq, Zenon
<1>2. PICK r : IsMatchLocation(locations, path, r)
  BY MatchLocationRead, Zenon
<1>. QED BY <1>1, <1>2, Zenon DEF IsMatchLocation

\* No location matches, or the one chosen is the longest that does.
Longest(locations, path, location) ==
  /\ \E j \in 1..Len(locations) : location = locations[j]
  /\ Matches(location, path)
  /\ \A j \in 1..Len(locations) : Matches(locations[j], path) => Len(locations[j]) <= Len(location)

Chosen(locations, path, best) ==
  \/ best = {} /\ \A j \in 1..Len(locations) : ~Matches(locations[j], path)
  \/ \E location : best = {location} /\ Longest(locations, path, location)

LEMMA ChosenBetter ==
  ASSUME NEW Symbol, NEW locations \in Seq(Seq(Symbol)), NEW path, NEW best,
         Chosen(locations, path, best), NEW location \in Seq(Symbol)
  PROVE  Chosen(Append(locations, location), path, Better(best, location, path))
<1>1. PICK l \in Nat : l = Len(locations)
  OBVIOUS
<1>2. PICK more : more = Append(locations, location)
  OBVIOUS
<1>3. Len(more) = l + 1 /\ more[l + 1] = location /\ \A j \in 1..l : more[j] = locations[j]
  <2>1. /\ Len(more) = Len(locations) + 1 /\ more[Len(locations) + 1] = location
        /\ \A j \in 1..Len(locations) : more[j] = locations[j]
    BY <1>2, OneMore
  <2>. QED BY <1>1, <2>1, Zenon
<1>4. \A j \in 1..l : locations[j] \in Seq(Symbol)
  BY <1>1
<1>5. /\ \A j \in 1..l + 1 : j \in 1..l \/ j = l + 1
      /\ l + 1 \in 1..l + 1 /\ \A j \in 1..l : j \in 1..l + 1
  OBVIOUS
<1>6. PICK new : new = Better(best, location, path)
  OBVIOUS
<1>7. CASE best = {}
  <2>1. \A j \in 1..l : ~Matches(locations[j], path)
    <3>1. \A other : best # {other}
      BY <1>7
    <3>. QED BY <1>1, <3>1, Zenon DEF Chosen
  <2>2. CASE Matches(location, path)
    <3>1. new = {location}
      BY <1>6, <1>7, <2>2 DEF Better
    <3>2. Len(location) <= Len(location)
      OBVIOUS
    <3>3. Longest(more, path, location)
      BY <1>3, <1>5, <2>1, <2>2, <3>2, Zenon DEF Longest
    <3>. QED BY <1>2, <1>6, <3>1, <3>3, Zenon DEF Chosen
  <2>3. CASE ~Matches(location, path)
    <3>1. new = {}
      BY <1>6, <1>7, <2>3, Zenon DEF Better
    <3>2. \A j \in 1..Len(more) : ~Matches(more[j], path)
      BY <1>3, <1>5, <2>1, <2>3, Zenon
    <3>. QED BY <1>2, <1>6, <3>1, <3>2, Zenon DEF Chosen
  <2>. QED BY <2>2, <2>3
<1>8. CASE best # {}
  <2>1. PICK old : best = {old} /\ Longest(locations, path, old)
    BY <1>8, Zenon DEF Chosen
  <2>2. PICK u \in 1..l : old = locations[u]
    BY <1>1, <2>1, Zenon DEF Longest
  <2>3. old \in Seq(Symbol) /\ Len(old) \in Nat /\ Len(location) \in Nat
    BY <1>4, <2>2
  <2>4. /\ Matches(old, path)
        /\ \A j \in 1..l : Matches(locations[j], path) => Len(locations[j]) <= Len(old)
    BY <1>1, <2>1, Zenon DEF Longest
  <2>5. (\A b \in best : Len(location) > Len(b)) <=> Len(location) > Len(old)
    BY <2>1
  <2>6. CASE Matches(location, path) /\ Len(location) > Len(old)
    <3>1. new = {location}
      BY <1>6, <2>5, <2>6, Zenon DEF Better
    <3>2. ASSUME NEW j \in 1..l, Matches(locations[j], path)
          PROVE  Len(locations[j]) <= Len(location)
      <4>1. Len(locations[j]) \in Nat
        BY <1>4
      <4>. QED BY <2>3, <2>4, <2>6, <3>2, <4>1
    <3>3. Len(location) <= Len(location)
      BY <2>3
    <3>4. Longest(more, path, location)
      BY <1>3, <1>5, <2>6, <3>2, <3>3, Zenon DEF Longest
    <3>. QED BY <1>2, <1>6, <3>1, <3>4, Zenon DEF Chosen
  <2>7. CASE ~(Matches(location, path) /\ Len(location) > Len(old))
    <3>1. new = {old}
      BY <1>6, <2>1, <2>5, <2>7, Zenon DEF Better
    <3>2. Matches(location, path) => Len(location) <= Len(old)
      BY <2>3, <2>7
    <3>3. \A j \in 1..Len(more) : Matches(more[j], path) => Len(more[j]) <= Len(old)
      BY <1>3, <1>5, <2>4, <3>2, Zenon
    <3>4. \E j \in 1..Len(more) : old = more[j]
      BY <1>3, <1>5, <2>2, Zenon
    <3>5. Longest(more, path, old)
      BY <2>4, <3>3, <3>4, Zenon DEF Longest
    <3>. QED BY <1>2, <1>6, <3>1, <3>5, Zenon DEF Chosen
  <2>. QED BY <2>6, <2>7
<1>. QED BY <1>7, <1>8

LEMMA MatchIsChosen ==
  ASSUME NEW Symbol, NEW locations \in Seq(Seq(Symbol)), NEW path
  PROVE  Chosen(locations, path, MatchLocation(locations, path))
<1>1. PICK T : T = Seq(Symbol)
  OBVIOUS
<1>. DEFINE K == {s \in Seq(T) : Chosen(s, path, MatchLocation(s, path))}
<1>2. <<>> \in K
  <2>1. PICK none \in Seq(T) : none = <<>> /\ \A j \in 1..Len(none) : FALSE
    <3>1. PICK none \in Seq(T) : none = <<>> /\ Len(none) = 0
      BY EmptySeq, Zenon
    <3>2. \A j \in 1..Len(none) : FALSE
      BY <3>1
    <3>. QED BY <3>1, <3>2
  <2>2. Chosen(none, path, MatchLocation(none, path))
    BY <2>1, MatchNothing, Zenon DEF Chosen
  <2>. QED BY <2>1, <2>2
<1>3. ASSUME NEW s \in Seq(T), NEW e \in T, s \in K PROVE Append(s, e) \in K
  <2>1. Chosen(s, path, MatchLocation(s, path))
    BY <1>3
  <2>2. Chosen(Append(s, e), path, Better(MatchLocation(s, path), e, path))
    BY <1>1, <2>1, ChosenBetter, Zenon
  <2>3. MatchLocation(Append(s, e), path) = Better(MatchLocation(s, path), e, path)
    BY <1>1, MatchLocationMore
  <2>4. Append(s, e) \in Seq(T)
    BY AppendProperties, Zenon
  <2>. QED BY <2>2, <2>3, <2>4, Zenon
<1>4. locations \in K
  <2>. HIDE DEF K
  <2>. QED BY <1>1, <1>2, <1>3, SymbolBySymbol, Zenon
<1>. QED BY <1>4

LEMMA PrefixIs ==
  ASSUME NEW Symbol, NEW location \in Seq(Symbol), NEW path \in Seq(Symbol),
         IsPrefix(location, path)
  PROVE  /\ Len(location) <= Len(path)
         /\ \A j \in 1..Len(location) : location[j] = path[j]
         /\ path = location \o SubSeq(path, Len(location) + 1, Len(path))
         /\ SubSeq(path, Len(location) + 1, Len(path)) \in Seq(Symbol)
<1>1. PICK l \in Nat, n \in Nat : l = Len(location) /\ n = Len(path)
  OBVIOUS
<1>2. l <= n /\ SubSeq(location, 1, l) = SubSeq(path, 1, l)
  BY <1>1 DEF IsPrefix
<1>3. location = SubSeq(path, 1, l)
  BY <1>1, <1>2, SubSeqFull
<1>4. \A j \in 1..l : location[j] = path[j]
  BY <1>1, <1>2, <1>3
<1>5. PICK rest \in Seq(Symbol) :
        rest = SubSeq(path, l + 1, n) /\ Len(rest) = n - l /\ \A j \in 1..n - l : rest[j] = path[l + j]
  <2>1. PICK rest : rest = SubSeq(path, l + 1, n)
    OBVIOUS
  <2>2. rest \in Seq(Symbol) /\ Len(rest) = n - l /\ \A j \in 1..n - l : rest[j] = path[l + j]
    BY <1>1, <1>2, <2>1
  <2>. QED BY <2>1, <2>2, Zenon
<1>6. path = location \o rest
  BY <1>1, <1>2, <1>4, <1>5
<1>. QED BY <1>1, <1>2, <1>4, <1>5, <1>6, Zenon

\* A text that begins as another one reads.
ReadsAs(prefix, path) == \A k \in 1..Len(prefix) : prefix[k] = path[k]

LEMMA MatchReads ==
  ASSUME NEW Symbol, NEW path \in Seq(Symbol), NEW location \in Seq(Symbol),
         Matches(location, path)
  PROVE  ReadsAs(location, path)
<1>1. IsPrefix(location, path)
  BY Zenon DEF Matches
<1>2. \A j \in 1..Len(location) : location[j] = path[j]
  BY <1>1, PrefixIs
<1>. QED BY <1>2, Zenon DEF ReadsAs

\* In which order they are configured does not matter.
LEMMA LongestIsOne ==
  ASSUME NEW Symbol, NEW locations \in Seq(Seq(Symbol)), NEW others \in Seq(Seq(Symbol)),
         NEW path \in Seq(Symbol),
         \A j \in 1..Len(locations) : \E u \in 1..Len(others) : locations[j] = others[u],
         \A u \in 1..Len(others) : \E j \in 1..Len(locations) : locations[j] = others[u]
  PROVE  MatchLocation(locations, path) = MatchLocation(others, path)
<1>1. PICK best : best = MatchLocation(locations, path)
  OBVIOUS
<1>2. PICK same : same = MatchLocation(others, path)
  OBVIOUS
<1>3. Chosen(locations, path, best) /\ Chosen(others, path, same)
  BY <1>1, <1>2, MatchIsChosen, Zenon
<1>4. CASE \A j \in 1..Len(locations) : ~Matches(locations[j], path)
  <2>1. \A u \in 1..Len(others) : ~Matches(others[u], path)
    BY <1>4, Zenon
  <2>2. best = {} /\ same = {}
    BY <1>3, <1>4, <2>1, Zenon DEF Chosen, Longest
  <2>. QED BY <1>1, <1>2, <2>2
<1>5. CASE ~\A j \in 1..Len(locations) : ~Matches(locations[j], path)
  <2>1. ~\A u \in 1..Len(others) : ~Matches(others[u], path)
    BY <1>5, Zenon
  <2>2. PICK p : best = {p} /\ Longest(locations, path, p)
    BY <1>3, <1>5, Zenon DEF Chosen
  <2>3. PICK q : same = {q} /\ Longest(others, path, q)
    BY <1>3, <2>1, Zenon DEF Chosen
  <2>4. PICK j \in 1..Len(locations), u \in 1..Len(others) :
          p = locations[j] /\ q = others[u]
    BY <2>2, <2>3, Zenon DEF Longest
  <2>5. p \in Seq(Symbol) /\ q \in Seq(Symbol)
    <3>1. locations[j] \in Seq(Symbol) /\ others[u] \in Seq(Symbol)
      BY ElementOfSeq, Zenon
    <3>. QED BY <2>4, <3>1, Zenon
  <2>6. Matches(p, path) /\ Matches(q, path)
    BY <2>2, <2>3, Zenon DEF Longest
  <2>7. Len(q) <= Len(p) /\ Len(p) <= Len(q)
    BY <2>2, <2>3, <2>4, <2>6, Zenon DEF Longest
  <2>8. Len(p) = Len(q)
    BY <2>5, <2>7
  <2>9. ReadsAs(p, path) /\ ReadsAs(q, path)
    BY <2>5, <2>6, MatchReads, Zenon
  <2>10. p = q
    <3>1. \A k \in 1..Len(p) : p[k] = q[k]
      BY <2>8, <2>9, Zenon DEF ReadsAs
    <3>. QED BY <2>5, <2>8, <3>1, SeqEqual, Zenon
  <2>. QED BY <1>1, <1>2, <2>2, <2>3, <2>10, Zenon
<1>. QED BY <1>4, <1>5, Zenon

LEMMA HeadIs ==
  ASSUME NEW T, NEW x \in Seq(T), NEW y \in Seq(T), NEW whole, whole = x \o y
  PROVE  SubSeq(whole, 1, Len(x)) = x
<1>1. PICK n \in Nat, m \in Nat : n = Len(x) /\ m = Len(y)
  OBVIOUS
<1>2. whole \in Seq(T) /\ Len(whole) = n + m /\ \A j \in 1..n : whole[j] = x[j]
  BY <1>1
<1>3. PICK head : head = SubSeq(whole, 1, n)
  OBVIOUS
<1>4. head \in Seq(T) /\ Len(head) = n /\ \A j \in 1..n : head[j] = x[j]
  BY <1>1, <1>2, <1>3
<1>5. head = x
  BY <1>1, <1>4, SeqEqual, Zenon
<1>. QED BY <1>1, <1>3, <1>5, Zenon

\* The segments of a location, and those of a path it matches.
Segments(location) ==
  LET part == Split(location, "/") IN IF Last(part) = <<>> THEN Front(part) ELSE part

Leads(location, path) ==
  LET whole == Split(path, "/")
  IN Segments(location) = SubSeq(whole, 1, Len(Segments(location)))

LEMMA LeadsWith ==
  ASSUME NEW T, NEW x \in Seq(T), NEW y \in Seq(T), NEW location, NEW path,
         Segments(location) = x, Split(path, "/") = x \o y
  PROVE  Leads(location, path)
<1>1. PICK whole : whole = x \o y
  OBVIOUS
<1>2. SubSeq(whole, 1, Len(x)) = x
  BY <1>1, HeadIs, Zenon
<1>. QED BY <1>1, <1>2, Zenon DEF Leads

\* A symbol between two texts ends the first or begins the second.
Between(x, c, y) == x \o (<<c>> \o y) = Append(x, c) \o y

LEMMA OneBetween ==
  ASSUME NEW T, NEW x \in Seq(T), NEW c \in T, NEW y \in Seq(T)
  PROVE  Between(x, c, y)
<1>1. PICK one : one = <<c>>
  OBVIOUS
<1>2. one \in Seq(T)
  BY <1>1
<1>3. x \o (one \o y) = (x \o one) \o y
  BY <1>2, ConcatAssociative
<1>4. Append(x, c) = x \o one
  BY <1>1, Longer, Zenon
<1>. QED BY <1>1, <1>3, <1>4, Zenon DEF Between

\* A match ends where a segment ends.
LEMMA MatchLeads ==
  ASSUME NEW Symbol, "/" \in Symbol, NEW location \in Seq(Symbol), NEW path \in Seq(Symbol),
         Matches(location, path)
  PROVE  Leads(location, path)
<1>1. PICK T : T = Seq(Symbol)
  OBVIOUS
<1>2. PICK rest \in Seq(Symbol) :
        /\ path = location \o rest /\ Len(location) <= Len(path)
        /\ \A j \in 1..Len(location) : location[j] = path[j]
  <2>1. IsPrefix(location, path)
    BY Zenon DEF Matches
  <2>2. /\ Len(location) <= Len(path) /\ \A j \in 1..Len(location) : location[j] = path[j]
        /\ path = location \o SubSeq(path, Len(location) + 1, Len(path))
        /\ SubSeq(path, Len(location) + 1, Len(path)) \in Seq(Symbol)
    BY <2>1, PrefixIs
  <2>. QED BY <2>2, Zenon
<1>3. AtBoundary(location, path)
  BY Zenon DEF Matches
<1>4. PICK part \in Seq(T) : part = Split(location, "/") /\ part # <<>>
  BY <1>1, SplitMore, PiecesAre, Zenon
<1>5. PICK whole \in Seq(T) : whole = Split(path, "/") /\ whole # <<>>
  BY <1>1, SplitMore, PiecesAre, Zenon
<1>6. PICK below \in Seq(T) : below = Split(rest, "/") /\ below # <<>>
  BY <1>1, SplitMore, PiecesAre, Zenon
<1>7. PICK none \in Seq(T) : none = <<>>
  BY EmptySeq, Zenon
<1>8. CASE location = <<>>
  <2>1. part = <<<<>>>>
    BY <1>4, <1>8, SplitNothing, Zenon
  <2>2. Last(part) = <<>> /\ Front(part) = none
    BY <1>7, <2>1 DEF Last, Front
  <2>3. Segments(location) = none
    BY <1>4, <2>2, Zenon DEF Segments
  <2>4. Split(path, "/") = none \o whole
    BY <1>5, <1>7, ConcatEmptySeq, Zenon
  <2>. QED BY <2>3, <2>4, LeadsWith, Zenon
<1>9. CASE location # <<>> /\ Last(location) = "/"
  <2>1. PICK f \in Seq(Symbol) : location = Append(f, "/")
    <3>1. Front(location) \in Seq(Symbol) /\ location = Append(Front(location), Last(location))
      BY <1>9, Ends
    <3>. QED BY <1>9, <3>1, Zenon
  <2>2. PICK first \in Seq(T) : first = Split(f, "/") /\ first # <<>>
    BY <1>1, SplitMore, PiecesAre, Zenon
  <2>3. PICK nothing \in T : nothing = <<>>
    BY <1>1, EmptySeq, Zenon
  <2>4. part = Append(first, nothing)
    BY <1>4, <2>1, <2>2, <2>3, SplitEnded, Zenon
  <2>5. Front(part) = first /\ Last(part) = nothing
    BY <2>4, Longer, Zenon
  <2>6. Segments(location) = first
    BY <1>4, <2>3, <2>5, Zenon DEF Segments
  <2>7. Split(path, "/") = first \o below
    <3>1. Divided(f, rest, "/")
      BY SplitBetween, Zenon
    <3>. QED BY <1>2, <1>6, <2>1, <2>2, <3>1, Zenon DEF Divided
  <2>. QED BY <2>6, <2>7, LeadsWith, Zenon
<1>10. CASE location # <<>> /\ Last(location) # "/"
  <2>1. Last(part) # <<>>
    BY <1>4, <1>10, LastPiece, Zenon
  <2>2. Segments(location) = part
    BY <1>4, <2>1, Zenon DEF Segments
  <2>3. CASE Len(path) = Len(location)
    <3>1. path = location
      <4>1. Len(location) = Len(path)
        BY <2>3, Zenon
      <4>. QED BY <1>2, <4>1, SeqEqual, Zenon
    <3>2. Split(path, "/") = part \o none
      BY <1>4, <1>7, <3>1, ConcatEmptySeq, Zenon
    <3>. QED BY <2>2, <3>2, LeadsWith, Zenon
  <2>4. CASE Len(path) > Len(location) /\ path[Len(location) + 1] = "/"
    <3>1. rest # <<>> /\ rest[1] = "/"
      BY <1>2, <2>4
    <3>2. PICK tail \in Seq(Symbol) : rest = <<"/">> \o tail
      <4>1. PICK tail : tail = Tail(rest)
        OBVIOUS
      <4>2. tail \in Seq(Symbol) /\ rest = <<"/">> \o tail
        BY <3>1, <4>1
      <4>. QED BY <4>2
    <3>3. path = Append(location, "/") \o tail
      <4>1. location \o (<<"/">> \o tail) = Append(location, "/") \o tail
        <5>1. Between(location, "/", tail)
          BY OneBetween, Zenon
        <5>. QED BY <5>1, Zenon DEF Between
      <4>. QED BY <1>2, <3>2, <4>1, Zenon
    <3>4. PICK pieces \in Seq(T) : pieces = Split(tail, "/")
      BY <1>1, SplitMore, PiecesAre, Zenon
    <3>5. Split(path, "/") = part \o pieces
      <4>1. Divided(location, tail, "/")
        BY SplitBetween, Zenon
      <4>. QED BY <1>4, <3>3, <3>4, <4>1, Zenon DEF Divided
    <3>. QED BY <2>2, <3>5, LeadsWith, Zenon
  <2>. QED BY <1>3, <1>10, <2>3, <2>4, Zenon DEF AtBoundary
<1>. QED BY <1>8, <1>9, <1>10, Zenon

\* What is relative to a location is what stands behind it.
LEMMA RelativeIs ==
  ASSUME NEW Symbol, "/" \in Symbol, NEW location \in Seq(Symbol), NEW path \in Seq(Symbol),
         Matches(location, path)
  PROVE  \/ path = location \o Relative(location, path)
         \/ path = location \o Tail(Relative(location, path))
<1>1. PICK rest \in Seq(Symbol) :
        rest = SubSeq(path, Len(location) + 1, Len(path)) /\ path = location \o rest
  <2>1. IsPrefix(location, path)
    BY Zenon DEF Matches
  <2>2. /\ Len(location) <= Len(path) /\ \A j \in 1..Len(location) : location[j] = path[j]
        /\ path = location \o SubSeq(path, Len(location) + 1, Len(path))
        /\ SubSeq(path, Len(location) + 1, Len(path)) \in Seq(Symbol)
    BY <2>1, PrefixIs
  <2>. QED BY <2>2, Zenon
<1>2. Tail(<<"/">> \o rest) = rest
  OBVIOUS
<1>3. Relative(location, path) = rest \/ Relative(location, path) = <<"/">> \o rest
  BY <1>1, Zenon DEF Relative
<1>. QED BY <1>1, <1>2, <1>3, Zenon

LEMMA RoutingAlwaysExact ==
  ASSUME NEW Symbol, "/" \in Symbol, NEW locations \in Seq(Seq(Symbol)), NEW path \in Seq(Symbol)
  PROVE  RoutingIsExact(locations, path)
<1>1. PICK T : T = Seq(Symbol)
  OBVIOUS
<1>2. PICK n \in Nat : n = Len(locations) /\ DOMAIN locations = 1..n
  BY LenProperties
<1>3. PICK others : others = [j \in DOMAIN locations |-> locations[Len(locations) + 1 - j]]
  OBVIOUS
<1>4. \A j \in 1..n : n + 1 - j \in 1..n /\ n + 1 - (n + 1 - j) = j
  OBVIOUS
<1>5. \A j \in 1..n : locations[j] \in T
  BY <1>1, <1>2
<1>6. others \in Seq(T) /\ Len(others) = n /\ \A j \in 1..n : others[j] = locations[n + 1 - j]
  <2>1. others = [j \in 1..n |-> locations[n + 1 - j]]
    BY <1>2, <1>3, Zenon
  <2>2. \A j \in 1..n : locations[n + 1 - j] \in T
    BY <1>4, <1>5, Zenon
  <2>. QED BY <2>1, <2>2
<1>7. MatchLocation(locations, path) = MatchLocation(others, path)
  <2>1. \A j \in 1..n : \E u \in 1..n : locations[j] = others[u]
    <3>1. ASSUME NEW j \in 1..n PROVE n + 1 - j \in 1..n /\ others[n + 1 - j] = locations[j]
      <4>1. n + 1 - j \in 1..n /\ n + 1 - (n + 1 - j) = j
        BY <1>4
      <4>2. others[n + 1 - j] = locations[n + 1 - (n + 1 - j)]
        BY <1>6, <4>1, Zenon
      <4>. QED BY <4>1, <4>2, Zenon
    <3>. QED BY <3>1
  <2>2. \A u \in 1..n : \E j \in 1..n : locations[j] = others[u]
    BY <1>4, <1>6, Zenon
  <2>3. \A j \in 1..Len(locations) : \E u \in 1..Len(others) : locations[j] = others[u]
    BY <1>2, <1>6, <2>1, Zenon
  <2>4. \A u \in 1..Len(others) : \E j \in 1..Len(locations) : locations[j] = others[u]
    BY <1>2, <1>6, <2>2, Zenon
  <2>5. others \in Seq(Seq(Symbol))
    BY <1>1, <1>6, Zenon
  <2>. QED BY <2>3, <2>4, <2>5, LongestIsOne, Zenon
<1>8. ASSUME NEW location \in MatchLocation(locations, path)
      PROVE  /\ Leads(location, path)
             /\ \/ path = location \o Relative(location, path)
                \/ path = location \o Tail(Relative(location, path))
  <2>1. PICK best : best = MatchLocation(locations, path)
    OBVIOUS
  <2>2. Chosen(locations, path, best)
    BY <2>1, MatchIsChosen, Zenon
  <2>3. Longest(locations, path, location)
    <3>1. location \in best
      BY <1>8, <2>1
    <3>. QED BY <2>2, <3>1, Zenon DEF Chosen
  <2>4. location \in Seq(Symbol) /\ Matches(location, path)
    <3>1. PICK j \in 1..n : location = locations[j]
      BY <1>2, <2>3, Zenon DEF Longest
    <3>2. Matches(location, path)
      BY <2>3, Zenon DEF Longest
    <3>. QED BY <1>1, <1>5, <3>1, <3>2, Zenon
  <2>. QED BY <2>4, MatchLeads, RelativeIs, Zenon
<1>9. \A location \in MatchLocation(locations, path) :
        LET whole == Split(path, "/")
            part == Split(location, "/")
            segments == IF Last(part) = <<>> THEN Front(part) ELSE part
        IN /\ segments = SubSeq(whole, 1, Len(segments))
           /\ LET below == Relative(location, path)
              IN \/ path = location \o below \/ path = location \o Tail(below)
  BY <1>8, Zenon DEF Leads, Segments
<1>. QED BY <1>3, <1>7, <1>9, Zenon DEF RoutingIsExact

\* A short text is a text.
LEMMA ShortText ==
  ASSUME NEW S, NEW n \in Nat, NEW text \in SeqOf(S, n), NEW T, S \subseteq T
  PROVE  text \in Seq(T)
<1>1. PICK m \in 0..n : text \in [1..m -> S]
  BY DEF SeqOf
<1>2. text \in [1..m -> T]
  BY <1>1
<1>. QED BY <1>2

\* What a target or the path of a location is written with.
MCSymbols == {"/", ".", "%", "2", "e", "f", "-", "o", "a", "b"}

LEMMA ShortPath ==
  ASSUME NEW S, S \subseteq MCSymbols, NEW n \in Nat, NEW text \in SeqOf(S, n), NEW path,
         path = <<"/">> \o text
  PROVE  path \in Seq(MCSymbols) /\ path # <<>> /\ path[1] = "/"
<1>1. text \in Seq(MCSymbols)
  BY ShortText, Zenon
<1>2. PICK slash \in MCSymbols : slash = "/"
  BY Zenon DEF MCSymbols
<1>3. PICK root \in Seq(MCSymbols) : root = <<slash>> /\ Len(root) = 1 /\ root[1] = slash
  <2>1. <<slash>> \in Seq(MCSymbols) /\ Len(<<slash>>) = 1 /\ <<slash>>[1] = slash
    OBVIOUS
  <2>. QED BY <2>1
<1>4. path = root \o text
  BY <1>2, <1>3
<1>5. path \in Seq(MCSymbols)
  BY <1>1, <1>3, <1>4, ConcatProperties, Zenon
<1>6. path # <<>> /\ path[1] = slash
  BY <1>1, <1>3, <1>4
<1>. QED BY <1>2, <1>5, <1>6

\* The path of a target never makes a detour, however the target spells it, and
\* the same location is found in whatever order they are configured, one whose
\* segments are the first of the path's; with what is relative to it they give
\* the path again (decodePath, matchLocation, resolve).  For every target, path
\* and list of locations, however long, and so for the run's short ones.
THEOREM TargetsAlwaysResolve ==
  /\ \A Symbol : {"/", ".", "o"} \subseteq Symbol =>
       /\ \A target \in {t \in Seq(Symbol) : t # <<>> /\ t[1] = "/"} : PathIsCanonical(target)
       /\ \A locations \in Seq(Seq(Symbol)), path \in Seq(Symbol) :
            RoutingIsExact(locations, path)
  /\ Spec => []TargetsAreResolved
<1>1. ASSUME NEW Symbol, {"/", ".", "o"} \subseteq Symbol
      PROVE  /\ \A target \in {t \in Seq(Symbol) : t # <<>> /\ t[1] = "/"} :
                  PathIsCanonical(target)
             /\ \A locations \in Seq(Seq(Symbol)), path \in Seq(Symbol) :
                  RoutingIsExact(locations, path)
  <2>1. "/" \in Symbol
    BY <1>1
  <2>2. ASSUME NEW target \in {t \in Seq(Symbol) : t # <<>> /\ t[1] = "/"}
        PROVE  PathIsCanonical(target)
    <3>1. target \in Seq(Symbol) /\ target # <<>> /\ target[1] = "/"
      BY Zenon
    <3>. QED BY <1>1, <3>1, PathAlwaysCanonical, Zenon
  <2>3. ASSUME NEW locations \in Seq(Seq(Symbol)), NEW path \in Seq(Symbol)
        PROVE  RoutingIsExact(locations, path)
    BY <2>1, RoutingAlwaysExact, Zenon
  <2>. QED BY <2>2, <2>3, Zenon
<1>2. {"/", ".", "o"} \subseteq MCSymbols
  BY Zenon DEF MCSymbols
<1>3. ASSUME NEW target \in MCTargets PROVE PathIsCanonical(target)
  <2>1. PICK text \in BoundedSeq({"/", ".", "%", "2", "e", "f"}, 5)
                      \cup SeqOf({".", "%", "2", "e", "-"}, 6) : target = <<"/">> \o text
    BY Zenon DEF MCTargets
  <2>2. {"/", ".", "%", "2", "e", "f"} \subseteq MCSymbols /\ {".", "%", "2", "e", "-"} \subseteq MCSymbols
    BY Zenon DEF MCSymbols
  <2>3. 5 \in Nat /\ 6 \in Nat
    OBVIOUS
  <2>4. target \in Seq(MCSymbols) /\ target # <<>> /\ target[1] = "/"
    <3>1. CASE text \in SeqOf({"/", ".", "%", "2", "e", "f"}, 5)
      BY <2>1, <2>2, <2>3, <3>1, ShortPath, Zenon
    <3>2. CASE text \in SeqOf({".", "%", "2", "e", "-"}, 6)
      BY <2>1, <2>2, <2>3, <3>2, ShortPath, Zenon
    <3>. QED BY <2>1, <3>1, <3>2, Zenon DEF BoundedSeq
  <2>. QED BY <1>2, <2>4, PathAlwaysCanonical, Zenon
<1>4. ASSUME NEW text, NEW path, path = <<"/">> \o text,
             text \in BoundedSeq({"/", "a", "b"}, 4) \/ text \in BoundedSeq({"/", "a"}, 2)
      PROVE  path \in Seq(MCSymbols)
  <2>1. {"/", "a", "b"} \subseteq MCSymbols /\ {"/", "a"} \subseteq MCSymbols
    BY Zenon DEF MCSymbols
  <2>2. 4 \in Nat /\ 2 \in Nat
    OBVIOUS
  <2>3. CASE text \in SeqOf({"/", "a", "b"}, 4)
    BY <1>4, <2>1, <2>2, <2>3, ShortPath, Zenon
  <2>4. CASE text \in SeqOf({"/", "a"}, 2)
    BY <1>4, <2>1, <2>2, <2>4, ShortPath, Zenon
  <2>. QED BY <1>4, <2>3, <2>4, Zenon DEF BoundedSeq
<1>5. \A path \in MCPaths : path \in Seq(MCSymbols)
  BY <1>4, Zenon DEF MCPaths
<1>6. \A location \in MCLocations : location \in Seq(MCSymbols)
  BY <1>4, Zenon DEF MCLocations
<1>7. ASSUME NEW a \in MCLocations, NEW b \in MCLocations, NEW c \in MCLocations,
             NEW path \in MCPaths
      PROVE  RoutingIsExact(<<a, b, c>>, path)
  <2>1. PICK T : T = Seq(MCSymbols)
    OBVIOUS
  <2>2. a \in T /\ b \in T /\ c \in T /\ path \in T
    BY <1>5, <1>6, <2>1, Zenon
  <2>3. <<a, b, c>> \in Seq(T)
    BY <2>2
  <2>4. "/" \in MCSymbols
    BY Zenon DEF MCSymbols
  <2>. QED BY <2>1, <2>2, <2>3, <2>4, RoutingAlwaysExact, Zenon
<1>8. EveryTarget
  BY <1>3, <1>7, Zenon DEF EveryTarget
<1>9. TargetsAreResolved
  BY <1>8, Zenon DEF TargetsAreResolved
<1>10. Spec => []TargetsAreResolved
  BY <1>9, PTL
<1>. QED BY <1>1, <1>10, Zenon

=============================================================================
