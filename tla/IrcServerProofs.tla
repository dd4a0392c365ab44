-------------------------- MODULE IrcServerProofs --------------------------
(***************************************************************************)
(* Proofs about IrcServer: first the types, then what keeps the relations  *)
(* between clients, nicknames, channels and invitations consistent; then   *)
(* that it implements DeferredClose and ChatRooms, that no connection      *)
(* inherits a disconnection from an earlier one with its descriptor, and   *)
(* that what clients are shown of their channels is true.                  *)
(***************************************************************************)
EXTENDS IrcServerRefinement, FiniteSetTheorems, TLAPS

USE DescriptorsAreOrdered, NamesAreDistinct

(***************************************************************************)
(* The handler whose loop runs belongs to a registered client, no          *)
(* disconnection is under way meanwhile, and MODE works on a channel that  *)
(* exists.                                                                 *)
(***************************************************************************)
TaskInv ==
  /\ task.cmd # "NONE" => task.fd \in registered /\ closing = {}
  /\ task.cmd = "MODE" => task.chan \in channels

\* The types of the variables, by the groups that actions leave alone.
Seen == [Fd -> [Chan -> SUBSET (Word \cup {NoWord})]]
SeenType == pending \subseteq Fd /\ seenNames \in Seen /\ seenOps \in Seen
ConnType ==
  live \subseteq Fd /\ fresh \subseteq Fd /\ closing \subseteq Fd
    /\ reasons \subseteq Fd
IdentType ==
  /\ nick \in [Fd -> Word \cup {NoWord}]
  /\ passed \subseteq Fd /\ userGiven \subseteq Fd /\ registered \subseteq Fd
  /\ nickToFd \in [Word -> Fd \cup {NoFd}]
RelType ==
  /\ joined \in [Fd -> SUBSET Chan] /\ channels \subseteq Chan
  /\ members \in [Chan -> SUBSET Fd] /\ operators \in [Chan -> SUBSET Fd]
  /\ invited \in [Chan -> SUBSET Fd]
ModeType ==
  /\ inviteOnly \subseteq Chan /\ topicRestricted \subseteq Chan
  /\ key \in [Chan -> Word \cup {NoWord}] /\ limit \in [Chan -> Nat]
  /\ topic \in [Chan -> Word \cup {NoWord}]

\* TypeOK is the conjunction of the groups.
LEMMA TypeGroups ==
  TypeOK <=> /\ ConnType /\ SeenType /\ IdentType /\ RelType /\ ModeType
             /\ task \in Task
BY DEF TypeOK, ConnType, SeenType, Seen, IdentType, RelType, ModeType

\* The same of the next state.
LEMMA TypeGroupsNext ==
  TypeOK' <=> /\ ConnType' /\ SeenType' /\ IdentType' /\ RelType' /\ ModeType'
              /\ task' \in Task
BY DEF TypeOK, ConnType, SeenType, Seen, IdentType, RelType, ModeType

\* An idle server has a well-formed, empty task.
LEMMA NoTaskType == NoTask \in Task /\ NoTask.cmd = "NONE"
BY DEF NoTask, Task, Item, Change, ModeChar

\* The initial state is well typed.
LEMMA InitType == Init => TypeOK /\ TaskInv
BY NoTaskType DEF Init, TypeOK, TaskInv, NothingSeen

-----------------------------------------------------------------------------
(***************************************************************************)
(* What the building blocks of the actions preserve.                       *)
(***************************************************************************)

\* A group of variables that a step leaves alone keeps its type.
LEMMA UnchangedTypes ==
  ASSUME TypeOK
  PROVE  /\ UNCHANGED connVars => ConnType'
         /\ UNCHANGED <<pending, seenVars>> => SeenType'
         /\ UNCHANGED identVars => IdentType'
         /\ UNCHANGED relVars => RelType'
         /\ UNCHANGED modeVars => ModeType'
         /\ UNCHANGED task => task' \in Task
BY DEF TypeOK, ConnType, SeenType, Seen, IdentType, RelType, ModeType,
       connVars, seenVars, identVars, relVars, modeVars

\* Delivering a notice keeps the member lists well typed.
LEMMA ToldType ==
  ASSUME NEW seen \in Seen, NEW news \in Seen, NEW rcpt, NEW full
  PROVE  Told(seen, rcpt, full, news) \in Seen
BY DEF Told, Seen

\* So does queueToClient, which may schedule disconnections.
LEMMA QueueType ==
  ASSUME TypeOK, NEW rcpt, NEW names \in Seen, NEW ops \in Seen,
         Queue(rcpt, names, ops)
  PROVE  SeenType'
<1>1. PICK full \in SUBSET (rcpt \cap Slow) :
        /\ pending' = pending \cup full
        /\ seenNames' = Told(seenNames, rcpt, full, names)
        /\ seenOps' = Told(seenOps, rcpt, full, ops)
  BY DEF Queue
<1>2. seenNames \in Seen /\ seenOps \in Seen /\ pending \subseteq Fd
  BY DEF TypeOK, Seen
<1>. QED BY <1>1, <1>2, ToldType, InputsAreLists DEF SeenType

\* A reply keeps the send side well typed.
LEMMA ReplyType ==
  ASSUME TypeOK, NEW rcpt, Reply(rcpt)
  PROVE  SeenType'
BY QueueType DEF Reply, TypeOK, Seen

\* Leaving channels keeps the relations and the modes well typed.
LEMMA RemoveFromType ==
  ASSUME TypeOK, NEW f \in Fd, NEW from, NEW uninvite,
         RemoveFrom(f, from, uninvite)
  PROVE  RelType' /\ ModeType'
BY DEF RemoveFrom, TypeOK, RelType, ModeType

\* What clients show after a departure is well typed.
LEMMA WithoutType ==
  ASSUME NEW seen \in Seen, NEW from, NEW name
  PROVE  [g \in Fd |-> Without(seen, g, from, name)] \in Seen
BY DEF Without, Seen

\* Sequences keep their element type.
LEMMA TailType ==
  ASSUME NEW S, NEW s \in Seq(S), s # <<>>
  PROVE  Tail(s) \in Seq(S) /\ Head(s) \in S
OBVIOUS

\* A sequence of one element.
LEMMA SingletonType ==
  ASSUME NEW S, NEW x \in S
  PROVE  <<x>> \in Seq(S)
OBVIOUS

\* The empty sequence.
LEMMA EmptyType ==
  ASSUME NEW S
  PROVE  <<>> \in Seq(S)
OBVIOUS

\* The concatenation of two sequences.
LEMMA ConcatType ==
  ASSUME NEW S, NEW s \in Seq(S), NEW t \in Seq(S)
  PROVE  s \o t \in Seq(S)
OBVIOUS

\* One iteration of a list loop moves on or ends the loop.
LEMMA AdvanceType ==
  ASSUME TypeOK, TaskInv, NEW cmd, At(cmd), cmd # "MODE", Advance
  PROVE  /\ task' \in Task
         /\ task'.cmd # "NONE" => task'.fd \in registered /\ closing = {}
         /\ task'.cmd # "MODE"
<1>1. CASE Len(task.todo) = 1
  BY <1>1, NoTaskType DEF Advance
<1>2. CASE Len(task.todo) # 1
  <2>1. task \in Task /\ task.todo # <<>> /\ task.cmd = cmd
    BY DEF TypeOK, At
  <2>2. Tail(task.todo) \in Seq(Item)
    BY <2>1, TailType DEF Task
  <2>3. task' = [task EXCEPT !.todo = Tail(task.todo)]
    BY <1>2 DEF Advance
  <2>4. task' \in Task /\ task'.cmd = task.cmd /\ task'.fd = task.fd
    BY <2>1, <2>2, <2>3 DEF Task
  <2>. QED BY <2>1, <2>4 DEF TaskInv
<1>. QED BY <1>1, <1>2

\* A list handler starts its loop with a well-formed task.
LEMMA StartLoopType ==
  ASSUME TypeOK, TaskInv, NEW f \in Fd,
         NEW cmd \in {"JOIN", "PART", "LEAVEALL", "PRIVMSG"},
         NEW todo \in Seq(Item), StartLoop(f, cmd, todo)
  PROVE  TypeOK' /\ TaskInv'
<1>1. /\ task' \in Task /\ task'.cmd # "MODE"
      /\ task'.cmd # "NONE" => task'.fd \in registered /\ closing = {}
  BY NoTaskType DEF StartLoop, Task, NoTask, Idle
<1>. QED
  BY <1>1, UnchangedTypes, TypeGroupsNext
  DEF StartLoop, TaskInv, connVars, identVars

\* One iteration of the MODE loop moves to the next character.
LEMMA NextCharType ==
  ASSUME TypeOK, TaskInv, NEW chars, AtMode(chars),
         NEW args \in Seq(Word), NEW changes \in Seq(Change),
         NextChar(args, changes)
  PROVE  /\ task' \in Task /\ task'.fd = task.fd /\ task'.cmd = task.cmd
         /\ task'.chan = task.chan
<1>1. task \in Task /\ task.todo # <<>>
  BY DEF TypeOK, AtMode, At
<1>2. Tail(task.todo) \in Seq(Item) /\ task.changed \o changes \in Seq(Change)
  BY <1>1, TailType, ConcatType DEF Task
<1>3. task' = [task EXCEPT !.todo = Tail(task.todo), !.args = args,
                           !.changed = task.changed \o changes]
  BY DEF NextChar
<1>. QED BY <1>1, <1>2, <1>3 DEF Task

-----------------------------------------------------------------------------
(***************************************************************************)
(* Type correctness, one lemma per action or group of like actions.        *)
(***************************************************************************)

\* accept, losses, QUIT and the end of a scan keep the types.
LEMMA ConnectionType ==
  ASSUME TypeOK, TaskInv, NEW f \in Fd,
         \/ AcceptClient(f) \/ ReplyOnly(f) \/ ConnectionLost(f)
         \/ HandleQuit(f) \/ ProcessPendingDisconnects
  PROVE  TypeOK' /\ TaskInv'
<1>1. CASE AcceptClient(f)
  <2>1. ConnType'
    BY <1>1 DEF AcceptClient, TypeOK, ConnType
  <2>. QED
    BY <1>1, <2>1, UnchangedTypes, TypeGroupsNext
    DEF AcceptClient, TaskInv, identVars, relVars
<1>2. CASE ReplyOnly(f)
  BY <1>2, ReplyType, UnchangedTypes, TypeGroupsNext
  DEF ReplyOnly, TaskInv, connVars, identVars, relVars
<1>3. CASE ConnectionLost(f)
  <2>1. SeenType'
    BY <1>3 DEF ConnectionLost, TypeOK, SeenType, Seen, seenVars
  <2>. QED
    BY <1>3, <2>1, UnchangedTypes, TypeGroupsNext
    DEF ConnectionLost, TaskInv, connVars, identVars, relVars
<1>4. CASE HandleQuit(f)
  <2>1. SeenType' /\ ConnType'
    BY <1>4 DEF HandleQuit, TypeOK, SeenType, Seen, ConnType, seenVars
  <2>. QED
    BY <1>4, <2>1, UnchangedTypes, TypeGroupsNext
    DEF HandleQuit, TaskInv, identVars, relVars
<1>5. CASE ProcessPendingDisconnects
  <2>1. SeenType' /\ ConnType'
    BY <1>5
    DEF ProcessPendingDisconnects, TypeOK, SeenType, Seen, ConnType, seenVars
  <2>2. task' = NoTask
    BY <1>5 DEF ProcessPendingDisconnects, Idle
  <2>. QED
    BY <1>5, <2>1, <2>2, NoTaskType, UnchangedTypes, TypeGroupsNext
    DEF ProcessPendingDisconnects, TaskInv
<1>. QED BY <1>1, <1>2, <1>3, <1>4, <1>5

\* disconnectClient keeps the types.
LEMMA DisconnectType ==
  ASSUME TypeOK, TaskInv, NEW f \in Fd, DisconnectClient(f)
  PROVE  TypeOK' /\ TaskInv'
<1>1. task = NoTask /\ task' = NoTask
  BY DEF DisconnectClient
<1>2. CASE f \in live
  <2>1. RelType' /\ ModeType'
    BY <1>2, RemoveFromType DEF DisconnectClient, RemoveClientFromAllChannels
  <2>2. ConnType' /\ IdentType'
    BY ZenonT(60), <1>2 DEF DisconnectClient, TypeOK, ConnType, IdentType
  <2>3. SeenType'
    <3>1. PICK full \in SUBSET (SharedWith(f) \cap Slow) :
            /\ pending' = pending \cup full
            /\ seenNames' =
                 [Told(seenNames, SharedWith(f), full,
                       [g \in Fd |-> Without(seenNames, g, Chan, nick[f])])
                   EXCEPT ![f] = NothingSeen]
            /\ seenOps' =
                 [Told(seenOps, SharedWith(f), full,
                       [g \in Fd |-> Without(seenOps, g, Chan, nick[f])])
                   EXCEPT ![f] = NothingSeen]
      BY <1>2 DEF DisconnectClient
    <3>2. ASSUME NEW seen \in Seen
          PROVE  [Told(seen, SharedWith(f), full,
                       [g \in Fd |-> Without(seen, g, Chan, nick[f])])
                   EXCEPT ![f] = NothingSeen] \in Seen
      <4>1. Told(seen, SharedWith(f), full,
                 [g \in Fd |-> Without(seen, g, Chan, nick[f])]) \in Seen
        BY ToldType, WithoutType
      <4>2. NothingSeen \in [Chan -> SUBSET (Word \cup {NoWord})]
        BY DEF NothingSeen
      <4>. QED BY <4>1, <4>2 DEF Seen
    <3>3. seenNames \in Seen /\ seenOps \in Seen /\ pending \subseteq Fd
      BY DEF TypeOK, Seen
    <3>. QED BY <3>1, <3>2, <3>3, InputsAreLists DEF SeenType
  <2>. QED
    BY <1>1, <2>1, <2>2, <2>3, NoTaskType, TypeGroupsNext DEF TaskInv
<1>3. CASE f \notin live
  <2>1. ConnType'
    BY <1>3 DEF DisconnectClient, TypeOK, ConnType
  <2>. QED
    BY <1>1, <1>3, <2>1, NoTaskType, UnchangedTypes, TypeGroupsNext
    DEF DisconnectClient, TaskInv
<1>. QED BY <1>2, <1>3

\* tryRegisterClient only adds to the registered clients.
LEMMA TryRegisterType ==
  ASSUME TypeOK, NEW f \in Fd, NEW pass, NEW name, NEW user,
         TryRegisterClient(f, pass, name, user)
  PROVE  SeenType' /\ registered' \subseteq Fd /\ registered \subseteq registered'
<1>1. CASE pass /\ name # NoWord /\ user
  BY <1>1, ReplyType DEF TryRegisterClient, TypeOK
<1>2. CASE ~(pass /\ name # NoWord /\ user)
  BY <1>2, UnchangedTypes DEF TryRegisterClient, TypeOK
<1>. QED BY <1>1, <1>2

\* PASS, USER and NICK keep the types.
LEMMA RegistrationType ==
  ASSUME TypeOK, TaskInv, NEW f \in Fd,
         HandleUser(f) \/ \E w \in Word : HandlePass(f, w) \/ HandleNick(f, w)
  PROVE  TypeOK' /\ TaskInv'
<1>1. CASE HandleUser(f)
  <2>1. SeenType' /\ registered' \subseteq Fd
    BY <1>1, TryRegisterType DEF HandleUser
  <2>2. IdentType'
    BY <1>1, <2>1 DEF HandleUser, IdentType, TypeOK
  <2>. QED
    BY <1>1, <2>1, <2>2, UnchangedTypes, TypeGroupsNext, NoTaskType
    DEF HandleUser, Idle, TaskInv
<1>2. ASSUME NEW w \in Word, HandlePass(f, w)
      PROVE  TypeOK' /\ TaskInv'
  <2>1. SeenType' /\ registered' \subseteq Fd
    BY <1>2, TryRegisterType DEF HandlePass
  <2>2. IdentType'
    BY <1>2, <2>1 DEF HandlePass, IdentType, TypeOK
  <2>. QED
    BY <1>2, <2>1, <2>2, UnchangedTypes, TypeGroupsNext, NoTaskType
    DEF HandlePass, Idle, TaskInv
<1>3. ASSUME NEW w \in Word, HandleNick(f, w)
      PROVE  TypeOK' /\ TaskInv'
  <2>1. SeenType' /\ registered' \subseteq Fd
    <3>1. CASE f \in registered
      <4>1. ASSUME NEW seen \in Seen
            PROVE  AfterNick(seen, nick[f], w) \in Seen
        BY DEF AfterNick, Renamed, Seen
      <4>2. seenNames \in Seen /\ seenOps \in Seen
        BY DEF TypeOK, Seen
      <4>. QED
        BY <1>3, <3>1, <4>1, <4>2, QueueType DEF HandleNick, TypeOK
    <3>2. CASE f \notin registered
      BY <1>3, <3>2, TryRegisterType DEF HandleNick
    <3>. QED BY <3>1, <3>2
  <2>2. IdentType'
    BY <1>3, <2>1 DEF HandleNick, Reindexed, IdentType, TypeOK
  <2>. QED
    BY <1>3, <2>1, <2>2, UnchangedTypes, TypeGroupsNext, NoTaskType
    DEF HandleNick, Idle, TaskInv
<1>. QED BY <1>1, <1>2, <1>3


\* A list of names becomes a list of items.
LEMMA NameItems ==
  ASSUME NEW S, S \subseteq Chan \cup Word \cup ModeChar, NEW list \in Seq(S)
  PROVE  [i \in DOMAIN list |-> <<list[i], NoWord>>] \in Seq(Item)
<1>1. DOMAIN list = 1..Len(list) /\ Len(list) \in Nat
  OBVIOUS
<1>2. \A i \in 1..Len(list) : <<list[i], NoWord>> \in Item
  BY DEF Item
<1>. QED BY <1>1, <1>2

\* A sequence over a set is one over every larger set.
LEMMA SeqMonotone ==
  ASSUME NEW S, NEW T, S \subseteq T, NEW s \in Seq(S)
  PROVE  s \in Seq(T)
OBVIOUS

\* HandleJoin, HandlePart, HandlePrivmsg, HandleJoinZero
LEMMA LoopStartType ==
  ASSUME TypeOK, TaskInv, NEW f \in Fd,
         \/ \E list \in JoinLists : HandleJoin(f, list)
         \/ \E list \in TargetLists : HandlePart(f, list) \/ HandlePrivmsg(f, list)
         \/ HandleJoinZero(f)
  PROVE  TypeOK' /\ TaskInv'
<1>1. ASSUME NEW list \in JoinLists, HandleJoin(f, list)
      PROVE  TypeOK' /\ TaskInv'
  <2>1. (Chan \cup Word) \X (Word \cup {NoWord}) \subseteq Item
    BY DEF Item
  <2>2. list \in Seq((Chan \cup Word) \X (Word \cup {NoWord}))
    BY InputsAreLists
  <2>3. list \in Seq(Item)
    BY <2>1, <2>2, SeqMonotone
  <2>. QED BY <1>1, <2>3, StartLoopType DEF HandleJoin
<1>2. ASSUME NEW list \in TargetLists, HandlePart(f, list) \/ HandlePrivmsg(f, list)
      PROVE  TypeOK' /\ TaskInv'
  <2>1. list \in Seq(Chan \cup Word)
    BY InputsAreLists
  <2>2. [i \in DOMAIN list |-> <<list[i], NoWord>>] \in Seq(Item)
    BY <2>1, NameItems
  <2>. QED BY <1>2, <2>2, StartLoopType DEF HandlePart, HandlePrivmsg
<1>3. CASE HandleJoinZero(f)
  <2>1. PICK list \in [1..Cardinality(joined[f]) -> joined[f]] :
          StartLoop(f, "LEAVEALL", [i \in DOMAIN list |-> <<list[i], NoWord>>])
    BY <1>3 DEF HandleJoinZero
  <2>2. joined[f] \subseteq Chan
    BY DEF TypeOK
  <2>3. Cardinality(joined[f]) \in Nat
    BY <2>2, FinitelyMany, FS_Subset, FS_CardinalityType
  <2>4. list \in Seq(joined[f])
    BY <2>3
  <2>5. [i \in DOMAIN list |-> <<list[i], NoWord>>] \in Seq(Item)
    BY <2>2, <2>4, NameItems
  <2>. QED BY <2>1, <2>5, StartLoopType
<1>. QED BY <1>1, <1>2, <1>3

\* leaveChannel keeps relations, modes and member lists well typed.
LEMMA LeaveChannelType ==
  ASSUME TypeOK, NEW f \in Fd, NEW c \in Chan, LeaveChannel(f, c)
  PROVE  SeenType' /\ RelType' /\ ModeType'
<1>1. ASSUME NEW seen \in Seen
      PROVE  [g \in Fd |-> IF g = f THEN [seen[g] EXCEPT ![c] = {}]
                           ELSE Without(seen, g, {c}, nick[f])] \in Seen
  BY DEF Seen, Without
<1>2. seenNames \in Seen /\ seenOps \in Seen
  BY DEF TypeOK, Seen
<1>3. SeenType'
  BY <1>1, <1>2, QueueType DEF LeaveChannel
<1>. QED BY <1>3, RemoveFromType DEF LeaveChannel

\* joinChannel keeps relations, modes and member lists well typed.
LEMMA JoinChannelType ==
  ASSUME TypeOK, NEW f \in Fd, NEW c \in Chan, NEW created \in BOOLEAN,
         JoinChannel(f, c, created)
  PROVE  SeenType' /\ RelType' /\ ModeType' /\ channels \subseteq channels'
<1>1. RelType' /\ ModeType' /\ channels \subseteq channels'
  <2>1. CASE created
    BY <2>1 DEF JoinChannel, TypeOK, RelType, ModeType
  <2>2. CASE ~created
    BY <2>2 DEF JoinChannel, TypeOK, RelType, ModeType
  <2>. QED BY <2>1, <2>2
<1>2. ASSUME NEW S \in SUBSET Fd
      PROVE  Nicks(S) \subseteq Word \cup {NoWord}
  BY DEF TypeOK, Nicks
<1>3. /\ Nicks(members[c] \cup {f}) \subseteq Word \cup {NoWord}
      /\ Nicks(IF created THEN {f} ELSE operators[c]) \subseteq Word \cup {NoWord}
      /\ nick[f] \in Word \cup {NoWord}
  BY <1>2 DEF TypeOK
<1>4. seenNames \in Seen /\ seenOps \in Seen
  BY DEF TypeOK, Seen
<1>5. [g \in Fd |-> [seenNames[g] EXCEPT ![c] =
         IF g = f THEN Nicks(members[c] \cup {f})
         ELSE @ \cup {nick[f]}]] \in Seen
  BY ZenonT(60), <1>3, <1>4 DEF Seen
<1>6. [g \in Fd |-> [seenOps[g] EXCEPT ![c] =
         IF g = f THEN Nicks(IF created THEN {f} ELSE operators[c])
         ELSE @]] \in Seen
  BY <1>3, <1>4 DEF Seen
<1>. QED BY <1>1, <1>5, <1>6, QueueType DEF JoinChannel

\* A loop that is running has a client.
LEMMA LoopOwner ==
  ASSUME TypeOK, TaskInv, NEW cmd, cmd # "NONE", task.cmd = cmd
  PROVE  task.fd \in Fd /\ task.fd \in registered /\ closing = {}
BY DEF TypeOK, TaskInv

\* The iterations of JOIN, PART, JOIN 0 and PRIVMSG keep the types.
LEMMA ListLoopType ==
  ASSUME TypeOK, TaskInv, JoinNext \/ PartNext \/ LeaveAllNext \/ PrivmsgNext
  PROVE  TypeOK' /\ TaskInv'
<1> DEFINE f == task.fd
           c == Head(task.todo)[1]
           Rest == SeenType' /\ RelType' /\ ModeType'
<1>1. Reply({f}) /\ UNCHANGED <<relVars, modeVars>> => Rest
  BY ReplyType, UnchangedTypes
<1>2. UNCHANGED <<pending, relVars, modeVars, seenVars>> => Rest
  BY UnchangedTypes
<1>3. CASE JoinNext
  <2>1. At("JOIN") /\ Advance /\ UNCHANGED <<connVars, identVars>>
    BY <1>3 DEF JoinNext
  <2>2. f \in Fd
    BY <2>1, LoopOwner DEF At
  <2>3. Rest
    <3> DEFINE verdict == JoinVerdict(f, c, Head(task.todo)[2])
    <3>1. CASE verdict \in {"create", "join"}
      <4>1. c \in Chan
        BY <3>1 DEF JoinVerdict
      <4>2. JoinChannel(f, c, verdict = "create")
        BY <1>3, <3>1 DEF JoinNext
      <4>. QED BY <2>2, <4>1, <4>2, JoinChannelType
    <3>2. CASE verdict = "already joined"
      BY <1>2, <1>3, <3>2 DEF JoinNext
    <3>3. CASE verdict \notin {"create", "join", "already joined"}
      BY <1>1, <1>3, <3>3 DEF JoinNext
    <3>. QED BY <3>1, <3>2, <3>3
  <2>. QED
    BY <2>1, <2>3, AdvanceType, UnchangedTypes, TypeGroupsNext
    DEF TaskInv, connVars, identVars
<1>4. CASE PartNext \/ LeaveAllNext
  <2>1. PICK cmd \in {"PART", "LEAVEALL"} : At(cmd)
    BY <1>4 DEF PartNext, LeaveAllNext
  <2>2. Advance /\ UNCHANGED <<connVars, identVars>>
    BY <1>4 DEF PartNext, LeaveAllNext
  <2>3. f \in Fd
    BY <2>1, LoopOwner DEF At
  <2>4. Rest
    <3>1. CASE c \in channels /\ f \in members[c]
      <4>1. c \in Chan /\ LeaveChannel(f, c)
        BY <1>4, <3>1 DEF PartNext, LeaveAllNext, TypeOK
      <4>. QED BY <2>3, <4>1, LeaveChannelType
    <3>2. CASE ~(c \in channels /\ f \in members[c])
      BY <1>1, <1>2, <1>4, <3>2 DEF PartNext, LeaveAllNext
    <3>. QED BY <3>1, <3>2
  <2>. QED
    BY <2>1, <2>2, <2>4, AdvanceType, UnchangedTypes, TypeGroupsNext
    DEF TaskInv, connVars, identVars
<1>5. CASE PrivmsgNext
  BY <1>5, ReplyType, AdvanceType, UnchangedTypes, TypeGroupsNext
  DEF PrivmsgNext, TaskInv, connVars, identVars
<1>. QED BY <1>3, <1>4, <1>5

\* KICK, INVITE and TOPIC keep the types.
LEMMA ChannelCommandType ==
  ASSUME TypeOK, TaskInv, NEW f \in Fd, NEW c \in Chan,
         \/ \E w \in Word : HandleKick(f, c, w) \/ HandleInvite(f, w, c)
         \/ \E w \in Topics : HandleTopic(f, c, w)
  PROVE  TypeOK' /\ TaskInv'
<1>1. ASSUME NEW w \in Word
      PROVE  FindClientByNickname(w) \in Fd \cup {NoFd}
  BY TextFunctions DEF FindClientByNickname, TypeOK
<1>2. task.cmd = "NONE" /\ task' = task
  BY NoTaskType DEF HandleKick, HandleInvite, HandleTopic, Idle
<1>3. ASSUME NEW w \in Word, HandleKick(f, c, w)
      PROVE  SeenType' /\ RelType' /\ ModeType'
  <2>1. CASE KickVerdict(f, c, w) = "kick"
    <3>1. FindClientByNickname(w) \in Fd
      BY <1>1, <2>1 DEF KickVerdict
    <3>. QED BY <1>3, <2>1, <3>1, LeaveChannelType DEF HandleKick
  <2>2. CASE KickVerdict(f, c, w) # "kick"
    BY <1>3, <2>2, ReplyType, UnchangedTypes DEF HandleKick
  <2>. QED BY <2>1, <2>2
<1>4. ASSUME NEW w \in Word, HandleInvite(f, w, c)
      PROVE  SeenType' /\ RelType' /\ ModeType'
  <2>1. CASE InviteVerdict(f, w, c) = "invite"
    <3>1. FindClientByNickname(w) \in Fd
      BY <1>1, <2>1 DEF InviteVerdict
    <3>2. RelType'
      BY <1>4, <2>1, <3>1 DEF HandleInvite, TypeOK, RelType
    <3>. QED BY <1>4, <2>1, <3>2, ReplyType, UnchangedTypes DEF HandleInvite
  <2>2. CASE InviteVerdict(f, w, c) # "invite"
    BY <1>4, <2>2, ReplyType, UnchangedTypes DEF HandleInvite, relVars
  <2>. QED BY <2>1, <2>2
<1>5. ASSUME NEW w \in Topics, HandleTopic(f, c, w)
      PROVE  SeenType' /\ RelType' /\ ModeType'
  <2>1. ModeType'
    BY ZenonT(60), <1>5, InputsAreLists DEF HandleTopic, TypeOK, ModeType
  <2>. QED BY <1>5, <2>1, ReplyType, UnchangedTypes DEF HandleTopic
<1>6. ConnType' /\ IdentType' /\ SeenType' /\ RelType' /\ ModeType'
  BY <1>3, <1>4, <1>5, UnchangedTypes DEF HandleKick, HandleInvite, HandleTopic
<1>. QED BY <1>2, <1>6, TypeGroupsNext DEF TaskInv, TypeOK

\* An entry of the MODE notice is well typed.
LEMMA ChangedType ==
  ASSUME TypeOK, task.sign # "", NEW mode \in ModeChar,
         NEW arg \in Word \cup {NoWord}
  PROVE  Changed(mode, arg) \in Seq(Change)
<1>1. task.sign \in {"+", "-"}
  BY DEF TypeOK, Task
<1>2. [sign |-> task.sign, mode |-> mode, arg |-> arg] \in Change
  BY <1>1 DEF Change
<1>. QED BY <1>2, SingletonType DEF Changed

\* The MODE loop works for a registered client on an existing channel.
LEMMA ModeOwner ==
  ASSUME TypeOK, TaskInv, task.cmd = "MODE"
  PROVE  /\ task.fd \in registered /\ task.fd \in Fd /\ closing = {}
         /\ task.chan \in channels /\ task.chan \in Chan
BY DEF TypeOK, TaskInv

\* The start of MODE keeps the types.
LEMMA HandleModeType ==
  ASSUME TypeOK, TaskInv, NEW f \in Fd, NEW c \in Chan, NEW line \in ModeLines,
         HandleMode(f, c, line)
  PROVE  TypeOK' /\ TaskInv'
<1>1. line[1] \in Seq(ModeChar) /\ line[2] \in Seq(Word)
  BY InputsAreLists
<1>2. CASE c \in channels /\ f \in operators[c]
  <2>1. [i \in DOMAIN line[1] |-> <<line[1][i], NoWord>>] \in Seq(Item)
    BY <1>1, NameItems
  <2>2. /\ task' \in Task /\ task'.fd = f /\ task'.chan = c
        /\ f \in registered /\ closing = {} /\ UNCHANGED <<registered, closing, channels>>
    BY ZenonT(60), <1>1, <1>2, <2>1, NoTaskType
    DEF HandleMode, Task, NoTask, Idle, connVars, identVars, relVars
  <2>. QED
    BY <1>2, <2>2, UnchangedTypes, TypeGroupsNext DEF HandleMode, TaskInv
<1>3. CASE ~(c \in channels /\ f \in operators[c])
  BY <1>3, NoTaskType, ReplyType, UnchangedTypes, TypeGroupsNext
  DEF HandleMode, Idle, TaskInv
<1>. QED BY <1>2, <1>3

\* The iterations of MODE and its notice keep the types.
LEMMA ModeLoopType ==
  ASSUME TypeOK, TaskInv,
         \/ ModeSign \/ ModeRefused \/ ModeI \/ ModeT \/ ModeK \/ ModeL
         \/ ModeO \/ ModeNotify
  PROVE  TypeOK' /\ TaskInv'
<1> DEFINE SameTask == /\ task' \in Task /\ task'.fd = task.fd
                       /\ task'.cmd = task.cmd /\ task'.chan = task.chan
           c == task.chan
<1>1. /\ task.cmd = "MODE" /\ task.fd \in registered /\ task.fd \in Fd
      /\ closing = {} /\ c \in channels /\ c \in Chan
  BY ModeOwner
  DEF ModeSign, ModeRefused, ModeI, ModeT, ModeFlag, ModeK, ModeL, ModeO,
      ModeNotify, AtMode, At
<1>2. task \in Task /\ task.args \in Seq(Word) /\ <<>> \in Seq(Change)
  BY EmptyType DEF TypeOK, Task
<1>3. task.args # <<>> => Head(task.args) \in Word /\ Tail(task.args) \in Seq(Word)
  BY <1>2, TailType
<1>4. ModeChar = {"+", "-", "i", "t", "k", "o", "l", "?"}
  BY DEF ModeChar
<1>5. CASE ModeSign
  <2>1. Head(task.todo)[1] \in {"+", "-"} /\ task.todo # <<>>
    BY <1>5 DEF ModeSign, AtMode, At
  <2>2. Tail(task.todo) \in Seq(Item)
    BY <1>2, <2>1, TailType DEF Task
  <2>3. task' = [task EXCEPT !.todo = Tail(task.todo), !.sign = Head(task.todo)[1]]
    BY <1>5 DEF ModeSign
  <2>4. SameTask
    BY <1>2, <2>1, <2>2, <2>3 DEF Task
  <2>. QED
    BY <1>1, <1>5, <2>4, UnchangedTypes, TypeGroupsNext
    DEF ModeSign, TaskInv, connVars, identVars, relVars
<1>6. CASE ModeRefused
  <2>1. SameTask
    BY <1>2, <1>6, NextCharType DEF ModeRefused
  <2>. QED
    BY <1>1, <1>6, <2>1, ReplyType, UnchangedTypes, TypeGroupsNext
    DEF ModeRefused, TaskInv, connVars, identVars, relVars
<1>7. CASE ModeI
  <2>1. SameTask
    BY <1>2, <1>4, <1>7, NextCharType, ChangedType DEF ModeI, ModeFlag
  <2>2. ModeType'
    BY <1>1, <1>7 DEF ModeI, Flagged, ModeType, TypeOK
  <2>. QED
    BY <1>1, <1>7, <2>1, <2>2, UnchangedTypes, TypeGroupsNext
    DEF ModeI, TaskInv, connVars, identVars, relVars
<1>8. CASE ModeT
  <2>1. SameTask
    BY <1>2, <1>4, <1>8, NextCharType, ChangedType DEF ModeT, ModeFlag
  <2>2. ModeType'
    BY <1>1, <1>8 DEF ModeT, Flagged, ModeType, TypeOK
  <2>. QED
    BY <1>1, <1>8, <2>1, <2>2, UnchangedTypes, TypeGroupsNext
    DEF ModeT, TaskInv, connVars, identVars, relVars
<1>9. CASE ModeK
  <2>1. SameTask
    BY <1>2, <1>3, <1>4, <1>9, NextCharType, ChangedType DEF ModeK, Adding
  <2>2. ModeType'
    BY <1>1, <1>3, <1>9 DEF ModeK, ModeType, TypeOK
  <2>. QED
    BY <1>1, <1>9, <2>1, <2>2, UnchangedTypes, TypeGroupsNext
    DEF ModeK, TaskInv, connVars, identVars, relVars
<1>10. CASE ModeL
  <2>1. SameTask
    BY <1>2, <1>3, <1>4, <1>10, NextCharType, ChangedType DEF ModeL, Adding
  <2>2. ModeType'
    <3>1. PICK n \in Nat : limit' = [limit EXCEPT ![c] = n]
      <4>1. task.args # <<>> => UserLimit[Head(task.args)] \in Nat
        BY TextFunctions, <1>3
      <4>2. limit[c] \in Nat
        BY <1>1 DEF TypeOK
      <4>. QED BY <1>10, <4>1, <4>2 DEF ModeL
    <3>2. limit' \in [Chan -> Nat]
      BY <3>1 DEF TypeOK
    <3>. QED BY <1>10, <3>2 DEF ModeL, ModeType, TypeOK
  <2>. QED
    BY <1>1, <1>10, <2>1, <2>2, UnchangedTypes, TypeGroupsNext
    DEF ModeL, TaskInv, connVars, identVars, relVars
<1>11. CASE ModeO
  <2> DEFINE t == FindClientByNickname(Head(task.args))
  <2>1. t \in Fd \cup {NoFd}
    BY TextFunctions, <1>3, <1>11 DEF ModeO, FindClientByNickname, TypeOK
  <2>2. t \in Fd => nick[t] \in Word \cup {NoWord}
    BY DEF TypeOK
  <2>3. SameTask
    BY <1>2, <1>3, <1>4, <1>11, <2>1, <2>2, NextCharType, ChangedType DEF ModeO
  <2>4. RelType'
    <3>1. operators' \in [Chan -> SUBSET Fd]
      <4>1. CASE t # NoFd /\ t \in members[c]
        <5>1. operators' = [operators EXCEPT ![c] =
                              IF Adding THEN @ \cup {t} ELSE @ \ {t}]
          BY <1>11, <4>1 DEF ModeO
        <5>. QED BY <2>1, <4>1, <5>1 DEF TypeOK
      <4>2. CASE ~(t # NoFd /\ t \in members[c])
        BY <1>11, <4>2 DEF ModeO, TypeOK
      <4>. QED BY <4>1, <4>2
    <3>. QED BY <1>11, <3>1 DEF ModeO, RelType, TypeOK
  <2>5. SeenType'
    BY <1>11, ReplyType, UnchangedTypes DEF ModeO
  <2>. QED
    BY <1>1, <1>11, <2>3, <2>4, <2>5, UnchangedTypes, TypeGroupsNext
    DEF ModeO, TaskInv, connVars, identVars
<1>12. CASE ModeNotify
  <2>1. seenNames \in Seen /\ seenOps \in Seen
    BY DEF TypeOK, Seen
  <2>2. ASSUME NEW ops PROVE AfterMode(ops, task.changed) \subseteq Word
    BY DEF AfterMode
  <2>3. [g \in Fd |-> [seenOps[g] EXCEPT ![c] = AfterMode(@, task.changed)]] \in Seen
    BY <2>1, <2>2 DEF Seen
  <2>4. SeenType'
    BY <1>12, <2>1, <2>3, QueueType DEF ModeNotify
  <2>. QED
    BY <1>12, <2>4, NoTaskType, UnchangedTypes, TypeGroupsNext
    DEF ModeNotify, TaskInv
<1>. QED
  BY <1>5, <1>6, <1>7, <1>8, <1>9, <1>10, <1>11, <1>12

-----------------------------------------------------------------------------
\* Every step keeps the types and the owner of the running loop.
LEMMA NextType == TypeOK /\ TaskInv /\ [Next]_vars => TypeOK' /\ TaskInv'
<1> SUFFICES ASSUME TypeOK, TaskInv, [Next]_vars
             PROVE  TypeOK' /\ TaskInv'
  OBVIOUS
<1>1. CASE UNCHANGED vars
  BY <1>1, UnchangedTypes, TypeGroupsNext
  DEF vars, TaskInv, connVars, identVars, relVars
<1>2. CASE ProcessPendingDisconnects
  <2>1. CASE Fd = {}
    BY <1>2, <2>1, NoTaskType, UnchangedTypes, TypeGroupsNext
    DEF ProcessPendingDisconnects, TypeOK, ConnType, SeenType, Seen, Idle,
        TaskInv, seenVars
  <2>2. CASE Fd # {}
    BY <1>2, <2>2, ConnectionType
  <2>. QED BY <2>1, <2>2
<1>3. CASE Loops
  BY <1>3, ListLoopType, ModeLoopType DEF Loops
<1>4. ASSUME NEW f \in Fd,
             \/ AcceptClient(f) \/ ReplyOnly(f) \/ ConnectionLost(f)
             \/ HandleQuit(f) \/ DisconnectClient(f) \/ HandleUser(f)
             \/ HandleJoinZero(f)
             \/ \E w \in Word : HandlePass(f, w)
             \/ \E w \in NickInputs[f] : HandleNick(f, w)
             \/ \E list \in JoinLists : HandleJoin(f, list)
             \/ \E list \in TargetLists :
                  HandlePart(f, list) \/ HandlePrivmsg(f, list)
      PROVE  TypeOK' /\ TaskInv'
  <2>1. NickInputs[f] \subseteq Word
    BY InputsAreLists
  <2>. QED
    BY <1>4, <2>1, ConnectionType, DisconnectType, RegistrationType, LoopStartType
<1>5. ASSUME NEW f \in Fd, NEW c \in Chan,
             \/ \E w \in Word : HandleKick(f, c, w) \/ HandleInvite(f, w, c)
             \/ \E w \in Topics : HandleTopic(f, c, w)
             \/ \E line \in ModeLines : HandleMode(f, c, line)
      PROVE  TypeOK' /\ TaskInv'
  BY <1>5, ChannelCommandType, HandleModeType
<1>. QED BY <1>1, <1>2, <1>3, <1>4, <1>5 DEF Next

\* The inductive invariant: the types, and who owns the running loop.
LEMMA TypeInvariant == Spec => [](TypeOK /\ TaskInv)
BY InitType, NextType, PTL DEF Spec

\* In every reachable state every variable has its type, for any number of
\* clients, channels and words.
THEOREM TypeCorrect == Spec => []TypeOK
BY TypeInvariant, PTL

-----------------------------------------------------------------------------
(***************************************************************************)
(* The relations of IrcServer are consistent in every reachable state, and *)
(* no connection inherits anything from an earlier one with its            *)
(* descriptor; and what a step of the server may never do: let somebody    *)
(* into a channel past its modes, or make an operator of somebody in a     *)
(* channel that has none.                                                  *)
(***************************************************************************)
SafeInv ==
  /\ RelationsAgree
  /\ NickIndexExact
  /\ NothingOutlivesDisconnect
  /\ InviteIsSpent

\* What SafeInv depends on, apart from passed, userGiven and reasons.
coreVars == <<live, nick, nickToFd, registered, relVars>>

\* The empty server is consistent.
LEMMA InitSafe == Init => SafeInv
BY DEF Init, SafeInv, RelationsAgree, NickIndexExact,
       NothingOutlivesDisconnect, InviteIsSpent

\* A step that leaves the relations alone keeps them consistent.
LEMMA FrameSafe ==
  ASSUME SafeInv, UNCHANGED coreVars, UNCHANGED <<passed, userGiven, reasons>>
  PROVE  SafeInv'
BY ZenonT(60) DEF SafeInv, RelationsAgree, NickIndexExact, NothingOutlivesDisconnect,
       InviteIsSpent, Nicks, coreVars, relVars

\* A new connection inherits nothing; QUIT changes no relation.
LEMMA ConnectionSafe ==
  ASSUME TypeOK, SafeInv, NEW f \in Fd, AcceptClient(f) \/ HandleQuit(f)
  PROVE  SafeInv'
<1>1. UNCHANGED <<identVars, relVars>>
  BY DEF AcceptClient, HandleQuit
<1>2. RelationsAgree' /\ InviteIsSpent'
  BY <1>1 DEF SafeInv, RelationsAgree, InviteIsSpent, identVars, relVars
<1>3. NickIndexExact'
  <2>1. CASE AcceptClient(f)
    BY <1>1, <2>1
    DEF AcceptClient, SafeInv, NickIndexExact, NothingOutlivesDisconnect, identVars
  <2>2. CASE HandleQuit(f)
    BY <1>1, <2>2 DEF HandleQuit, SafeInv, NickIndexExact, identVars
  <2>. QED BY <2>1, <2>2
<1>4. NothingOutlivesDisconnect'
  BY <1>1 DEF AcceptClient, HandleQuit, SafeInv, NothingOutlivesDisconnect,
              identVars, relVars
<1>. QED BY <1>2, <1>3, <1>4 DEF SafeInv

\* Completing the registration needs a connected client only.
LEMMA PassUserSafe ==
  ASSUME TypeOK, SafeInv, NEW f \in Fd,
         HandleUser(f) \/ \E w \in Word : HandlePass(f, w)
  PROVE  SafeInv'
<1>1. /\ f \in live /\ UNCHANGED <<connVars, nick, nickToFd, relVars>>
      /\ passed' \subseteq passed \cup {f} /\ userGiven' \subseteq userGiven \cup {f}
  BY DEF HandleUser, HandlePass
<1>2. registered \subseteq registered' /\ registered' \subseteq registered \cup {f}
  BY DEF HandleUser, HandlePass, TryRegisterClient
<1>. QED
  BY <1>1, <1>2 DEF SafeInv, RelationsAgree, NickIndexExact,
     NothingOutlivesDisconnect, InviteIsSpent, connVars, relVars

\* The index follows a change of nickname, of its spelling only too.
LEMMA NickSafe ==
  ASSUME TypeOK, SafeInv, NEW f \in Fd, NEW w \in Word, HandleNick(f, w)
  PROVE  SafeInv'
<1>1. /\ f \in live /\ UNCHANGED <<connVars, passed, userGiven, relVars>>
      /\ nickToFd[Fold[w]] \in {NoFd, f}
      /\ nickToFd' = [v \in Word |->
                        IF v = Fold[w] THEN f
                        ELSE IF nick[f] # NoWord /\ v = Fold[nick[f]] THEN NoFd
                        ELSE nickToFd[v]]
      /\ nick' = [nick EXCEPT ![f] = w]
  BY DEF HandleNick, IsNicknameAvailable, Reindexed
<1>2. registered \subseteq registered' /\ registered' \subseteq registered \cup {f}
  BY DEF HandleNick, TryRegisterClient
<1>3. NickIndexExact'
  <2> SUFFICES ASSUME NEW g \in Fd, NEW v \in Word
               PROVE  nickToFd'[v] = g <=>
                        g \in live' /\ nick'[g] # NoWord /\ Fold[nick'[g]] = v
    BY DEF NickIndexExact
  <2>1. Fold[w] \in Word /\ w # NoWord /\ NoFd # g
    BY TextFunctions
  <2>2. CASE g = f
    BY <1>1, <2>1, <2>2 DEF SafeInv, NickIndexExact, TypeOK, connVars
  <2>3. CASE g # f
    BY <1>1, <2>1, <2>3 DEF SafeInv, NickIndexExact, TypeOK, connVars
  <2>. QED BY <2>2, <2>3
<1>4. RelationsAgree' /\ InviteIsSpent'
  BY <1>1, <1>2 DEF SafeInv, RelationsAgree, InviteIsSpent, relVars
<1>5. NothingOutlivesDisconnect'
  BY <1>1, <1>2
  DEF SafeInv, NothingOutlivesDisconnect, connVars, relVars, TypeOK
<1>. QED BY <1>3, <1>4, <1>5 DEF SafeInv

\* Joining adds to both sides and spends the invitation.
LEMMA JoinSafe ==
  ASSUME TypeOK, SafeInv, NEW f \in registered, NEW c \in Chan,
         NEW created \in BOOLEAN, JoinChannel(f, c, created),
         UNCHANGED <<connVars, identVars>>
  PROVE  SafeInv'
<1>1. f \in Fd /\ f \in live
  BY DEF SafeInv, NothingOutlivesDisconnect, TypeOK
<1>2. /\ joined' = [joined EXCEPT ![f] = @ \cup {c}]
      /\ channels' = channels \cup {c}
      /\ members' = [members EXCEPT ![c] = @ \cup {f}]
      /\ invited' = [invited EXCEPT ![c] = @ \ {f}]
      /\ \A d \in Chan : operators'[d] \subseteq operators[d] \cup IF d = c THEN {f} ELSE {}
  BY DEF JoinChannel, TypeOK
<1>3. UNCHANGED <<live, reasons, nick, passed, userGiven, registered, nickToFd>>
  BY DEF connVars, identVars
<1>4. RelationsAgree'
  BY <1>1, <1>2, <1>3 DEF SafeInv, RelationsAgree, TypeOK
<1>5. NickIndexExact' /\ NothingOutlivesDisconnect' /\ InviteIsSpent'
  BY <1>1, <1>2, <1>3 DEF SafeInv, NickIndexExact, NothingOutlivesDisconnect,
     InviteIsSpent, TypeOK
<1>. QED BY <1>4, <1>5 DEF SafeInv

\* Removal is two-sided, erases exactly the emptied channels and adds nothing.
LEMMA RemoveSafe ==
  ASSUME TypeOK, SafeInv, NEW f \in Fd, NEW from \in SUBSET joined[f],
         NEW uninvite, RemoveFrom(f, from, uninvite)
  PROVE  /\ \A g \in Fd, c \in Chan : c \in joined'[g] <=> g \in members'[c]
         /\ \A c \in Chan : operators'[c] \subseteq members'[c]
         /\ \A c \in Chan : c \in channels' <=> members'[c] # {}
         /\ \A c \in Chan : members'[c] \subseteq members[c]
         /\ \A c \in Chan : invited'[c] \subseteq invited[c]
         /\ \A c \in from : members'[c] = members[c] \ {f}
         /\ \A c \in uninvite \cap Chan : f \notin invited'[c]
<1>1. from \subseteq Chan /\ \A c \in from : f \in members[c]
  BY DEF SafeInv, RelationsAgree, TypeOK
<1>2. /\ joined' = [joined EXCEPT ![f] = @ \ from]
      /\ channels' = channels \ {c \in from : members[c] = {f}}
      /\ members' = [c \in Chan |->
                       IF c \in from THEN members[c] \ {f} ELSE members[c]]
      /\ operators' = [c \in Chan |->
                         IF c \in from THEN operators[c] \ {f} ELSE operators[c]]
  BY DEF RemoveFrom, Erased
<1>3. \A c \in Chan : invited'[c] \subseteq invited[c] /\ (c \in uninvite => f \notin invited'[c])
  BY DEF RemoveFrom
<1>. QED BY <1>1, <1>2, <1>3 DEF SafeInv, RelationsAgree, TypeOK

\* leaveChannel keeps the relations consistent.
LEMMA LeaveSafe ==
  ASSUME TypeOK, SafeInv, NEW f \in Fd, NEW c \in Chan, f \in members[c],
         LeaveChannel(f, c), UNCHANGED <<connVars, identVars>>
  PROVE  SafeInv'
<1>1. {c} \in SUBSET joined[f] /\ RemoveFrom(f, {c}, {c})
  BY DEF LeaveChannel, SafeInv, RelationsAgree
<1>2. UNCHANGED <<live, reasons, nick, passed, userGiven, registered, nickToFd>>
  BY DEF connVars, identVars
<1>3. /\ \A g \in Fd, d \in Chan : d \in joined'[g] <=> g \in members'[d]
      /\ \A d \in Chan : operators'[d] \subseteq members'[d]
      /\ \A d \in Chan : d \in channels' <=> members'[d] # {}
      /\ \A d \in Chan : members'[d] \subseteq members[d] /\ invited'[d] \subseteq invited[d]
  BY <1>1, RemoveSafe
<1>. QED
  BY <1>2, <1>3 DEF SafeInv, RelationsAgree, NickIndexExact,
     NothingOutlivesDisconnect, InviteIsSpent

\* disconnectClient keeps the relations consistent and leaves nothing behind.
LEMMA DisconnectSafe ==
  ASSUME TypeOK, SafeInv, NEW f \in Fd, DisconnectClient(f)
  PROVE  SafeInv'
<1>1. CASE f \notin live
  BY <1>1, FrameSafe DEF DisconnectClient, coreVars, identVars
<1>2. CASE f \in live
  <2>1. /\ RemoveFrom(f, joined[f], Chan)
        /\ nickToFd' = [w \in Word |->
                          IF nick[f] # NoWord /\ w = Fold[nick[f]]
                          THEN NoFd ELSE nickToFd[w]]
        /\ live' = live \ {f} /\ reasons' = reasons \ {f}
        /\ nick' = [nick EXCEPT ![f] = NoWord]
        /\ passed' = passed \ {f} /\ userGiven' = userGiven \ {f}
        /\ registered' = registered \ {f}
    BY <1>2 DEF DisconnectClient, RemoveClientFromAllChannels
  <2>2. /\ \A g \in Fd, c \in Chan : c \in joined'[g] <=> g \in members'[c]
        /\ \A c \in Chan : operators'[c] \subseteq members'[c]
        /\ \A c \in Chan : c \in channels' <=> members'[c] # {}
        /\ \A c \in Chan : members'[c] \subseteq members[c]
        /\ \A c \in Chan : invited'[c] \subseteq invited[c]
        /\ \A c \in Chan : f \notin invited'[c]
        /\ \A c \in joined[f] : members'[c] = members[c] \ {f}
    BY <2>1, RemoveSafe
  <2>3. ASSUME NEW c \in Chan PROVE f \notin members'[c]
    <3>1. f \in members[c] <=> c \in joined[f]
      BY DEF SafeInv, RelationsAgree
    <3>2. members'[c] \subseteq members[c]
      BY <2>2
    <3>3. CASE c \in joined[f]
      BY <2>2, <3>3
    <3> QED
      BY <3>1, <3>2, <3>3
  <2>4. RelationsAgree' /\ InviteIsSpent' /\ NothingOutlivesDisconnect'
    BY <2>1, <2>2, <2>3
    DEF SafeInv, RelationsAgree, NothingOutlivesDisconnect, InviteIsSpent, TypeOK
  <2>5. NickIndexExact'
    <3> SUFFICES ASSUME NEW g \in Fd, NEW v \in Word
                 PROVE  nickToFd'[v] = g <=>
                          g \in live' /\ nick'[g] # NoWord /\ Fold[nick'[g]] = v
      BY DEF NickIndexExact
    <3>1. CASE g = f
      BY <1>2, <2>1, <3>1 DEF SafeInv, NickIndexExact, TypeOK
    <3>2. CASE g # f
      BY <1>2, <2>1, <3>2 DEF SafeInv, NickIndexExact, TypeOK
    <3>. QED BY <3>1, <3>2
  <2>. QED BY <2>4, <2>5 DEF SafeInv
<1>. QED BY <1>1, <1>2

\* A nickname found in the index belongs to a connected client.
LEMMA FoundIsLive ==
  ASSUME TypeOK, SafeInv, NEW w, FindClientByNickname(w) # NoFd
  PROVE  FindClientByNickname(w) \in live
<1>1. w \in Word /\ FindClientByNickname(w) = nickToFd[Fold[w]]
  BY DEF FindClientByNickname
<1>2. Fold[w] \in Word /\ nickToFd[Fold[w]] \in Fd
  BY <1>1, TextFunctions DEF TypeOK
<1>3. \A g \in Fd, v \in Word : nickToFd[v] = g => g \in live
  BY DEF SafeInv, NickIndexExact
<1>. QED BY <1>1, <1>2, <1>3

\* KICK, INVITE, TOPIC and the start of MODE keep the relations consistent.
LEMMA ChannelCommandSafe ==
  ASSUME TypeOK, SafeInv, NEW f \in Fd, NEW c \in Chan,
         \/ \E w \in Word : HandleKick(f, c, w) \/ HandleInvite(f, w, c)
         \/ \E w \in Topics : HandleTopic(f, c, w)
         \/ \E line \in ModeLines : HandleMode(f, c, line)
  PROVE  SafeInv'
<1>1. ASSUME NEW w \in Word, HandleKick(f, c, w)
      PROVE  SafeInv'
  <2>1. CASE KickVerdict(f, c, w) = "kick"
    <3>1. FindClientByNickname(w) \in members[c] /\ FindClientByNickname(w) \in Fd
      BY <2>1 DEF KickVerdict, TypeOK
    <3>. QED BY <1>1, <2>1, <3>1, LeaveSafe DEF HandleKick
  <2>2. CASE KickVerdict(f, c, w) # "kick"
    BY <1>1, <2>2, FrameSafe DEF HandleKick, coreVars, connVars, identVars
  <2>. QED BY <2>1, <2>2
<1>2. ASSUME NEW w \in Word, HandleInvite(f, w, c)
      PROVE  SafeInv'
  <2>1. UNCHANGED <<connVars, identVars, joined, channels, members, operators>>
    BY <1>2 DEF HandleInvite
  <2>2. CASE InviteVerdict(f, w, c) = "invite"
    <3> DEFINE t == FindClientByNickname(w)
    <3>1. t # NoFd /\ t \notin members[c]
      BY <2>2 DEF InviteVerdict
    <3>2. t \in live
      BY <3>1, FoundIsLive
    <3>3. invited' = [invited EXCEPT ![c] = @ \cup {t}]
      BY <1>2, <2>2 DEF HandleInvite
    <3>. QED
      BY <2>1, <3>1, <3>2, <3>3 DEF SafeInv, RelationsAgree, NickIndexExact,
         NothingOutlivesDisconnect, InviteIsSpent, connVars, identVars, TypeOK
  <2>3. CASE InviteVerdict(f, w, c) # "invite"
    BY <1>2, <2>1, <2>3, FrameSafe
    DEF HandleInvite, coreVars, connVars, identVars, relVars
  <2>. QED BY <2>2, <2>3
<1>3. ASSUME NEW w \in Topics, HandleTopic(f, c, w)
      PROVE  SafeInv'
  BY <1>3, FrameSafe DEF HandleTopic, coreVars, connVars, identVars
<1>4. ASSUME NEW line \in ModeLines, HandleMode(f, c, line)
      PROVE  SafeInv'
  BY <1>4, FrameSafe DEF HandleMode, coreVars, connVars, identVars
<1>. QED BY <1>1, <1>2, <1>3, <1>4

\* The iterations of the loops.
LEMMA LoopSafe ==
  ASSUME TypeOK, TaskInv, SafeInv, Loops
  PROVE  SafeInv'
<1> DEFINE f == task.fd
           c == Head(task.todo)[1]
<1>1. ASSUME UNCHANGED <<connVars, identVars, relVars>>
      PROVE  SafeInv'
  BY <1>1, FrameSafe DEF coreVars, connVars, identVars
<1>2. CASE JoinNext
  <2> DEFINE verdict == JoinVerdict(f, c, Head(task.todo)[2])
  <2>1. f \in registered /\ UNCHANGED <<connVars, identVars>>
    BY <1>2, LoopOwner DEF JoinNext, At
  <2>2. CASE verdict \in {"create", "join"}
    <3>1. c \in Chan
      BY <2>2 DEF JoinVerdict
    <3>2. JoinChannel(f, c, verdict = "create")
      BY <1>2, <2>2 DEF JoinNext
    <3>. QED BY <2>1, <3>1, <3>2, JoinSafe
  <2>3. CASE verdict \notin {"create", "join"}
    <3>1. UNCHANGED relVars
      BY <1>2, <2>3 DEF JoinNext
    <3>. QED BY <1>1, <2>1, <3>1
  <2>. QED BY <2>2, <2>3
<1>3. CASE PartNext \/ LeaveAllNext
  <2>1. UNCHANGED <<connVars, identVars>>
    BY <1>3 DEF PartNext, LeaveAllNext
  <2>2. CASE c \in channels /\ f \in members[c]
    <3>1. LeaveChannel(f, c)
      BY <1>3, <2>2 DEF PartNext, LeaveAllNext
    <3>2. c \in Chan /\ f \in Fd
      BY <2>2 DEF TypeOK
    <3>. QED BY <2>1, <2>2, <3>1, <3>2, LeaveSafe
  <2>3. CASE ~(c \in channels /\ f \in members[c])
    <3>1. UNCHANGED relVars
      BY <1>3, <2>3 DEF PartNext, LeaveAllNext
    <3>. QED BY <1>1, <2>1, <3>1
  <2>. QED BY <2>2, <2>3
<1>4. CASE PrivmsgNext \/ ModeSign \/ ModeRefused \/ ModeI \/ ModeT \/ ModeK
           \/ ModeL \/ ModeNotify
  BY <1>1, <1>4 DEF PrivmsgNext, ModeSign, ModeRefused, ModeI, ModeT, ModeK,
     ModeL, ModeNotify
<1>5. CASE ModeO
  <2> DEFINE t == FindClientByNickname(Head(task.args))
             d == task.chan
  <2>1. UNCHANGED <<connVars, identVars, joined, channels, members, invited>>
    BY <1>5 DEF ModeO
  <2>2. d \in Chan
    BY <1>5, ModeOwner DEF ModeO, AtMode, At
  <2>3. CASE t # NoFd /\ t \in members[d]
    <3>1. operators' = [operators EXCEPT ![d] =
                          IF Adding THEN @ \cup {t} ELSE @ \ {t}]
      BY <1>5, <2>3 DEF ModeO
    <3>2. \A e \in Chan : operators'[e] \subseteq members[e]
      BY <2>2, <2>3, <3>1 DEF SafeInv, RelationsAgree, TypeOK
    <3>. QED
      BY <2>1, <3>2 DEF SafeInv, RelationsAgree, NickIndexExact,
         NothingOutlivesDisconnect, InviteIsSpent, connVars, identVars
  <2>4. CASE ~(t # NoFd /\ t \in members[d])
    <3>1. UNCHANGED relVars
      BY <1>5, <2>1, <2>4 DEF ModeO, relVars
    <3>. QED BY <1>1, <2>1, <3>1
  <2>. QED BY <2>3, <2>4
<1>. QED BY <1>2, <1>3, <1>4, <1>5 DEF Loops

\* Every step keeps the relations consistent.
LEMMA NextSafe ==
  TypeOK /\ TaskInv /\ SafeInv /\ [Next]_vars => SafeInv'
<1> SUFFICES ASSUME TypeOK, TaskInv, SafeInv, [Next]_vars
             PROVE  SafeInv'
  OBVIOUS
<1>1. ASSUME UNCHANGED <<live, reasons, identVars, relVars>>
      PROVE  SafeInv'
  BY <1>1, FrameSafe DEF coreVars, identVars
<1>2. CASE UNCHANGED vars
  BY <1>1, <1>2 DEF vars, connVars
<1>3. CASE ProcessPendingDisconnects
  BY <1>1, <1>3 DEF ProcessPendingDisconnects
<1>4. CASE Loops
  BY <1>4, LoopSafe
<1>5. ASSUME NEW f \in Fd,
             \/ ReplyOnly(f) \/ ConnectionLost(f) \/ HandleJoinZero(f)
             \/ \E list \in JoinLists : HandleJoin(f, list)
             \/ \E list \in TargetLists :
                  HandlePart(f, list) \/ HandlePrivmsg(f, list)
      PROVE  SafeInv'
  BY <1>1, <1>5 DEF ReplyOnly, ConnectionLost, HandleJoinZero, HandleJoin,
     HandlePart, HandlePrivmsg, StartLoop, connVars
<1>6. ASSUME NEW f \in Fd,
             \/ AcceptClient(f) \/ HandleQuit(f) \/ DisconnectClient(f)
             \/ HandleUser(f) \/ \E w \in Word : HandlePass(f, w)
             \/ \E w \in NickInputs[f] : HandleNick(f, w)
      PROVE  SafeInv'
  <2>1. NickInputs[f] \subseteq Word
    BY InputsAreLists
  <2>. QED
    BY <1>6, <2>1, ConnectionSafe, DisconnectSafe, PassUserSafe, NickSafe
<1>7. ASSUME NEW f \in Fd, NEW c \in Chan,
             \/ \E w \in Word : HandleKick(f, c, w) \/ HandleInvite(f, w, c)
             \/ \E w \in Topics : HandleTopic(f, c, w)
             \/ \E line \in ModeLines : HandleMode(f, c, line)
      PROVE  SafeInv'
  BY <1>7, ChannelCommandSafe
<1>. QED BY <1>2, <1>3, <1>4, <1>5, <1>6, <1>7 DEF Next

\* The relations are consistent in every reachable state.
LEMMA SafeInvariant == Spec => []SafeInv
BY InitSafe, NextSafe, TypeInvariant, PTL DEF Spec

\* joinChannel, leaveChannel, removeClientFromAllChannels, disconnectClient:
\* both sides of every relation agree after each of them, in every history.
THEOREM RelationsAgreeAlways == Spec => []RelationsAgree
<1>1. SafeInv => RelationsAgree
  BY DEF SafeInv
<1>. QED BY <1>1, SafeInvariant, PTL

\* The nickname index and the clients agree in every history.
THEOREM NickIndexExactAlways == Spec => []NickIndexExact
<1>1. SafeInv => NickIndexExact
  BY DEF SafeInv
<1>. QED BY <1>1, SafeInvariant, PTL

\* Nothing a connection was given outlives it.
THEOREM NothingOutlivesDisconnectAlways == Spec => []NothingOutlivesDisconnect
<1>1. SafeInv => NothingOutlivesDisconnect
  BY DEF SafeInv
<1>. QED BY <1>1, SafeInvariant, PTL

\* A member never keeps an invitation.
THEOREM InviteIsSpentAlways == Spec => []InviteIsSpent
<1>1. SafeInv => InviteIsSpent
  BY DEF SafeInv
<1>. QED BY <1>1, SafeInvariant, PTL

\* Steps that let nobody into a channel and give nobody operator rights.
OnlyTakes ==
  \A c \in Chan : members'[c] \subseteq members[c] /\ operators'[c] \subseteq operators[c]

LEMMA NothingTaken ==
  ASSUME UNCHANGED <<members, operators>> PROVE OnlyTakes
BY DEF OnlyTakes

\* Channel::removeMember and removeOperator, wherever they are called.
LEMMA RemoveFromTakes ==
  ASSUME NEW f, NEW from, NEW uninvite, RemoveFrom(f, from, uninvite)
  PROVE  OnlyTakes
BY DEF RemoveFrom, OnlyTakes

LEMMA DisconnectTakes ==
  ASSUME NEW f \in Fd, DisconnectClient(f)
  PROVE  OnlyTakes
<1>1. CASE f \in live
  BY <1>1, RemoveFromTakes DEF DisconnectClient, RemoveClientFromAllChannels
<1>2. CASE f \notin live
  BY <1>2, NothingTaken DEF DisconnectClient, relVars
<1> QED
  BY <1>1, <1>2

\* The handlers that run to their end in one step, or start a loop.
LEMMA CommandTakes ==
  ASSUME NEW f \in Fd,
         \/ AcceptClient(f) \/ ReplyOnly(f) \/ ConnectionLost(f) \/ HandleQuit(f)
         \/ HandleUser(f) \/ HandleJoinZero(f)
         \/ \E w \in Word : HandlePass(f, w)
         \/ \E w \in NickInputs[f] : HandleNick(f, w)
         \/ \E list \in JoinLists : HandleJoin(f, list)
         \/ \E list \in TargetLists : HandlePart(f, list) \/ HandlePrivmsg(f, list)
  PROVE  OnlyTakes
<1>1. UNCHANGED <<members, operators>>
  BY DEF AcceptClient, ReplyOnly, ConnectionLost, HandleQuit, HandleUser,
     HandleJoinZero, HandlePass, HandleNick, HandleJoin, HandlePart,
     HandlePrivmsg, StartLoop, relVars
<1> QED
  BY <1>1, NothingTaken

LEMMA ChannelCommandTakes ==
  ASSUME NEW f \in Fd, NEW c \in Chan,
         \/ \E w \in Word : HandleKick(f, c, w) \/ HandleInvite(f, w, c)
         \/ \E w \in Topics : HandleTopic(f, c, w)
         \/ \E line \in ModeLines : HandleMode(f, c, line)
  PROVE  OnlyTakes
<1>1. ASSUME NEW w \in Word, HandleKick(f, c, w)
      PROVE  OnlyTakes
  <2>1. CASE KickVerdict(f, c, w) = "kick"
    BY <1>1, <2>1, RemoveFromTakes DEF HandleKick, LeaveChannel
  <2>2. CASE KickVerdict(f, c, w) # "kick"
    BY <1>1, <2>2, NothingTaken DEF HandleKick, relVars
  <2> QED
    BY <2>1, <2>2
<1>2. CASE \/ \E w \in Word : HandleInvite(f, w, c)
           \/ \E w \in Topics : HandleTopic(f, c, w)
           \/ \E line \in ModeLines : HandleMode(f, c, line)
  BY <1>2, NothingTaken DEF HandleInvite, HandleTopic, HandleMode, relVars
<1> QED
  BY <1>1, <1>2

\* The iterations of the loops, apart from those of JOIN and of MODE o.
LEMMA LoopTakes ==
  ASSUME Loops, ~JoinNext, ~ModeO
  PROVE  OnlyTakes
<1>1. CASE PartNext \/ LeaveAllNext
  <2> DEFINE f == task.fd
             c == Head(task.todo)[1]
  <2>1. CASE c \in channels /\ f \in members[c]
    BY <1>1, <2>1, RemoveFromTakes DEF PartNext, LeaveAllNext, LeaveChannel
  <2>2. CASE ~(c \in channels /\ f \in members[c])
    BY <1>1, <2>2, NothingTaken DEF PartNext, LeaveAllNext, relVars
  <2> QED
    BY <2>1, <2>2
<1>2. CASE \/ PrivmsgNext \/ ModeSign \/ ModeRefused \/ ModeI \/ ModeT
           \/ ModeK \/ ModeL \/ ModeNotify
  BY <1>2, NothingTaken
  DEF PrivmsgNext, ModeSign, ModeRefused, ModeI, ModeT, ModeK, ModeL,
      ModeNotify, relVars
<1> QED
  BY <1>1, <1>2 DEF Loops

\* Every step takes, or is an iteration of JOIN or of MODE o.
LEMMA StepTakes ==
  ASSUME [Next]_vars, ~JoinNext, ~ModeO
  PROVE  OnlyTakes
<1>1. CASE UNCHANGED vars
  BY <1>1, NothingTaken DEF vars, relVars
<1>2. CASE ProcessPendingDisconnects
  BY <1>2, NothingTaken DEF ProcessPendingDisconnects, relVars
<1> QED
  BY <1>1, <1>2, DisconnectTakes, CommandTakes, ChannelCommandTakes, LoopTakes
  DEF Next

\* What an iteration of JOIN does to a channel that exists: it lets in the
\* client of the command alone, past the checks, with no rights.
LEMMA JoinAdmits ==
  ASSUME TypeOK, TaskInv, SafeInv, JoinNext,
         NEW c \in channels, NEW f \in members'[c] \ members[c]
  PROVE  /\ c \in inviteOnly => f \in invited[c] /\ f \notin invited'[c]
         /\ limit[c] # 0 => Cardinality(members'[c]) <= limit[c]
         /\ key[c] # NoWord => key[c] = Head(task.todo)[2]
         /\ f \notin operators'[c] /\ operators'[c] = operators[c]
<1> DEFINE who == task.fd
           d == Head(task.todo)[1]
           k == Head(task.todo)[2]
<1>1. c \in Chan /\ members \in [Chan -> SUBSET Fd] /\ operators \in [Chan -> SUBSET Fd]
      /\ invited \in [Chan -> SUBSET Fd] /\ limit \in [Chan -> Nat]
  BY DEF TypeOK
<1>2. JoinVerdict(who, d, k) \in {"create", "join"}
      /\ JoinChannel(who, d, JoinVerdict(who, d, k) = "create")
  <2>1. ~UNCHANGED members
    OBVIOUS
  <2> QED
    BY <2>1 DEF JoinNext, relVars
<1>3. members' = [members EXCEPT ![d] = @ \cup {who}]
  BY <1>2 DEF JoinChannel
<1>4. c = d /\ f = who /\ members'[c] = members[c] \cup {f} /\ f \notin members[c]
  BY <1>1, <1>3
<1>5. JoinVerdict(who, d, k) = "join"
  BY <1>2, <1>4 DEF JoinVerdict
<1>6. f \in Fd
  BY <1>1, <1>4 DEF JoinNext, At, TaskInv, TypeOK
<1>7. /\ c \in inviteOnly => f \in invited[c]
      /\ key[c] # NoWord => key[c] = k
      /\ limit[c] # 0 => ~(Cardinality(members[c]) >= limit[c])
  BY <1>1, <1>4, <1>5 DEF JoinVerdict
<1>8. invited'[c] = invited[c] \ {f} /\ operators' = operators
  BY <1>1, <1>2, <1>4, <1>5 DEF JoinChannel
<1>9. f \notin operators[c]
  BY <1>1, <1>4 DEF SafeInv, RelationsAgree
<1>10. IsFiniteSet(members[c]) /\ Cardinality(members[c]) \in Nat
       /\ Cardinality(members'[c]) = Cardinality(members[c]) + 1
  <2>1. IsFiniteSet(members[c])
    BY <1>1, FinitelyMany, FS_Subset
  <2> QED
    BY <1>4, <2>1, FS_AddElement, FS_CardinalityType
<1>11. limit[c] \in Nat
  BY <1>1
<1> QED
  BY <1>4, <1>7, <1>8, <1>9, <1>10, <1>11

-----------------------------------------------------------------------------
\* Who enters an existing channel meets the modes in force at that moment, in
\* the middle of a list of names too.
THEOREM AdmissionControlAlways == Spec => AdmissionControl
<1>1. ASSUME TypeOK, TaskInv, SafeInv, [Next]_vars,
             NEW c \in channels, NEW f \in members'[c] \ members[c]
      PROVE  /\ c \in inviteOnly => f \in invited[c] /\ f \notin invited'[c]
             /\ limit[c] # 0 => Cardinality(members'[c]) <= limit[c]
             /\ key[c] # NoWord => key[c] = Head(task.todo)[2]
             /\ f \notin operators'[c]
  <2>1. c \in Chan
    BY <1>1 DEF TypeOK
  <2>2. ~OnlyTakes
    BY <1>1, <2>1 DEF OnlyTakes
  <2>3. ~ModeO
    BY <1>1 DEF ModeO
  <2>4. JoinNext
    BY <1>1, <2>2, <2>3, StepTakes
  <2> QED
    BY <1>1, <2>4, JoinAdmits
<1> DEFINE Admission ==
      \A c \in channels : \A f \in members'[c] \ members[c] :
        /\ c \in inviteOnly => f \in invited[c] /\ f \notin invited'[c]
        /\ limit[c] # 0 => Cardinality(members'[c]) <= limit[c]
        /\ key[c] # NoWord => key[c] = Head(task.todo)[2]
        /\ f \notin operators'[c]
<1>2. TypeOK /\ TaskInv /\ SafeInv /\ [Next]_vars => [Admission]_vars
  BY <1>1
<1> QED
  BY <1>2, TypeInvariant, SafeInvariant, PTL DEF Spec, AdmissionControl

\* A channel with members and without operators gets none from the server.
THEOREM NoOperatorFromNowhereAlways == Spec => NoOperatorFromNowhere
<1>1. ASSUME TypeOK, TaskInv, SafeInv, [Next]_vars,
             NEW c \in channels \cap channels', operators[c] = {}, task.cmd # "MODE"
      PROVE  operators'[c] = {}
  <2>1. c \in Chan /\ ~ModeO
    BY <1>1 DEF TypeOK, ModeO, AtMode, At
  <2>2. CASE OnlyTakes
    BY <1>1, <2>1, <2>2 DEF OnlyTakes
  <2>3. CASE JoinNext
    <3> DEFINE who == task.fd
               d == Head(task.todo)[1]
               k == Head(task.todo)[2]
    <3>1. CASE UNCHANGED operators
      BY <1>1, <3>1
    <3>2. CASE operators' = [operators EXCEPT ![d] = @ \cup {who}]
               /\ JoinVerdict(who, d, k) = "create"
      <4>1. d # c
        BY <1>1, <2>1, <3>2 DEF JoinVerdict
      <4> QED
        BY <1>1, <2>1, <3>2, <4>1 DEF TypeOK
    <3> QED
      BY <2>3, <3>1, <3>2 DEF JoinNext, JoinChannel, relVars
  <2> QED
    BY <1>1, <2>1, <2>2, <2>3, StepTakes
<1> DEFINE Rights ==
      \A c \in channels \cap channels' :
        operators[c] = {} /\ task.cmd # "MODE" => operators'[c] = {}
<1>2. TypeOK /\ TaskInv /\ SafeInv /\ [Next]_vars => [Rights]_vars
  BY <1>1
<1> QED
  BY <1>2, TypeInvariant, SafeInvariant, PTL DEF Spec, NoOperatorFromNowhere

HIDE NamesAreDistinct

-----------------------------------------------------------------------------
(***************************************************************************)
(* A disconnection that is scheduled while processPendingDisconnects runs  *)
(* may name a descriptor that the same run closes a moment later, and      *)
(* stays in the set for the next scan.  No new connection gets that        *)
(* descriptor before the set is emptied: the run closes descriptors in     *)
(* ascending order, so a smaller one is free when the stale one is made,   *)
(* the kernel hands out the smaller one first, and a scan accepts once.    *)
(***************************************************************************)

\* The inductive invariant: below a stale entry there is a free descriptor
\* until the scan has used up its accept.
StaleIsShielded ==
  \A y \in pending :
    y \notin live \/ y \in closing =>
      fresh # {} \/ \E x \in Fd \ live : x < y

\* A step that only schedules connected clients, between two runs.
Grows == pending \subseteq pending' /\ pending' \subseteq pending \cup live

OnlySchedules ==
  /\ closing = {} /\ UNCHANGED <<live, fresh, closing>>
  /\ Grows

\* Nobody but the connected clients is sent anything.
LEMMA QueueSchedules ==
  ASSUME NEW rcpt, rcpt \subseteq live, NEW names, NEW ops,
         Queue(rcpt, names, ops)
  PROVE  Grows
BY DEF Queue, Grows

\* The members of a channel and registered clients are connected.
LEMMA MembersAreLive ==
  ASSUME TypeOK, SafeInv
  PROVE  /\ registered \subseteq live
         /\ \A c \in Chan : members[c] \subseteq live
         /\ \A f \in Fd : SharedWith(f) \subseteq live
<1>1. registered \subseteq live
  BY DEF SafeInv, NothingOutlivesDisconnect, TypeOK
<1>2. \A c \in Chan : members[c] \subseteq live
  BY <1>1 DEF SafeInv, RelationsAgree
<1>3. \A f \in Fd : joined[f] \subseteq Chan
  BY DEF TypeOK
<1>. QED BY <1>1, <1>2, <1>3 DEF SharedWith

\* The handlers that run to their end in one step.
LEMMA CommandSchedules ==
  ASSUME TypeOK, SafeInv, NEW f \in Fd,
         \/ ReplyOnly(f) \/ ConnectionLost(f) \/ HandleQuit(f)
         \/ HandleUser(f) \/ HandleJoinZero(f)
         \/ \E w \in Word : HandlePass(f, w)
         \/ \E w \in NickInputs[f] : HandleNick(f, w)
         \/ \E list \in JoinLists : HandleJoin(f, list)
         \/ \E list \in TargetLists : HandlePart(f, list) \/ HandlePrivmsg(f, list)
  PROVE  OnlySchedules
<1>1. closing = {} /\ UNCHANGED <<live, fresh, closing>>
  BY DEF ReplyOnly, ConnectionLost, HandleQuit, HandleUser, HandleJoinZero,
     HandlePass, HandleNick, HandleJoin, HandlePart, HandlePrivmsg, StartLoop,
     Idle, connVars
<1>2. CASE ReplyOnly(f)
  BY <1>1, <1>2, QueueSchedules DEF ReplyOnly, Reply, OnlySchedules
<1>3. CASE ConnectionLost(f) \/ HandleQuit(f)
  BY <1>1, <1>3 DEF ConnectionLost, HandleQuit, OnlySchedules, Grows
<1>4. ASSUME NEW p, NEW n, NEW u, TryRegisterClient(f, p, n, u), f \in live
      PROVE  Grows
  BY <1>4, QueueSchedules DEF TryRegisterClient, Reply, Grows
<1>5. CASE HandleUser(f) \/ \E w \in Word : HandlePass(f, w)
  BY <1>1, <1>4, <1>5 DEF HandleUser, HandlePass, OnlySchedules
<1>6. ASSUME NEW w \in NickInputs[f], HandleNick(f, w)
      PROVE  OnlySchedules
  <2>1. f \in live /\ {f} \cup SharedWith(f) \subseteq live
    BY <1>6, MembersAreLive DEF HandleNick
  <2>2. CASE f \in registered
    BY <1>1, <1>6, <2>1, <2>2, QueueSchedules DEF HandleNick, OnlySchedules
  <2>3. CASE f \notin registered
    BY <1>1, <1>4, <1>6, <2>1, <2>3 DEF HandleNick, OnlySchedules
  <2>. QED BY <2>2, <2>3
<1>7. CASE \/ HandleJoinZero(f)
           \/ \E list \in JoinLists : HandleJoin(f, list)
           \/ \E list \in TargetLists : HandlePart(f, list) \/ HandlePrivmsg(f, list)
  BY <1>1, <1>7 DEF HandleJoinZero, HandleJoin, HandlePart, HandlePrivmsg,
     StartLoop, OnlySchedules, Grows
<1>. QED BY <1>2, <1>3, <1>5, <1>6, <1>7

\* KICK, INVITE, TOPIC and the start of MODE.
LEMMA ChannelCommandSchedules ==
  ASSUME TypeOK, SafeInv, NEW f \in Fd, NEW c \in Chan,
         \/ \E w \in Word : HandleKick(f, c, w) \/ HandleInvite(f, w, c)
         \/ \E w \in Topics : HandleTopic(f, c, w)
         \/ \E line \in ModeLines : HandleMode(f, c, line)
  PROVE  OnlySchedules
<1>1. closing = {} /\ UNCHANGED <<live, fresh, closing>> /\ f \in registered
  BY DEF HandleKick, HandleInvite, HandleTopic, HandleMode, Idle, connVars
<1>2. {f} \subseteq live /\ members[c] \subseteq live
  BY <1>1, MembersAreLive
<1>3. ASSUME NEW rcpt, rcpt \subseteq live, Reply(rcpt)
      PROVE  Grows
  BY <1>3, QueueSchedules DEF Reply
<1>4. ASSUME NEW w \in Word, HandleKick(f, c, w)
      PROVE  OnlySchedules
  <2>1. CASE KickVerdict(f, c, w) = "kick"
    BY <1>1, <1>2, <1>4, <2>1, QueueSchedules
    DEF HandleKick, LeaveChannel, OnlySchedules
  <2>2. CASE KickVerdict(f, c, w) # "kick"
    BY <1>1, <1>2, <1>3, <1>4, <2>2 DEF HandleKick, OnlySchedules
  <2>. QED BY <2>1, <2>2
<1>5. ASSUME NEW w \in Word, HandleInvite(f, w, c)
      PROVE  OnlySchedules
  <2>1. CASE InviteVerdict(f, w, c) = "invite"
    <3>1. FindClientByNickname(w) # NoFd
      BY <2>1 DEF InviteVerdict
    <3>2. {f, FindClientByNickname(w)} \subseteq live
      BY <1>2, <3>1, FoundIsLive
    <3>. QED BY <1>1, <1>3, <1>5, <2>1, <3>2 DEF HandleInvite, OnlySchedules
  <2>2. CASE InviteVerdict(f, w, c) # "invite"
    BY <1>1, <1>2, <1>3, <1>5, <2>2 DEF HandleInvite, OnlySchedules
  <2>. QED BY <2>1, <2>2
<1>6. ASSUME NEW w \in Topics, HandleTopic(f, c, w)
      PROVE  OnlySchedules
  BY <1>1, <1>2, <1>3, <1>6 DEF HandleTopic, OnlySchedules
<1>7. ASSUME NEW line \in ModeLines, HandleMode(f, c, line)
      PROVE  OnlySchedules
  BY <1>1, <1>2, <1>3, <1>7 DEF HandleMode, OnlySchedules, Grows
<1>. QED BY <1>4, <1>5, <1>6, <1>7

\* The iterations of the loops.
LEMMA LoopSchedules ==
  ASSUME TypeOK, TaskInv, SafeInv, Loops
  PROVE  OnlySchedules
<1> DEFINE f == task.fd
           c == Head(task.todo)[1]
<1>1. task.cmd # "NONE"
  BY DEF Loops, JoinNext, PartNext, LeaveAllNext, PrivmsgNext, ModeSign,
     ModeRefused, ModeI, ModeT, ModeK, ModeL, ModeO, ModeNotify, ModeFlag,
     AtMode, At
<1>2. f \in registered /\ closing = {}
  BY <1>1 DEF TaskInv
<1>3. UNCHANGED <<live, fresh, closing>>
  BY DEF Loops, JoinNext, PartNext, LeaveAllNext, PrivmsgNext, ModeSign,
     ModeRefused, ModeI, ModeT, ModeK, ModeL, ModeO, ModeNotify, connVars
<1>4. {f} \subseteq live /\ \A d \in Chan : members[d] \subseteq live
  BY <1>2, MembersAreLive
<1>5. ASSUME NEW rcpt, rcpt \subseteq live, Reply(rcpt)
      PROVE  Grows
  BY <1>5, QueueSchedules DEF Reply
<1>6. CASE JoinNext
  <2> DEFINE verdict == JoinVerdict(f, c, Head(task.todo)[2])
  <2>1. CASE verdict \in {"create", "join"}
    <3>1. JoinChannel(f, c, verdict = "create")
      BY <1>6, <2>1 DEF JoinNext
    <3>2. c \in Chan
      BY <2>1 DEF JoinVerdict
    <3>3. members[c] \cup {f} \subseteq live
      BY <1>4, <3>2
    <3>. QED BY <1>2, <1>3, <3>1, <3>3, QueueSchedules
             DEF JoinChannel, OnlySchedules
  <2>2. CASE verdict \notin {"create", "join"}
    <3>1. UNCHANGED pending \/ Reply({f})
      BY <1>6, <2>2 DEF JoinNext
    <3>. QED BY <1>2, <1>3, <1>4, <1>5, <3>1 DEF OnlySchedules, Grows
  <2>. QED BY <2>1, <2>2
<1>7. CASE PartNext \/ LeaveAllNext
  <2>1. CASE c \in channels /\ f \in members[c]
    <3>1. LeaveChannel(f, c)
      BY <1>7, <2>1 DEF PartNext, LeaveAllNext
    <3>2. members[c] \subseteq live
      BY <1>4, <2>1 DEF TypeOK
    <3>. QED BY <1>2, <1>3, <3>1, <3>2, QueueSchedules
             DEF LeaveChannel, OnlySchedules
  <2>2. CASE ~(c \in channels /\ f \in members[c])
    <3>1. UNCHANGED pending \/ Reply({f})
      BY <1>7, <2>2 DEF PartNext, LeaveAllNext
    <3>. QED BY <1>2, <1>3, <1>4, <1>5, <3>1 DEF OnlySchedules, Grows
  <2>. QED BY <2>1, <2>2
<1>8. CASE PrivmsgNext
  <2>1. PrivmsgRecipients(f, c) \subseteq live
    <3>1. c \in channels => members[c] \ {f} \subseteq live
      BY <1>4 DEF TypeOK
    <3>2. FindClientByNickname(c) # NoFd => {FindClientByNickname(c)} \subseteq live
      BY FoundIsLive
    <3>. QED BY <1>4, <3>1, <3>2 DEF PrivmsgRecipients
  <2>. QED BY <1>2, <1>3, <1>5, <1>8, <2>1 DEF PrivmsgNext, OnlySchedules
<1>9. CASE ModeSign \/ ModeI \/ ModeT \/ ModeK \/ ModeL
  BY <1>2, <1>3, <1>9 DEF ModeSign, ModeI, ModeT, ModeK, ModeL,
     OnlySchedules, Grows
<1>10. CASE ModeRefused \/ ModeO
  <2>1. UNCHANGED pending \/ Reply({f})
    BY <1>10 DEF ModeRefused, ModeO
  <2>. QED BY <1>2, <1>3, <1>4, <1>5, <2>1 DEF OnlySchedules, Grows
<1>11. CASE ModeNotify
  <2>1. task.chan \in Chan
    BY <1>11 DEF ModeNotify, TaskInv, TypeOK
  <2>2. (IF task.changed = <<>> THEN {} ELSE members[task.chan]) \subseteq live
    BY <1>4, <2>1
  <2>. QED BY <1>2, <1>3, <1>11, <2>2, QueueSchedules DEF ModeNotify, OnlySchedules
<1>. QED BY <1>6, <1>7, <1>8, <1>9, <1>10, <1>11 DEF Loops

\* Every step is of one of five kinds.
LEMMA StepKinds ==
  ASSUME TypeOK, TaskInv, SafeInv, [Next]_vars
  PROVE  \/ OnlySchedules
         \/ UNCHANGED <<live, fresh, pending, closing>>
         \/ ProcessPendingDisconnects
         \/ \E f \in Fd : AcceptClient(f) \/ DisconnectClient(f)
<1>1. CASE UNCHANGED vars
  BY <1>1 DEF vars, connVars
<1>2. CASE Next
  BY <1>2, CommandSchedules, ChannelCommandSchedules, LoopSchedules DEF Next
<1>. QED BY <1>1, <1>2

\* Every step keeps stale entries shielded.
LEMMA NextShielded ==
  ASSUME TypeOK, TaskInv, SafeInv, StaleIsShielded, [Next]_vars
  PROVE  StaleIsShielded'
<1>1. CASE OnlySchedules
  BY <1>1 DEF OnlySchedules, Grows, StaleIsShielded
<1>2. CASE UNCHANGED <<live, fresh, pending, closing>>
  BY <1>2 DEF StaleIsShielded
<1>3. CASE ProcessPendingDisconnects
  BY <1>3 DEF ProcessPendingDisconnects, StaleIsShielded
<1>4. ASSUME NEW f \in Fd, AcceptClient(f)
      PROVE  StaleIsShielded'
  BY <1>4 DEF AcceptClient, StaleIsShielded
<1>5. ASSUME NEW f \in Fd, DisconnectClient(f)
      PROVE  StaleIsShielded'
  <2>1. CASE f \notin live
    BY <1>5, <2>1 DEF DisconnectClient, StaleIsShielded
  <2>2. CASE f \in live
    <3>1. /\ closing' = closing \ {f} /\ f \in closing
          /\ \A g \in closing : f <= g
          /\ live' = live \ {f} /\ fresh' = fresh
          /\ pending' \subseteq pending \cup SharedWith(f)
      BY <1>5, <2>2 DEF DisconnectClient
    <3>2. SharedWith(f) \subseteq live \ {f}
      BY MembersAreLive DEF SharedWith
    <3> SUFFICES ASSUME NEW y \in pending', y \notin live' \/ y \in closing',
                        fresh' = {}
                 PROVE  \E x \in Fd \ live' : x < y
      BY DEF StaleIsShielded
    <3>3. CASE y \in pending /\ (y \notin live \/ y \in closing)
      BY <3>1, <3>3 DEF StaleIsShielded
    <3>4. CASE ~(y \in pending /\ (y \notin live \/ y \in closing))
      <4>1. y \in closing /\ y # f
        BY <3>1, <3>2, <3>4
      <4>2. y \in Fd
        BY <4>1 DEF TypeOK
      <4>3. f < y
        BY <3>1, <4>1, <4>2
      <4>. QED BY <3>1, <4>3
    <3>. QED BY <3>3, <3>4
  <2>. QED BY <2>1, <2>2
<1>. QED BY <1>1, <1>2, <1>3, <1>4, <1>5, StepKinds

\* A new connection never starts with a disconnection scheduled for the
\* previous owner of its descriptor, in any history.
THEOREM NoInheritedDisconnectAlways == Spec => NoInheritedDisconnect
<1>1. Init => StaleIsShielded
  BY DEF Init, StaleIsShielded
<1>2. TypeOK /\ TaskInv /\ SafeInv /\ StaleIsShielded /\ [Next]_vars
        => StaleIsShielded'
  BY NextShielded
<1>3. TypeOK /\ TaskInv /\ SafeInv /\ StaleIsShielded /\ [Next]_vars
        => [\A f \in live' \ live : f \notin pending']_vars
  <2> SUFFICES ASSUME TypeOK, TaskInv, SafeInv, StaleIsShielded, [Next]_vars,
                      NEW f \in live' \ live
               PROVE  f \notin pending'
    OBVIOUS
  <2>1. PICK g \in Fd : AcceptClient(g)
    BY StepKinds DEF OnlySchedules, ProcessPendingDisconnects, DisconnectClient,
       connVars
  <2>2. f = g /\ pending' = pending /\ fresh = {} /\ \A x \in Fd \ live : g <= x
    BY <2>1 DEF AcceptClient
  <2>3. ASSUME f \in pending
        PROVE  FALSE
    <3>1. PICK x \in Fd \ live : x < g
      BY <2>2, <2>3 DEF StaleIsShielded
    <3>. QED BY <2>2, <3>1
  <2>. QED BY <2>2, <2>3
<1>. QED
  BY <1>1, <1>2, <1>3, TypeInvariant, SafeInvariant, PTL
  DEF Spec, NoInheritedDisconnect

\* The handlers, whatever they do, treat connections as DeferredClose says:
\* they only schedule connected clients, and scheduled ones are closed after
\* the scan, in order.
THEOREM DefersCloseAlways == Spec => ImplementsDeferredClose
<1>1. Init => Lifecycle!Init
  BY DEF Init, Lifecycle!Init
<1>2. ASSUME TypeOK, TaskInv, SafeInv, [Next]_vars
      PROVE  [Lifecycle!Next]_(Lifecycle!lifeVars)
  <2>1. CASE OnlySchedules
    BY <2>1 DEF OnlySchedules, Grows, Lifecycle!Next, Lifecycle!Schedule
  <2>2. CASE UNCHANGED <<live, fresh, pending, closing>>
    BY <2>2 DEF Lifecycle!lifeVars
  <2>3. CASE ProcessPendingDisconnects
    BY <2>3 DEF ProcessPendingDisconnects, Idle, Lifecycle!Next, Lifecycle!EndScan
  <2>4. ASSUME NEW f \in Fd, AcceptClient(f)
        PROVE  Lifecycle!Next
    BY <2>4 DEF AcceptClient, Idle, Lifecycle!Next, Lifecycle!Accept
  <2>5. ASSUME NEW f \in Fd, DisconnectClient(f)
        PROVE  Lifecycle!Next
    <3>1. CASE f \in live
      <4>1. /\ f \in closing /\ \A g \in closing : f <= g
            /\ closing' = closing \ {f} /\ live' = live \ {f} /\ fresh' = fresh
            /\ pending \subseteq pending'
            /\ pending' \subseteq pending \cup SharedWith(f)
        BY <2>5, <3>1 DEF DisconnectClient
      <4>2. SharedWith(f) \subseteq live \ {f}
        BY <1>2, MembersAreLive DEF SharedWith
      <4>3. Lifecycle!Close(f)
        BY <3>1, <4>1, <4>2 DEF Lifecycle!Close
      <4>. QED BY <4>3 DEF Lifecycle!Next
    <3>2. CASE f \notin live
      <4>1. Lifecycle!Close(f)
        BY <2>5, <3>2 DEF DisconnectClient, Lifecycle!Close
      <4>. QED BY <4>1 DEF Lifecycle!Next
    <3>. QED BY <3>1, <3>2
  <2>. QED BY <1>2, <2>1, <2>2, <2>3, <2>4, <2>5, StepKinds
<1>. QED
  BY <1>1, <1>2, TypeInvariant, SafeInvariant, PTL
  DEF Spec, ImplementsDeferredClose, Lifecycle!Spec

-----------------------------------------------------------------------------
(***************************************************************************)
(* Rooms of people.  Descriptors become nicknames: that no two clients use *)
(* the same one makes every operation on descriptors one on names.         *)
(***************************************************************************)

\* The names n gives to the members of S.
Of(n, S) == {n[f] : f \in S}

LEMMA OfAdded ==
  ASSUME NEW n, NEW S, NEW f
  PROVE  Of(n, S \cup {f}) = Of(n, S) \cup {n[f]}
BY DEF Of

LEMMA OfSame ==
  ASSUME NEW n, NEW m, NEW S, \A f \in S : n[f] = m[f]
  PROVE  Of(n, S) = Of(m, S)
BY DEF Of

\* What users see, in terms of Of, in this state and the next.
LEMMA Views ==
  /\ NamesInUse = Of(nick, Named)
  /\ Roster = [c \in Chan |-> Of(nick, members[c])]
  /\ Chairs = [c \in Chan |-> Of(nick, operators[c])]
  /\ Guests = [c \in Chan |-> Of(nick, invited[c])]
BY DEF NamesInUse, Roster, Chairs, Guests, Nicks, Of

LEMMA ViewsNext ==
  /\ NamesInUse' = Of(nick', Named')
  /\ Roster' = [c \in Chan |-> Of(nick', members'[c])]
  /\ Chairs' = [c \in Chan |-> Of(nick', operators'[c])]
  /\ Guests' = [c \in Chan |-> Of(nick', invited'[c])]
BY DEF NamesInUse, Roster, Chairs, Guests, Nicks, Of

\* Who is registered or invited has a nickname, and only a channel that exists
\* is closed to others.
NamedInv ==
  /\ registered \subseteq Named
  /\ \A c \in Chan : invited[c] \subseteq Named
  /\ inviteOnly \subseteq channels

RoomInv == TypeOK /\ TaskInv /\ SafeInv /\ NamedInv

\* Named clients have different nicknames in every spelling, and everybody in
\* a room is one of them.
LEMMA NamesAreUnique ==
  ASSUME RoomInv
  PROVE  /\ Named \subseteq Fd /\ Named \subseteq live
         /\ \A f \in Named : nick[f] \in Word /\ nickToFd[Fold[nick[f]]] = f
         /\ \A f, g \in Named : nick[f] = nick[g] => f = g
         /\ \A c \in Chan : /\ members[c] \subseteq Named
                            /\ operators[c] \subseteq Named
                            /\ invited[c] \subseteq Named
<1>1. Named \subseteq Fd /\ Named \subseteq live
  BY DEF Named, RoomInv, TypeOK
<1>2. \A f \in Named : nick[f] \in Word
  BY <1>1 DEF Named, RoomInv, TypeOK
<1>3. \A f \in Named : nickToFd[Fold[nick[f]]] = f
  <2> SUFFICES ASSUME NEW f \in Named PROVE nickToFd[Fold[nick[f]]] = f
    OBVIOUS
  <2>1. Fold[nick[f]] \in Word
    BY <1>2, TextFunctions
  <2> QED
    BY <1>1, <2>1 DEF Named, RoomInv, SafeInv, NickIndexExact
<1>4. \A c \in Chan : /\ members[c] \subseteq Named
                      /\ operators[c] \subseteq Named
                      /\ invited[c] \subseteq Named
  BY DEF RoomInv, NamedInv, SafeInv, RelationsAgree
<1> QED
  BY <1>1, <1>2, <1>3, <1>4

LEMMA OfRemoved ==
  ASSUME RoomInv, NEW f \in Named, NEW S, S \subseteq Named
  PROVE  /\ Of(nick, S \ {f}) = Of(nick, S) \ {nick[f]}
         /\ nick[f] \in Of(nick, S) <=> f \in S
<1>1. \A g \in Named : nick[g] = nick[f] => g = f
  BY NamesAreUnique
<1> QED
  BY <1>1 DEF Of

\* A step that users do not see.
Unseen ==
  /\ UNCHANGED <<nick, channels, members, operators, invited, inviteOnly>>
  /\ Named' = Named /\ registered' \subseteq Named

LEMMA UnseenMaps ==
  ASSUME RoomInv, Unseen
  PROVE  NamedInv' /\ UNCHANGED Rooms!roomVars
<1>1. UNCHANGED <<NamesInUse, Roster, Chairs, Guests>>
  BY Views, ViewsNext DEF Unseen
<1> QED
  BY <1>1 DEF Unseen, Rooms!roomVars, RoomInv, NamedInv

LEMMA SameConnections ==
  ASSUME RoomInv, UNCHANGED <<live, nick>>
  PROVE  Named' = Named
BY DEF Named

\* Who enters is in the room, and presides if nobody was there.
LEMMA EnterMaps ==
  ASSUME RoomInv, NEW f \in registered, NEW c \in Chan, f \notin members[c],
         NEW created \in BOOLEAN, created <=> c \notin channels,
         ~created /\ c \in inviteOnly => f \in invited[c],
         JoinChannel(f, c, created), UNCHANGED <<connVars, identVars>>
  PROVE  NamedInv' /\ Rooms!Enter(nick[f], c)
<1> DEFINE n == nick[f]
<1>1. /\ channels' = channels \cup {c}
      /\ members' = [members EXCEPT ![c] = @ \cup {f}]
      /\ operators' = IF created THEN [operators EXCEPT ![c] = @ \cup {f}] ELSE operators
      /\ invited' = [invited EXCEPT ![c] = @ \ {f}]
      /\ UNCHANGED inviteOnly
  BY DEF JoinChannel
<1>2. UNCHANGED <<live, nick, registered>>
  BY DEF connVars, identVars
<1>3. Named' = Named /\ f \in Named
  BY <1>2, SameConnections DEF RoomInv, NamedInv
<1>4. /\ members \in [Chan -> SUBSET Fd] /\ operators \in [Chan -> SUBSET Fd]
      /\ invited \in [Chan -> SUBSET Fd]
  BY DEF RoomInv, TypeOK
<1>5. \A d \in Chan : /\ Of(nick, members'[d]) =
                           IF d = c THEN Of(nick, members[d]) \cup {n} ELSE Of(nick, members[d])
                      /\ Of(nick, invited'[d]) =
                           IF d = c THEN Of(nick, invited[d]) \ {n} ELSE Of(nick, invited[d])
  <2>1. Of(nick, members[c] \cup {f}) = Of(nick, members[c]) \cup {n}
    BY OfAdded
  <2>2. Of(nick, invited[c] \ {f}) = Of(nick, invited[c]) \ {n}
    BY <1>3, NamesAreUnique, OfRemoved
  <2> QED
    BY <1>1, <1>4, <2>1, <2>2
<1>6. created <=> members[c] = {}
  BY DEF RoomInv, SafeInv, RelationsAgree
<1>7. n \in Of(nick, Named) \ Of(nick, members[c])
  BY <1>3, NamesAreUnique, OfRemoved
<1>8. c \in inviteOnly => n \in Of(nick, invited[c])
  <2>1. c \in inviteOnly => c \in channels
    BY DEF RoomInv, NamedInv
  <2>2. f \in invited[c] => n \in Of(nick, invited[c])
    BY <1>3, NamesAreUnique, OfRemoved
  <2> QED
    BY <2>1, <2>2
<1>9. \A d \in Chan : Of(nick, operators'[d]) =
                        IF d = c /\ members[c] = {} THEN {n} ELSE Of(nick, operators[d])
  <2>1. members[c] = {} => operators[c] = {}
    BY DEF RoomInv, SafeInv, RelationsAgree
  <2>2. Of(nick, {} \cup {f}) = {n}
    BY DEF Of
  <2> QED
    BY <1>1, <1>4, <1>6, <2>1, <2>2
<1>10. Of(nick, members[c]) = {} <=> members[c] = {}
  BY DEF Of
<1>11. Rooms!Enter(n, c)
  <2>1. n \in NamesInUse \ Roster[c] /\ (c \in inviteOnly => n \in Guests[c])
    BY <1>7, <1>8, Views
  <2>2. UNCHANGED <<NamesInUse, inviteOnly>>
    BY <1>1, <1>2, <1>3, Views, ViewsNext
  <2>3. Roster' = [Roster EXCEPT ![c] = @ \cup {n}] /\ Guests' = [Guests EXCEPT ![c] = @ \ {n}]
    BY <1>2, <1>5, Views, ViewsNext
  <2>4. Chairs' = IF Roster[c] = {} THEN [Chairs EXCEPT ![c] = {n}] ELSE Chairs
    BY <1>2, <1>9, <1>10, Views, ViewsNext
  <2> QED
    BY <2>1, <2>2, <2>3, <2>4 DEF Rooms!Enter
<1>12. NamedInv'
  <2>1. \A d \in Chan : invited'[d] \subseteq invited[d]
    BY <1>1, <1>4
  <2> QED
    BY <1>1, <1>2, <1>3, <2>1 DEF RoomInv, NamedInv
<1> QED
  BY <1>11, <1>12

\* Who goes is out of the rooms and of the invitations, and what he leaves
\* empty forgets everything.
LEMMA OutMaps ==
  ASSUME RoomInv, NEW f \in Named, NEW from \in SUBSET joined[f], NEW uninvite,
         RemoveFrom(f, from, uninvite),
         \A c \in Chan : \A g \in members'[c] \cup operators'[c] \cup invited'[c] :
           nick'[g] = nick[g]
  PROVE  /\ Rooms!Out(nick[f], from, uninvite)
         /\ inviteOnly' \subseteq channels'
         /\ \A c \in Chan : invited'[c] \subseteq invited[c]
<1> DEFINE n == nick[f]
           erased == Erased(f, from)
<1>1. /\ channels' = channels \ erased
      /\ members' = [c \in Chan |-> IF c \in from THEN members[c] \ {f} ELSE members[c]]
      /\ operators' = [c \in Chan |-> IF c \in from THEN operators[c] \ {f} ELSE operators[c]]
      /\ invited' = [c \in Chan |-> IF c \in erased THEN {}
                                    ELSE IF c \in uninvite THEN invited[c] \ {f}
                                    ELSE invited[c]]
      /\ inviteOnly' = inviteOnly \ erased
  BY DEF RemoveFrom
<1>2. from \subseteq Chan /\ \A c \in from : f \in members[c]
  BY NamesAreUnique DEF RoomInv, TypeOK, SafeInv, RelationsAgree
<1> DEFINE emptied == {r \in from : Roster[r] \subseteq {n}}
<1>3. emptied = erased
  <2>1. ASSUME NEW c \in from
        PROVE  Of(nick, members[c]) \subseteq {n} <=> members[c] = {f}
    <3>1. f \in members[c] /\ members[c] \subseteq Named
      BY <1>2, NamesAreUnique
    <3>2. ASSUME Of(nick, members[c]) \subseteq {n}
          PROVE  members[c] = {f}
      <4>1. ASSUME NEW g \in members[c] PROVE g = f
        <5>1. nick[g] \in Of(nick, members[c])
          BY DEF Of
        <5> QED
          BY <3>1, <3>2, <5>1, NamesAreUnique
      <4> QED
        BY <3>1, <4>1
    <3>3. members[c] = {f} => Of(nick, members[c]) \subseteq {n}
      BY DEF Of
    <3> QED
      BY <3>2, <3>3
  <2> QED
    BY <1>2, <2>1, Views DEF Erased
<1>4. ASSUME NEW c \in Chan
      PROVE  /\ Of(nick', members'[c]) = Of(nick, members'[c])
             /\ Of(nick', operators'[c]) = Of(nick, operators'[c])
             /\ Of(nick', invited'[c]) = Of(nick, invited'[c])
  BY OfSame
<1>5. ASSUME NEW c \in Chan
      PROVE  /\ Of(nick, members[c] \ {f}) = Of(nick, members[c]) \ {n}
             /\ Of(nick, operators[c] \ {f}) = Of(nick, operators[c]) \ {n}
             /\ Of(nick, invited[c] \ {f}) = Of(nick, invited[c]) \ {n}
  BY NamesAreUnique, OfRemoved
<1>6. Of(nick, {}) = {}
  BY DEF Of
<1> HIDE DEF n, erased, emptied
<1>7. Roster' = [r \in Chan |-> IF r \in from THEN Roster[r] \ {n} ELSE Roster[r]]
  BY <1>1, <1>4, <1>5, Views, ViewsNext
<1>8. Chairs' = [r \in Chan |-> IF r \in from THEN Chairs[r] \ {n} ELSE Chairs[r]]
  BY <1>1, <1>4, <1>5, Views, ViewsNext
<1>9. Guests' = [r \in Chan |-> IF r \in emptied THEN {}
                                ELSE IF r \in uninvite THEN Guests[r] \ {n}
                                ELSE Guests[r]]
  BY <1>1, <1>3, <1>4, <1>5, <1>6, Views, ViewsNext
<1>10. inviteOnly' = inviteOnly \ emptied
  BY <1>1, <1>3
<1>11. Rooms!Out(n, from, uninvite)
  BY <1>7, <1>8, <1>9, <1>10 DEF Rooms!Out, emptied
<1>12. inviteOnly' \subseteq channels' /\ \A c \in Chan : invited'[c] \subseteq invited[c]
  BY <1>1 DEF RoomInv, NamedInv
<1> QED
  BY <1>11, <1>12 DEF n

LEMMA LeaveMaps ==
  ASSUME RoomInv, NEW f \in Fd, NEW c \in Chan, f \in members[c],
         LeaveChannel(f, c), UNCHANGED <<connVars, identVars>>
  PROVE  NamedInv' /\ Rooms!Leave(nick[f], c)
<1>1. RemoveFrom(f, {c}, {c}) /\ UNCHANGED <<live, nick, registered>>
  BY DEF LeaveChannel, connVars, identVars
<1>2. f \in Named /\ {c} \in SUBSET joined[f] /\ Named' = Named
  BY ZenonT(60), <1>1, NamesAreUnique, SameConnections DEF RoomInv, SafeInv, RelationsAgree
<1>3. /\ Rooms!Out(nick[f], {c}, {c}) /\ inviteOnly' \subseteq channels'
      /\ \A d \in Chan : invited'[d] \subseteq invited[d]
  BY <1>1, <1>2, OutMaps
<1>4. nick[f] \in Roster[c] /\ UNCHANGED NamesInUse
  BY <1>1, <1>2, NamesAreUnique, OfRemoved, Views, ViewsNext
<1>5. NamedInv'
  BY <1>1, <1>2, <1>3 DEF RoomInv, NamedInv
<1> QED
  BY <1>3, <1>4, <1>5 DEF Rooms!Leave

\* disconnectClient: somebody leaves all rooms at once, or a connection that
\* never had a name ends unseen.
LEMMA DisconnectMaps ==
  ASSUME RoomInv, NEW f \in Fd, DisconnectClient(f)
  PROVE  /\ NamedInv'
         /\ UNCHANGED Rooms!roomVars \/ Rooms!Depart(nick[f])
<1>1. CASE f \notin live
  <2>1. UNCHANGED <<live, nick, channels, members, operators, invited, inviteOnly, registered>>
    BY <1>1 DEF DisconnectClient, identVars, relVars, modeVars
  <2>2. Unseen
    BY <2>1, SameConnections DEF Unseen, RoomInv, NamedInv
  <2> QED
    BY <2>2, UnseenMaps
<1>2. CASE f \in live
  <2>1. /\ RemoveFrom(f, joined[f], Chan)
        /\ live' = live \ {f} /\ nick' = [nick EXCEPT ![f] = NoWord]
        /\ registered' = registered \ {f}
    BY <1>2 DEF DisconnectClient, RemoveClientFromAllChannels
  <2>2. Named' = Named \ {f}
    BY <2>1 DEF Named, RoomInv, TypeOK
  <2>3. CASE f \in Named
    <3>1. \A c \in Chan : f \notin members'[c] \cup operators'[c] \cup invited'[c]
      <4>1. ASSUME NEW c \in Chan PROVE f \notin members'[c] \cup operators'[c] \cup invited'[c]
        <5>1. /\ members'[c] = IF c \in joined[f] THEN members[c] \ {f} ELSE members[c]
              /\ operators'[c] = IF c \in joined[f] THEN operators[c] \ {f} ELSE operators[c]
              /\ f \notin invited'[c]
          BY <2>1 DEF RemoveFrom
        <5>2. f \in members[c] <=> c \in joined[f]
          BY DEF RoomInv, SafeInv, RelationsAgree
        <5>3. operators[c] \subseteq members[c]
          BY DEF RoomInv, SafeInv, RelationsAgree
        <5> QED
          BY <5>1, <5>2, <5>3
      <4> QED
        BY <4>1
    <3>2. \A c \in Chan : \A g \in members'[c] \cup operators'[c] \cup invited'[c] :
            nick'[g] = nick[g]
      <4>1. \A c \in Chan : members'[c] \cup operators'[c] \cup invited'[c] \subseteq Fd
        <5>1. ASSUME NEW c \in Chan
              PROVE  members'[c] \cup operators'[c] \cup invited'[c] \subseteq Fd
          <6>1. /\ members'[c] \subseteq members[c] /\ operators'[c] \subseteq operators[c]
                /\ invited'[c] \subseteq invited[c]
            BY <2>1 DEF RemoveFrom
          <6> QED
            BY <6>1 DEF RoomInv, TypeOK
        <5> QED
          BY <5>1
      <4> QED
        BY <2>1, <3>1, <4>1 DEF RoomInv, TypeOK
    <3>3. /\ Rooms!Out(nick[f], joined[f], Chan) /\ inviteOnly' \subseteq channels'
          /\ \A d \in Chan : invited'[d] \subseteq invited[d]
      BY <2>1, <2>3, <3>2, OutMaps
    <3>4. joined[f] = {r \in Chan : nick[f] \in Roster[r]}
      <4>1. \A r \in Chan : nick[f] \in Roster[r] <=> f \in members[r]
        BY <2>3, NamesAreUnique, OfRemoved, Views
      <4> QED
        BY <4>1 DEF RoomInv, SafeInv, RelationsAgree, TypeOK
    <3>5. nick[f] \in NamesInUse /\ NamesInUse' = NamesInUse \ {nick[f]}
      <4>1. \A g \in Named \ {f} : nick'[g] = nick[g]
        BY <2>1, NamesAreUnique DEF RoomInv, TypeOK
      <4>2. Of(nick', Named') = Of(nick, Named \ {f})
        BY <2>2, <4>1, OfSame
      <4> QED
        BY <2>3, <4>2, OfRemoved, Views, ViewsNext
    <3>6. NamedInv'
      BY <2>1, <2>2, <3>1, <3>3 DEF RoomInv, NamedInv
    <3> QED
      BY <3>3, <3>4, <3>5, <3>6 DEF Rooms!Depart
  <2>4. CASE f \notin Named
    <3>1. /\ joined[f] = {} /\ nick[f] = NoWord
          /\ \A c \in Chan : f \notin invited[c]
      BY <1>2, <2>4, NamesAreUnique DEF Named, RoomInv, SafeInv, RelationsAgree, TypeOK
    <3>2. /\ channels' = channels /\ inviteOnly' = inviteOnly
          /\ members' = members /\ operators' = operators /\ invited' = invited
      <4>1. Erased(f, {}) = {}
        BY DEF Erased
      <4>2. \A c \in Chan : invited[c] \ {f} = invited[c]
        BY <3>1
      <4> QED
        BY <2>1, <3>1, <4>1, <4>2 DEF RemoveFrom, RoomInv, TypeOK
    <3>3. nick' = nick /\ Named' = Named
      BY <2>1, <2>2, <2>4, <3>1 DEF RoomInv, TypeOK
    <3>4. Unseen
      BY <2>1, <3>2, <3>3 DEF Unseen, RoomInv, NamedInv
    <3> QED
      BY <3>4, UnseenMaps
  <2> QED
    BY <2>3, <2>4
<1> QED
  BY <1>1, <1>2

\* handleNick: a name is taken, or changes in all rooms at once.
LEMMA NickMaps ==
  ASSUME RoomInv, NEW f \in Fd, NEW w \in Word, HandleNick(f, w)
  PROVE  /\ NamedInv'
         /\ Rooms!Take(w) \/ Rooms!Rename(nick[f], w)
<1>1. /\ f \in live /\ UNCHANGED <<live, channels, members, operators, invited, inviteOnly>>
      /\ nickToFd[Fold[w]] \in {NoFd, f}
      /\ nick' = [nick EXCEPT ![f] = w]
      /\ registered' \subseteq registered \cup {f}
  BY DEF HandleNick, IsNicknameAvailable, TryRegisterClient, connVars, relVars, modeVars
<1>2. w # NoWord /\ Named' = Named \cup {f}
  BY <1>1, NamesAreDistinct DEF Named, RoomInv, TypeOK
<1>3. NamedInv'
  BY <1>1, <1>2 DEF RoomInv, NamedInv
<1>4. nick'[f] = w /\ \A g \in Named \ {f} : nick'[g] = nick[g]
  BY <1>1, NamesAreUnique DEF RoomInv, TypeOK
<1>5. \A g \in Named \ {f} : Fold[nick[g]] # Fold[w]
  <2>1. \A g \in Named : nickToFd[Fold[nick[g]]] = g /\ g \in Fd
    BY NamesAreUnique
  <2> QED
    BY <1>1, <2>1, DescriptorsAreOrdered
<1>6. \A S \in SUBSET (Named \ {f}) : Of(nick', S) = Of(nick, S)
  BY <1>4, OfSame
<1>7. CASE f \notin Named
  <2>1. \A c \in Chan : /\ members[c] \in SUBSET (Named \ {f})
                        /\ operators[c] \in SUBSET (Named \ {f})
                        /\ invited[c] \in SUBSET (Named \ {f})
    BY <1>7, NamesAreUnique
  <2>2. UNCHANGED <<Roster, Chairs, Guests>>
    BY <1>1, <1>6, <2>1, Views, ViewsNext
  <2>3. NamesInUse' = NamesInUse \cup {w}
    <3>1. Of(nick', Named \cup {f}) = Of(nick', Named) \cup {nick'[f]}
      BY OfAdded
    <3>2. Of(nick', Named) = Of(nick, Named)
      BY <1>6, <1>7
    <3> QED
      BY <1>2, <1>4, <3>1, <3>2, Views, ViewsNext
  <2>4. Rooms!Free(w, {})
    BY <1>5, <1>7, Views DEF Rooms!Free, Of
  <2> QED
    BY <1>1, <1>3, <2>2, <2>3, <2>4 DEF Rooms!Take
<1>8. CASE f \in Named
  <2> DEFINE n == nick[f]
  <2>1. ASSUME NEW S, S \subseteq Named
        PROVE  Of(nick', S) = Rooms!Swap(Of(nick, S), n, w)
    <3>1. n \in Of(nick, S) <=> f \in S
      BY <1>8, <2>1, OfRemoved
    <3>2. CASE f \in S
      <4>1. S = (S \ {f}) \cup {f} /\ S \ {f} \in SUBSET (Named \ {f})
        BY <2>1, <3>2
      <4>2. Of(nick', S) = Of(nick', S \ {f}) \cup {w}
        <5>1. Of(nick', (S \ {f}) \cup {f}) = Of(nick', S \ {f}) \cup {nick'[f]}
          BY OfAdded
        <5> QED
          BY <1>4, <4>1, <5>1
      <4>3. Of(nick', S \ {f}) = Of(nick, S) \ {n}
        BY <1>6, <1>8, <2>1, <4>1, OfRemoved
      <4> QED
        BY <3>1, <3>2, <4>2, <4>3 DEF Rooms!Swap
    <3>3. CASE f \notin S
      <4>1. S \in SUBSET (Named \ {f})
        BY <2>1, <3>3
      <4> QED
        BY <1>6, <3>1, <3>3, <4>1 DEF Rooms!Swap
    <3> QED
      BY <3>2, <3>3
  <2>2. NamesInUse' = Rooms!Swap(NamesInUse, n, w)
    BY <1>2, <1>8, <2>1, Views, ViewsNext
  <2>3. \A c \in Chan : /\ Of(nick', members[c]) = Rooms!Swap(Of(nick, members[c]), n, w)
                        /\ Of(nick', operators[c]) = Rooms!Swap(Of(nick, operators[c]), n, w)
                        /\ Of(nick', invited[c]) = Rooms!Swap(Of(nick, invited[c]), n, w)
    BY <2>1, NamesAreUnique
  <2>4. /\ Roster' = [r \in Chan |-> Rooms!Swap(Roster[r], n, w)]
        /\ Chairs' = [r \in Chan |-> Rooms!Swap(Chairs[r], n, w)]
        /\ Guests' = [r \in Chan |-> Rooms!Swap(Guests[r], n, w)]
    BY <1>1, <2>3, Views, ViewsNext
  <2>5. n \in NamesInUse
    BY <1>8, OfRemoved, Views
  <2>6. Rooms!Free(w, {n})
    <3>1. \A m \in NamesInUse \ {n} : \E g \in Named \ {f} : m = nick[g]
      BY Views DEF Of
    <3> QED
      BY <1>5, <3>1 DEF Rooms!Free
  <2> QED
    BY <1>1, <1>3, <2>2, <2>4, <2>5, <2>6 DEF Rooms!Rename
<1> QED
  BY <1>7, <1>8

\* The commands that run to their end without a change that users see.
LEMMA CommandsUnseen ==
  ASSUME RoomInv, NEW f \in Fd,
         \/ AcceptClient(f) \/ ReplyOnly(f) \/ ConnectionLost(f) \/ HandleQuit(f)
         \/ HandleUser(f) \/ HandleJoinZero(f)
         \/ \E w \in Word : HandlePass(f, w)
         \/ \E list \in JoinLists : HandleJoin(f, list)
         \/ \E list \in TargetLists : HandlePart(f, list) \/ HandlePrivmsg(f, list)
         \/ \E c \in Chan, w \in Topics : HandleTopic(f, c, w)
         \/ \E c \in Chan, line \in ModeLines : HandleMode(f, c, line)
  PROVE  Unseen
<1>1. CASE AcceptClient(f)
  <2>1. /\ live' = live \cup {f} /\ f \notin live
        /\ UNCHANGED <<nick, registered, channels, members, operators, invited, inviteOnly>>
    BY <1>1 DEF AcceptClient, identVars, relVars, modeVars
  <2>2. nick[f] = NoWord
    BY <2>1 DEF RoomInv, SafeInv, NothingOutlivesDisconnect
  <2>3. Named' = Named
    BY <2>1, <2>2 DEF Named
  <2> QED
    BY <2>1, <2>3 DEF Unseen, RoomInv, NamedInv
<1>2. CASE HandleUser(f) \/ \E w \in Word : HandlePass(f, w)
  <2>1. /\ UNCHANGED <<live, nick, channels, members, operators, invited, inviteOnly>>
        /\ f \in live
        /\ registered' = registered \/ (registered' = registered \cup {f} /\ nick[f] # NoWord)
    BY <1>2 DEF HandleUser, HandlePass, TryRegisterClient, connVars, relVars, modeVars
  <2>2. Named' = Named
    BY <2>1, SameConnections
  <2>3. registered' \subseteq Named
    BY <2>1 DEF RoomInv, NamedInv, Named
  <2> QED
    BY <2>1, <2>2, <2>3 DEF Unseen
<1>3. CASE ~(AcceptClient(f) \/ HandleUser(f) \/ \E w \in Word : HandlePass(f, w))
  <2>1. UNCHANGED <<live, nick, registered, channels, members, operators, invited, inviteOnly>>
    BY <1>3 DEF ReplyOnly, ConnectionLost, HandleQuit, HandleJoinZero,
       HandleJoin, HandlePart, HandlePrivmsg, StartLoop, HandleTopic, HandleMode,
       connVars, identVars, relVars, modeVars
  <2> QED
    BY <2>1, SameConnections DEF Unseen, RoomInv, NamedInv
<1> QED
  BY <1>1, <1>2, <1>3

\* Nothing but what the steps of KICK, INVITE and the loops touch.
LEMMA RefusedUnseen ==
  ASSUME RoomInv, UNCHANGED <<connVars, identVars, relVars, inviteOnly>>
  PROVE  Unseen
BY SameConnections DEF Unseen, RoomInv, NamedInv, connVars, identVars, relVars

LEMMA KickMaps ==
  ASSUME RoomInv, NEW f \in Fd, NEW c \in Chan, NEW w \in Word, HandleKick(f, c, w)
  PROVE  NamedInv' /\ [Rooms!Next]_(Rooms!roomVars)
<1> DEFINE t == FindClientByNickname(w)
<1>1. CASE KickVerdict(f, c, w) = "kick"
  <2>1. t \in members[c] /\ t \in Fd
    BY <1>1 DEF KickVerdict, RoomInv, TypeOK
  <2>2. NamedInv' /\ Rooms!Leave(nick[t], c)
    BY <1>1, <2>1, LeaveMaps DEF HandleKick
  <2>3. nick[t] \in Word
    BY <2>1, NamesAreUnique
  <2> QED
    BY <2>2, <2>3 DEF Rooms!Next
<1>2. CASE KickVerdict(f, c, w) # "kick"
  <2>1. Unseen
    BY <1>2, RefusedUnseen DEF HandleKick, modeVars
  <2> QED
    BY <2>1, UnseenMaps
<1> QED
  BY <1>1, <1>2

LEMMA InviteMaps ==
  ASSUME RoomInv, NEW f \in Fd, NEW c \in Chan, NEW w \in Word, HandleInvite(f, w, c)
  PROVE  NamedInv' /\ [Rooms!Next]_(Rooms!roomVars)
<1> DEFINE t == FindClientByNickname(w)
<1>1. UNCHANGED <<live, nick, registered, channels, members, operators, inviteOnly>>
  BY DEF HandleInvite, connVars, identVars, modeVars
<1>2. Named' = Named
  BY <1>1, SameConnections
<1>3. CASE InviteVerdict(f, w, c) = "invite"
  <2>1. /\ t # NoFd /\ t \notin members[c] /\ f \in operators[c]
        /\ invited' = [invited EXCEPT ![c] = @ \cup {t}]
    BY <1>3 DEF InviteVerdict, HandleInvite
  <2>2. t \in Named
    <3>1. t \in live /\ t \in Fd
      BY <2>1, FoundIsLive DEF RoomInv, TypeOK
    <3>2. t = nickToFd[Fold[w]] /\ Fold[w] \in Word
      BY TextFunctions DEF FindClientByNickname
    <3>3. nick[t] # NoWord
      BY <3>1, <3>2 DEF RoomInv, SafeInv, NickIndexExact
    <3> QED
      BY <3>1, <3>3 DEF Named
  <2> HIDE DEF t
  <2>3. invited \in [Chan -> SUBSET Fd]
    BY DEF RoomInv, TypeOK
  <2>4. nick[t] \in NamesInUse \ Roster[c] /\ nick[t] \in Word
    BY <2>1, <2>2, NamesAreUnique, OfRemoved, Views
  <2>5. Chairs[c] # {}
    BY <2>1, Views DEF Of
  <2>6. Guests' = [Guests EXCEPT ![c] = @ \cup {nick[t]}]
    <3>1. Of(nick, invited[c] \cup {t}) = Of(nick, invited[c]) \cup {nick[t]}
      BY OfAdded
    <3>2. \A d \in Chan : Of(nick, invited'[d]) = IF d = c THEN Of(nick, invited[c]) \cup {nick[t]}
                                                  ELSE Of(nick, invited[d])
      BY <2>1, <2>3, <3>1
    <3> QED
      BY <1>1, <3>2, Views, ViewsNext
  <2>7. UNCHANGED <<NamesInUse, Roster, Chairs>>
    BY <1>1, <1>2, Views, ViewsNext
  <2>8. Rooms!Invite(nick[t], c)
    BY <1>1, <2>4, <2>5, <2>6, <2>7 DEF Rooms!Invite
  <2>9. NamedInv'
    <3>1. \A d \in Chan : invited'[d] \subseteq invited[d] \cup {t}
      BY <2>1, <2>3
    <3> QED
      BY <1>1, <1>2, <2>2, <3>1 DEF RoomInv, NamedInv
  <2> QED
    BY <2>4, <2>8, <2>9 DEF Rooms!Next
<1>4. CASE InviteVerdict(f, w, c) # "invite"
  <2>1. UNCHANGED invited
    BY <1>4 DEF HandleInvite
  <2>2. Unseen
    BY <1>1, <1>2, <2>1 DEF Unseen, RoomInv, NamedInv
  <2> QED
    BY <2>2, UnseenMaps
<1> QED
  BY <1>3, <1>4

LEMMA JoinMaps ==
  ASSUME RoomInv, JoinNext
  PROVE  NamedInv' /\ [Rooms!Next]_(Rooms!roomVars)
<1> DEFINE f == task.fd
           c == Head(task.todo)[1]
           verdict == JoinVerdict(f, c, Head(task.todo)[2])
<1>1. f \in Fd /\ f \in registered /\ UNCHANGED <<connVars, identVars>>
  BY LoopOwner DEF JoinNext, At, RoomInv
<1>2. CASE verdict \in {"create", "join"}
  <2>1. /\ c \in Chan /\ c \notin joined[f]
        /\ verdict = "create" <=> c \notin channels
        /\ verdict = "join" /\ c \in inviteOnly => f \in invited[c]
    BY <1>2 DEF JoinVerdict
  <2>2. JoinChannel(f, c, verdict = "create")
    BY <1>2 DEF JoinNext
  <2>3. f \notin members[c]
    BY <1>1, <2>1 DEF RoomInv, SafeInv, RelationsAgree
  <2>4. NamedInv' /\ Rooms!Enter(nick[f], c)
    <3> HIDE DEF f, c, verdict
    <3>1. PICK created \in BOOLEAN : created <=> verdict = "create"
      OBVIOUS
    <3>2. JoinChannel(f, c, created)
      <4>1. created = (verdict = "create")
        BY <3>1
      <4> QED
        BY <2>2, <4>1
    <3>3. ~created /\ c \in inviteOnly => f \in invited[c]
      BY <1>2, <2>1, <3>1
    <3> QED
      BY <1>1, <2>1, <2>3, <3>1, <3>2, <3>3, EnterMaps
  <2>5. nick[f] \in Word
    BY <1>1, NamesAreUnique DEF RoomInv, NamedInv
  <2> QED
    BY <2>1, <2>4, <2>5 DEF Rooms!Next
<1>3. CASE verdict \notin {"create", "join"}
  <2>1. UNCHANGED <<relVars, inviteOnly>>
    BY <1>3 DEF JoinNext, modeVars
  <2>2. Unseen
    BY <1>1, <2>1, RefusedUnseen
  <2> QED
    BY <2>2, UnseenMaps
<1> QED
  BY <1>2, <1>3

LEMMA PartMaps ==
  ASSUME RoomInv, PartNext \/ LeaveAllNext
  PROVE  NamedInv' /\ [Rooms!Next]_(Rooms!roomVars)
<1> DEFINE f == task.fd
           c == Head(task.todo)[1]
<1>1. UNCHANGED <<connVars, identVars>>
  BY DEF PartNext, LeaveAllNext
<1>2. CASE c \in channels /\ f \in members[c]
  <2>1. LeaveChannel(f, c) /\ c \in Chan /\ f \in Fd
    BY <1>2 DEF PartNext, LeaveAllNext, RoomInv, TypeOK
  <2>2. NamedInv' /\ Rooms!Leave(nick[f], c)
    BY <1>1, <1>2, <2>1, LeaveMaps
  <2>3. nick[f] \in Word
    BY <1>2, <2>1, NamesAreUnique
  <2> QED
    BY <2>1, <2>2, <2>3 DEF Rooms!Next
<1>3. CASE ~(c \in channels /\ f \in members[c])
  <2>1. UNCHANGED <<relVars, inviteOnly>>
    BY <1>3 DEF PartNext, LeaveAllNext, modeVars
  <2>2. Unseen
    BY <1>1, <2>1, RefusedUnseen
  <2> QED
    BY <2>2, UnseenMaps
<1> QED
  BY <1>2, <1>3

\* +i and -i.
LEMMA ClosingMaps ==
  ASSUME RoomInv, ModeI
  PROVE  NamedInv' /\ [Rooms!Next]_(Rooms!roomVars)
<1> DEFINE c == task.chan
<1>1. UNCHANGED <<live, nick, registered, channels, members, operators, invited>>
  BY DEF ModeI, connVars, identVars, relVars
<1>2. Named' = Named
  BY <1>1, SameConnections
<1>3. c \in channels /\ c \in Chan
  BY ModeOwner DEF ModeI, ModeFlag, AtMode, At, RoomInv
<1>4. inviteOnly' = IF Adding THEN inviteOnly \cup {c} ELSE inviteOnly \ {c}
  BY DEF ModeI, Flagged
<1>5. NamedInv'
  BY <1>1, <1>2, <1>3, <1>4 DEF RoomInv, NamedInv
<1>6. Roster[c] # {}
  <2>1. members[c] # {}
    BY <1>3 DEF RoomInv, SafeInv, RelationsAgree
  <2>2. Of(nick, members[c]) # {}
    BY <2>1 DEF Of
  <2> QED
    BY <1>3, <2>2, Views
<1>7. UNCHANGED <<NamesInUse, Roster, Chairs, Guests>>
  BY <1>1, <1>2, Views, ViewsNext
<1>8. Adding \in BOOLEAN
  BY DEF Adding
<1>9. Rooms!Close(c, Adding)
  BY <1>4, <1>6, <1>7 DEF Rooms!Close
<1> QED
  BY <1>3, <1>5, <1>8, <1>9 DEF Rooms!Next

\* +o and -o.
LEMMA ChairMaps ==
  ASSUME RoomInv, ModeO
  PROVE  NamedInv' /\ [Rooms!Next]_(Rooms!roomVars)
<1> DEFINE c == task.chan
           t == FindClientByNickname(Head(task.args))
<1>1. UNCHANGED <<connVars, identVars, joined, channels, members, invited, inviteOnly>>
  BY DEF ModeO, modeVars
<1>2. UNCHANGED <<live, nick, registered>> /\ Named' = Named
  BY <1>1, SameConnections DEF connVars, identVars
<1>3. c \in Chan
  BY ModeOwner DEF ModeO, AtMode, At, RoomInv
<1>4. CASE t # NoFd /\ t \in members[c]
  <2>1. operators' = [operators EXCEPT ![c] = IF Adding THEN @ \cup {t} ELSE @ \ {t}]
    BY <1>4 DEF ModeO
  <2>2. t \in Named /\ nick[t] \in Word
    BY <1>3, <1>4, NamesAreUnique
  <2> HIDE DEF c, t
  <2>3. operators \in [Chan -> SUBSET Fd]
    BY DEF RoomInv, TypeOK
  <2>4. /\ Of(nick, operators[c] \cup {t}) = Of(nick, operators[c]) \cup {nick[t]}
        /\ Of(nick, operators[c] \ {t}) = Of(nick, operators[c]) \ {nick[t]}
    BY <1>3, <2>2, NamesAreUnique, OfAdded, OfRemoved
  <2>5. \A d \in Chan : Of(nick, operators'[d]) =
          IF d = c THEN IF Adding THEN Of(nick, operators[c]) \cup {nick[t]}
                        ELSE Of(nick, operators[c]) \ {nick[t]}
          ELSE Of(nick, operators[d])
    BY <2>1, <2>3, <2>4
  <2>6. Chairs' = [Chairs EXCEPT ![c] = IF Adding THEN @ \cup {nick[t]} ELSE @ \ {nick[t]}]
    BY <1>2, <2>5, Views, ViewsNext
  <2>7. nick[t] \in Roster[c]
    BY <1>3, <1>4, <2>2, NamesAreUnique, OfRemoved, Views
  <2>8. UNCHANGED <<NamesInUse, Roster, Guests>>
    BY <1>1, <1>2, Views, ViewsNext
  <2>9. Adding \in BOOLEAN
    BY DEF Adding
  <2>10. Rooms!Preside(nick[t], c, Adding)
    BY <1>1, <2>6, <2>7, <2>8 DEF Rooms!Preside
  <2>11. NamedInv'
    BY <1>1, <1>2 DEF RoomInv, NamedInv
  <2> QED
    BY <1>3, <2>2, <2>9, <2>10, <2>11 DEF Rooms!Next
<1>5. CASE ~(t # NoFd /\ t \in members[c])
  <2>1. UNCHANGED operators
    BY <1>5 DEF ModeO
  <2>2. Unseen
    BY <1>1, <1>2, <2>1 DEF Unseen, RoomInv, NamedInv
  <2> QED
    BY <2>2, UnseenMaps
<1> QED
  BY <1>4, <1>5

\* Every step of the server is one that users see as a step of ChatRooms, or
\* do not see.
LEMMA StepMaps ==
  ASSUME RoomInv, [Next]_vars
  PROVE  NamedInv' /\ [Rooms!Next]_(Rooms!roomVars)
<1>1. CASE Unseen
  BY <1>1, UnseenMaps
<1>2. CASE UNCHANGED vars \/ ProcessPendingDisconnects
  <2>1. UNCHANGED <<live, nick, registered, channels, members, operators, invited, inviteOnly>>
    BY <1>2 DEF vars, ProcessPendingDisconnects, connVars, identVars, relVars, modeVars
  <2> QED
    BY <1>1, <2>1, SameConnections DEF Unseen, RoomInv, NamedInv
<1>3. CASE PrivmsgNext \/ ModeSign \/ ModeRefused \/ ModeT \/ ModeK \/ ModeL \/ ModeNotify
  <2>1. UNCHANGED <<connVars, identVars, relVars, inviteOnly>>
    BY <1>3 DEF PrivmsgNext, ModeSign, ModeRefused, ModeT, ModeK, ModeL,
       ModeNotify, modeVars
  <2> QED
    BY <1>1, <2>1, RefusedUnseen
<1>4. ASSUME NEW f \in Fd, DisconnectClient(f)
      PROVE  NamedInv' /\ [Rooms!Next]_(Rooms!roomVars)
  <2>1. NamedInv' /\ (UNCHANGED Rooms!roomVars \/ Rooms!Depart(nick[f]))
    BY <1>4, DisconnectMaps
  <2>2. Rooms!Depart(nick[f]) => nick[f] \in Word
    <3>1. \A x \in NamesInUse : x \in Word
      BY NamesAreUnique, Views DEF Of
    <3> QED
      BY <3>1 DEF Rooms!Depart
  <2> QED
    BY <2>1, <2>2 DEF Rooms!Next
<1>5. ASSUME NEW f \in Fd, NEW w \in NickInputs[f], HandleNick(f, w)
      PROVE  NamedInv' /\ [Rooms!Next]_(Rooms!roomVars)
  <2>1. w \in Word
    BY <1>5, NamesAreDistinct DEF HandleNick
  <2>2. NamedInv' /\ (Rooms!Take(w) \/ Rooms!Rename(nick[f], w))
    BY <1>5, <2>1, NickMaps
  <2>3. Rooms!Rename(nick[f], w) => nick[f] \in Word
    <3>1. \A x \in NamesInUse : x \in Word
      BY NamesAreUnique, Views DEF Of
    <3> QED
      BY <3>1 DEF Rooms!Rename
  <2> QED
    BY <2>1, <2>2, <2>3 DEF Rooms!Next
<1>6. CASE Loops
  BY <1>3, <1>6, JoinMaps, PartMaps, ClosingMaps, ChairMaps DEF Loops
<1>7. ASSUME NEW f \in Fd, NEW c \in Chan, NEW w \in Word,
             HandleKick(f, c, w) \/ HandleInvite(f, w, c)
      PROVE  NamedInv' /\ [Rooms!Next]_(Rooms!roomVars)
  BY <1>7, KickMaps, InviteMaps
<1>8. ASSUME NEW f \in Fd,
             \/ AcceptClient(f) \/ ReplyOnly(f) \/ ConnectionLost(f) \/ HandleQuit(f)
             \/ HandleUser(f) \/ HandleJoinZero(f)
             \/ \E w \in Word : HandlePass(f, w)
             \/ \E list \in JoinLists : HandleJoin(f, list)
             \/ \E list \in TargetLists : HandlePart(f, list) \/ HandlePrivmsg(f, list)
             \/ \E c \in Chan, w \in Topics : HandleTopic(f, c, w)
             \/ \E c \in Chan, line \in ModeLines : HandleMode(f, c, line)
      PROVE  NamedInv' /\ [Rooms!Next]_(Rooms!roomVars)
  BY <1>1, <1>8, CommandsUnseen
<1> QED
  BY <1>2, <1>4, <1>5, <1>6, <1>7, <1>8 DEF Next

\* Whatever the handlers do to descriptors, index, relations and invitations,
\* its users see rooms of people: unique names, a rename or a departure in all
\* rooms in one step, who founds a room presides, an emptied room forgets.
THEOREM RoomsOfPeople == Spec => ImplementsChatRooms
<1>1. Init => NamedInv /\ Rooms!Init
  <2>1. Init => NamedInv
    BY DEF Init, NamedInv
  <2>2. Init => Rooms!Init
    <3>1. ASSUME Init PROVE Rooms!Init
      <4>1. Named = {} /\ Of(nick, {}) = {}
        BY <3>1 DEF Init, Named, Of
      <4> QED
        BY <3>1, <4>1, Views DEF Init, Rooms!Init
    <3> QED
      BY <3>1
  <2> QED
    BY <2>1, <2>2
<1>2. TypeOK /\ TaskInv /\ SafeInv /\ NamedInv /\ [Next]_vars
        => NamedInv' /\ [Rooms!Next]_(Rooms!roomVars)
  BY StepMaps DEF RoomInv
<1> QED
  BY <1>1, <1>2, TypeInvariant, SafeInvariant, PTL
  DEF Spec, ImplementsChatRooms, Rooms!Spec

-----------------------------------------------------------------------------
(***************************************************************************)
(* What clients are shown.                                                 *)
(***************************************************************************)

\* The clients that nobody is about to disconnect.
Watching == live \ (pending \cup closing)

\* To those of W, `seen' shows the names N of the clients S of each channel
\* they are a member of, and nothing of the others.
Shows(seen, W, M, S, N) ==
  \A f \in W, c \in Chan : seen[f][c] = IF f \in M[c] THEN Of(N, S[c]) ELSE {}

\* While MODE collects its changes, the clients will be shown the truth by the
\* notice about them.
WillShow ==
  \A f \in Watching, c \in Chan :
    /\ seenOps[f][c] \subseteq Word
    /\ IF c = task.chan /\ f \in members[c]
       THEN AfterMode(seenOps[f][c], task.changed) = Of(nick, operators[c])
       ELSE seenOps[f][c] = IF f \in members[c] THEN Of(nick, operators[c]) ELSE {}

\* The inductive invariant: apart from what the properties say, nothing has
\* been shown to a client that is not there.
SeenInv ==
  /\ Shows(seenNames, Watching, members, members, nick)
  /\ task.cmd # "MODE" => Shows(seenOps, Watching, members, operators, nick)
  /\ task.cmd = "MODE" => WillShow
  /\ \A f \in Fd \ live : seenNames[f] = NothingSeen /\ seenOps[f] = NothingSeen

\* A step that shows nothing new and changes nothing of what is shown.
LEMMA SameShown ==
  ASSUME SeenInv, UNCHANGED <<live, nick, members, operators, seenNames, seenOps>>,
         pending \cup closing \subseteq pending' \cup closing',
         task.cmd # "MODE", task'.cmd # "MODE"
  PROVE  SeenInv'
<1>1. Watching' \subseteq Watching
  BY DEF Watching
<1>2. Shows(seenNames', Watching', members', members', nick')
      /\ Shows(seenOps', Watching', members', operators', nick')
  BY <1>1 DEF SeenInv, Shows
<1> QED
  BY <1>2 DEF SeenInv

\* Replies show nothing.
LEMMA ReplyShown ==
  ASSUME TypeOK, NEW rcpt, Reply(rcpt)
  PROVE  UNCHANGED <<seenNames, seenOps>> /\ pending \subseteq pending'
<1>1. PICK full \in SUBSET (rcpt \cap Slow) :
        /\ pending' = pending \cup full
        /\ seenNames' = Told(seenNames, rcpt, full, seenNames)
        /\ seenOps' = Told(seenOps, rcpt, full, seenOps)
  BY DEF Reply, Queue
<1>2. ASSUME NEW seen \in Seen
      PROVE  Told(seen, rcpt, full, seen) = seen
  <2>1. Told(seen, rcpt, full, seen) = [f \in Fd |-> seen[f]]
    BY DEF Told
  <2> QED
    BY <2>1 DEF Seen
<1>3. seenNames \in Seen /\ seenOps \in Seen
  BY DEF TypeOK, Seen
<1> QED
  BY <1>1, <1>2, <1>3

\* What a message shows: the news to those who get it.
LEMMA ToldShows ==
  ASSUME NEW seen, NEW rcpt, NEW full, NEW news, NEW W \in SUBSET Fd, W \cap full = {},
         NEW M, NEW S, NEW N,
         \A g \in W, c \in Chan :
           (IF g \in rcpt THEN news[g] ELSE seen[g])[c] = IF g \in M[c] THEN Of(N, S[c]) ELSE {}
  PROVE  Shows(Told(seen, rcpt, full, news), W, M, S, N)
<1> SUFFICES ASSUME NEW g \in W, NEW c \in Chan
             PROVE  Told(seen, rcpt, full, news)[g][c]
                      = IF g \in M[c] THEN Of(N, S[c]) ELSE {}
  BY DEF Shows
<1>1. Told(seen, rcpt, full, news)[g] = IF g \in rcpt THEN news[g] ELSE seen[g]
  BY DEF Told
<1> QED
  BY <1>1

\* What is shown once f has left c.
LeaveNews(seen, f, c) ==
  [g \in Fd |-> IF g = f THEN [seen[g] EXCEPT ![c] = {}]
                ELSE Without(seen, g, {c}, nick[f])]

\* Somebody leaves one channel: the others there are told to strike the name.
LEMMA LeaveShows ==
  ASSUME RoomInv, NEW f \in Named, NEW c \in Chan,
         NEW seen \in Seen, NEW S, \A d \in Chan : S[d] \subseteq members[d],
         Shows(seen, Watching, members, S, nick),
         NEW W, W \subseteq Watching, NEW full, W \cap full = {},
         NEW M2, \A d \in Chan : M2[d] = IF d = c THEN members[d] \ {f} ELSE members[d],
         NEW S2, \A d \in Chan : S2[d] = IF d = c THEN S[d] \ {f} ELSE S[d]
  PROVE  Shows(Told(seen, members[c], full, LeaveNews(seen, f, c)), W, M2, S2, nick)
<1> DEFINE news == [g \in Fd |-> IF g = f THEN [seen[g] EXCEPT ![c] = {}]
                                 ELSE Without(seen, g, {c}, nick[f])]
<1>1. W \subseteq Fd
  BY DEF Watching, RoomInv, TypeOK
<1>2. ASSUME NEW g \in W, NEW d \in Chan
      PROVE  (IF g \in members[c] THEN news[g] ELSE seen[g])[d]
               = IF g \in M2[d] THEN Of(nick, S2[d]) ELSE {}
  <2>1. g \in Fd /\ seen[g][d] = (IF g \in members[d] THEN Of(nick, S[d]) ELSE {})
    BY <1>1 DEF Shows
  <2>2. Of(nick, S[d] \ {f}) = Of(nick, S[d]) \ {nick[f]}
    <3>1. S[d] \subseteq Named
      BY NamesAreUnique
    <3> QED
      BY <3>1, OfRemoved
  <2>3. CASE d # c
    <3>1. g \in members[c] => news[g][d] = seen[g][d]
      BY <2>1, <2>3 DEF Without, Seen
    <3> QED
      BY <2>1, <2>3, <3>1
  <2>4. CASE d = c /\ g = f
    <3>1. news[g][d] = {}
      BY <2>1, <2>4 DEF Seen
    <3> QED
      BY <2>1, <2>4, <3>1
  <2>5. CASE d = c /\ g # f
    <3>1. news[g][d] = seen[g][d] \ {nick[f]}
      BY <2>1, <2>5 DEF Without
    <3> QED
      BY <2>1, <2>2, <2>5, <3>1
  <2> QED
    BY <2>3, <2>4, <2>5
<1> HIDE DEF news
<1> QED
  BY <1>1, <1>2, ToldShows DEF news, LeaveNews

\* The clients that share no channel with f do not show its name.
LEMMA StrangersShow ==
  ASSUME SafeInv, NEW f \in Fd, NEW g \in Fd, g # f, g \notin SharedWith(f),
         NEW d \in Chan, g \in members[d]
  PROVE  f \notin members[d]
BY DEF SafeInv, RelationsAgree, SharedWith

\* Somebody leaves all channels at once.
LEMMA DepartureShows ==
  ASSUME RoomInv, NEW f \in Fd, f \in live,
         NEW seen \in Seen, NEW S, \A d \in Chan : S[d] \subseteq members[d],
         Shows(seen, Watching, members, S, nick),
         NEW W, W \subseteq Watching \ {f}, NEW full, W \cap full = {},
         NEW M2, \A d \in Chan : M2[d] = members[d] \ {f},
         NEW S2, \A d \in Chan : S2[d] = S[d] \ {f},
         NEW N2, \A g \in Fd \ {f} : N2[g] = nick[g]
  PROVE  Shows(Told(seen, SharedWith(f), full,
                    [g \in Fd |-> Without(seen, g, Chan, nick[f])]),
               W, M2, S2, N2)
<1> DEFINE news == [g \in Fd |-> Without(seen, g, Chan, nick[f])]
<1>1. W \subseteq Fd
  BY DEF Watching, RoomInv, TypeOK
<1>2. ASSUME NEW g \in W, NEW d \in Chan
      PROVE  (IF g \in SharedWith(f) THEN news[g] ELSE seen[g])[d]
               = IF g \in M2[d] THEN Of(N2, S2[d]) ELSE {}
  <2>1. g \in Fd /\ g # f /\ seen[g][d] = (IF g \in members[d] THEN Of(nick, S[d]) ELSE {})
    BY <1>1 DEF Shows
  <2>2. S[d] \subseteq Named /\ Named \subseteq Fd
    BY NamesAreUnique
  <2>3. Of(N2, S2[d]) = Of(nick, S[d] \ {f})
    <3>1. \A h \in S[d] \ {f} : N2[h] = nick[h]
      BY <2>2
    <3>2. Of(N2, S[d] \ {f}) = Of(nick, S[d] \ {f})
      BY <3>1, OfSame
    <3> QED
      BY <3>2
  <2>4. CASE g \in SharedWith(f)
    <3>1. news[g][d] = seen[g][d] \ {nick[f]}
      BY <2>1 DEF Without
    <3>2. f \in Named
      <4>1. PICK e \in joined[f] : g \in members[e]
        BY <2>4 DEF SharedWith
      <4>2. e \in Chan /\ f \in members[e]
        BY <4>1 DEF RoomInv, SafeInv, RelationsAgree, TypeOK
      <4> QED
        BY <4>2, NamesAreUnique
    <3>3. Of(nick, S[d] \ {f}) = Of(nick, S[d]) \ {nick[f]}
      BY <2>2, <3>2, OfRemoved
    <3> QED
      BY <2>1, <2>3, <2>4, <3>1, <3>3
  <2>5. CASE g \notin SharedWith(f)
    <3>1. g \in members[d] => f \notin S[d]
      BY <2>1, <2>5, StrangersShow DEF RoomInv
    <3>2. g \in members[d] => S[d] \ {f} = S[d]
      BY <3>1
    <3> QED
      BY <2>1, <2>3, <2>5, <3>2
  <2> QED
    BY <2>4, <2>5
<1> HIDE DEF news
<1> QED
  BY <1>1, <1>2, ToldShows DEF news

\* Somebody changes its nickname: who is told replaces the name, and who is
\* not told did not show it.
LEMMA RenameShows ==
  ASSUME RoomInv, NEW f \in Named, NEW w,
         NEW seen \in Seen, NEW S, \A d \in Chan : S[d] \subseteq members[d],
         Shows(seen, Watching, members, S, nick),
         NEW W, W \subseteq Watching, NEW full, W \cap full = {},
         NEW N2, N2[f] = w, \A g \in Fd \ {f} : N2[g] = nick[g]
  PROVE  Shows(Told(seen, {f} \cup SharedWith(f), full, AfterNick(seen, nick[f], w)),
               W, members, S, N2)
<1>1. W \subseteq Fd
  BY DEF Watching, RoomInv, TypeOK
<1>2. ASSUME NEW g \in W, NEW d \in Chan
      PROVE  (IF g \in {f} \cup SharedWith(f) THEN AfterNick(seen, nick[f], w)[g]
              ELSE seen[g])[d] = IF g \in members[d] THEN Of(N2, S[d]) ELSE {}
  <2>1. g \in Fd /\ seen[g][d] = (IF g \in members[d] THEN Of(nick, S[d]) ELSE {})
    BY <1>1 DEF Shows
  <2>2. S[d] \subseteq Named /\ Named \subseteq Fd
    BY NamesAreUnique
  <2>3. /\ Of(nick, S[d] \ {f}) = Of(nick, S[d]) \ {nick[f]}
        /\ nick[f] \in Of(nick, S[d]) <=> f \in S[d]
    BY <2>2, OfRemoved
  <2>4. Of(N2, S[d] \ {f}) = Of(nick, S[d] \ {f})
    <3>1. \A h \in S[d] \ {f} : N2[h] = nick[h]
      BY <2>2
    <3> QED
      BY <3>1, OfSame
  <2>5. CASE g \in {f} \cup SharedWith(f)
    <3>1. AfterNick(seen, nick[f], w)[g][d] = Renamed(seen[g][d], nick[f], w)
      BY <2>1 DEF AfterNick
    <3>2. CASE f \in S[d]
      <4>1. S[d] = (S[d] \ {f}) \cup {f}
        BY <3>2
      <4>2. Of(N2, (S[d] \ {f}) \cup {f}) = Of(N2, S[d] \ {f}) \cup {w}
        BY OfAdded
      <4>3. Of(N2, S[d]) = (Of(nick, S[d]) \ {nick[f]}) \cup {w}
        BY <2>3, <2>4, <4>1, <4>2
      <4>4. CASE g \in members[d]
        BY <2>1, <2>3, <2>5, <3>1, <3>2, <4>3, <4>4 DEF Renamed
      <4>5. CASE g \notin members[d]
        BY <2>1, <2>5, <3>1, <4>5 DEF Renamed
      <4> QED
        BY <4>4, <4>5
    <3>3. CASE f \notin S[d]
      <4>1. S[d] \ {f} = S[d]
        BY <3>3
      <4>2. Of(N2, S[d]) = Of(nick, S[d]) /\ nick[f] \notin Of(nick, S[d])
        BY <2>3, <2>4, <3>3, <4>1
      <4>3. Renamed(seen[g][d], nick[f], w) = seen[g][d]
        BY <2>1, <4>2 DEF Renamed
      <4> QED
        BY <2>1, <2>5, <3>1, <4>2, <4>3
    <3> QED
      BY <3>2, <3>3
  <2>6. CASE g \notin {f} \cup SharedWith(f)
    <3>1. g \in members[d] => S[d] \ {f} = S[d]
      <4>1. g \in members[d] => f \notin members[d]
        BY <2>1, <2>2, <2>6, StrangersShow DEF RoomInv
      <4> QED
        BY <4>1
    <3> QED
      BY <2>1, <2>4, <2>6, <3>1
  <2> QED
    BY <2>5, <2>6
<1> QED
  BY <1>1, <1>2, ToldShows

\* What is shown once f has entered c, of those who are S in it by then: the
\* truth to f and to the members who knew it before.
EntryNews(news, seen, f, c, S) ==
  /\ \A g \in Fd : \A d \in Chan \ {c} : news[g][d] = seen[g][d]
  /\ news[f][c] = Of(nick, S[c])
  /\ \A g \in members[c] \cap Watching : news[g][c] = Of(nick, S[c]) \/ g = f

\* Somebody enters a channel: it is told who is there, and those who are there
\* are told what that changes.
LEMMA EntryShows ==
  ASSUME RoomInv, NEW f \in Fd, NEW c \in Chan,
         NEW seen, NEW S, Shows(seen, Watching, members, S, nick),
         NEW W, W \subseteq Watching, NEW full, W \cap full = {},
         NEW news, NEW S2, EntryNews(news, seen, f, c, S2),
         NEW M2, M2 = [members EXCEPT ![c] = @ \cup {f}],
         \A d \in Chan \ {c} : S2[d] = S[d]
  PROVE  Shows(Told(seen, members[c] \cup {f}, full, news), W, M2, S2, nick)
<1>1. W \subseteq Fd
  BY DEF Watching, RoomInv, TypeOK
<1>2. members \in [Chan -> SUBSET Fd]
  BY DEF RoomInv, TypeOK
<1>3. ASSUME NEW g \in W, NEW d \in Chan
      PROVE  (IF g \in members[c] \cup {f} THEN news[g] ELSE seen[g])[d]
               = IF g \in M2[d] THEN Of(nick, S2[d]) ELSE {}
  <2>1. g \in Fd /\ seen[g][d] = (IF g \in members[d] THEN Of(nick, S[d]) ELSE {})
    BY <1>1 DEF Shows
  <2>2. CASE d # c
    BY <1>2, <2>1, <2>2 DEF EntryNews
  <2>3. CASE d = c
    BY <1>2, <2>1, <2>3 DEF EntryNews
  <2> QED
    BY <2>2, <2>3
<1> QED
  BY <1>1, <1>3, ToldShows

\* Who queues a message keeps an eye on no more clients than before, and on
\* none that overflowed.
LEMMA FewerWatched ==
  ASSUME NEW full, pending' = pending \cup full, UNCHANGED <<live, closing>>
  PROVE  Watching' \subseteq Watching /\ Watching' \cap full = {}
BY DEF Watching

\* Only those who are there are told anything.
LEMMA NobodyElseTold ==
  ASSUME NEW seen, NEW rcpt, rcpt \subseteq live, NEW full, NEW news,
         \A f \in Fd \ live : seen[f] = NothingSeen
  PROVE  \A f \in Fd \ live : Told(seen, rcpt, full, news)[f] = NothingSeen
BY DEF Told

\* A new connection is shown nothing and is a member of nothing.
LEMMA AcceptShown ==
  ASSUME TypeOK, SafeInv, SeenInv, NEW f \in Fd, AcceptClient(f)
  PROVE  SeenInv'
<1>1. /\ f \notin live /\ live' = live \cup {f} /\ task = NoTask
      /\ UNCHANGED <<pending, closing, nick, members, operators, task, seenNames, seenOps>>
  BY DEF AcceptClient, Idle, identVars, relVars, seenVars
<1>2. task.cmd # "MODE" /\ task'.cmd # "MODE"
  BY <1>1 DEF NoTask
<1>3. Watching' \subseteq Watching \cup {f}
  BY <1>1 DEF Watching
<1>4. \A c \in Chan : f \notin members[c] /\ seenNames[f][c] = {} /\ seenOps[f][c] = {}
  BY <1>1 DEF SafeInv, NothingOutlivesDisconnect, SeenInv, NothingSeen
<1>5. Shows(seenNames, Watching, members, members, nick)
      /\ Shows(seenOps, Watching, members, operators, nick)
  BY <1>2 DEF SeenInv
<1>6. Shows(seenNames', Watching', members', members', nick')
      /\ Shows(seenOps', Watching', members', operators', nick')
  BY <1>1, <1>3, <1>4, <1>5 DEF Shows
<1>7. \A g \in Fd \ live' : seenNames'[g] = NothingSeen /\ seenOps'[g] = NothingSeen
  BY <1>1 DEF SeenInv
<1> QED
  BY <1>2, <1>6, <1>7 DEF SeenInv

\* disconnectClient tells the QUIT to who shares a channel.
LEMMA DisconnectShown ==
  ASSUME RoomInv, SeenInv, NEW f \in Fd, DisconnectClient(f)
  PROVE  SeenInv'
<1>0. task = NoTask /\ task' = task /\ task.cmd # "MODE"
  BY DEF DisconnectClient, NoTask
<1>1. CASE f \notin live
  <2>1. /\ UNCHANGED <<live, nick, members, operators, seenNames, seenOps, pending>>
        /\ closing' = closing \ {f}
    BY <1>1 DEF DisconnectClient, identVars, relVars, seenVars
  <2>2. Watching' = Watching
    BY <1>1, <2>1 DEF Watching
  <2>3. Shows(seenNames', Watching', members', members', nick')
        /\ Shows(seenOps', Watching', members', operators', nick')
    BY <1>0, <2>1, <2>2 DEF SeenInv
  <2> QED
    BY <1>0, <2>1, <2>3 DEF SeenInv
<1>2. CASE f \in live
  <2> DEFINE rcpt == SharedWith(f)
             names == [g \in Fd |-> Without(seenNames, g, Chan, nick[f])]
             ops == [g \in Fd |-> Without(seenOps, g, Chan, nick[f])]
  <2>1. PICK full \in SUBSET (rcpt \cap Slow) :
          /\ pending' = pending \cup full
          /\ seenNames' = [Told(seenNames, rcpt, full, names) EXCEPT ![f] = NothingSeen]
          /\ seenOps' = [Told(seenOps, rcpt, full, ops) EXCEPT ![f] = NothingSeen]
    BY <1>2 DEF DisconnectClient
  <2>2. /\ live' = live \ {f} /\ closing' = closing \ {f}
        /\ nick' = [nick EXCEPT ![f] = NoWord]
        /\ RemoveFrom(f, joined[f], Chan)
    BY <1>2 DEF DisconnectClient, RemoveClientFromAllChannels
  <2>3. Watching' \subseteq Watching \ {f} /\ Watching' \cap full = {} /\ Watching' \subseteq Fd
    BY <2>1, <2>2 DEF Watching, RoomInv, TypeOK
  <2>4. /\ \A d \in Chan : members'[d] = members[d] \ {f}
        /\ \A d \in Chan : operators'[d] = operators[d] \ {f}
    BY <2>2 DEF RemoveFrom, RoomInv, SafeInv, RelationsAgree
  <2>5. \A g \in Fd \ {f} : nick'[g] = nick[g]
    BY <2>2 DEF RoomInv, TypeOK
  <2>6. /\ seenNames \in Seen /\ seenOps \in Seen
        /\ \A d \in Chan : operators[d] \subseteq members[d]
        /\ \A d \in Chan : members[d] \subseteq members[d]
    BY DEF RoomInv, TypeOK, Seen, SafeInv, RelationsAgree
  <2>7. Shows(seenNames, Watching, members, members, nick)
        /\ Shows(seenOps, Watching, members, operators, nick)
    BY <1>0 DEF SeenInv
  <2>8. Shows(Told(seenNames, rcpt, full, names), Watching', members', members', nick')
    BY <1>2, <2>3, <2>4, <2>5, <2>6, <2>7, DepartureShows
  <2>9. Shows(Told(seenOps, rcpt, full, ops), Watching', members', operators', nick')
    BY <1>2, <2>3, <2>4, <2>5, <2>6, <2>7, DepartureShows
  <2> HIDE DEF rcpt, names, ops
  <2>10. \A g \in Fd \ {f} : /\ seenNames'[g] = Told(seenNames, rcpt, full, names)[g]
                             /\ seenOps'[g] = Told(seenOps, rcpt, full, ops)[g]
    BY <2>1 DEF Told
  <2>11. Shows(seenNames', Watching', members', members', nick')
         /\ Shows(seenOps', Watching', members', operators', nick')
    BY <2>3, <2>8, <2>9, <2>10 DEF Shows
  <2>12. \A g \in Fd \ live : /\ Told(seenNames, rcpt, full, names)[g] = NothingSeen
                              /\ Told(seenOps, rcpt, full, ops)[g] = NothingSeen
    <3>1. rcpt \subseteq live
      BY MembersAreLive DEF RoomInv, rcpt
    <3> QED
      BY <3>1, NobodyElseTold DEF SeenInv
  <2>13. seenNames'[f] = NothingSeen /\ seenOps'[f] = NothingSeen
    BY <2>1 DEF Told
  <2>14. \A g \in Fd \ live' : seenNames'[g] = NothingSeen /\ seenOps'[g] = NothingSeen
    BY <2>2, <2>10, <2>12, <2>13
  <2> QED
    BY <1>0, <2>11, <2>14 DEF SeenInv
<1> QED
  BY <1>1, <1>2

\* leaveChannel tells the PART or the KICK to all members.
LEMMA LeaveShown ==
  ASSUME RoomInv, SeenInv, NEW f \in Fd, NEW c \in Chan, f \in members[c], LeaveChannel(f, c),
         UNCHANGED <<connVars, identVars>>, task.cmd # "MODE", task'.cmd # "MODE"
  PROVE  SeenInv'
<1> DEFINE names == LeaveNews(seenNames, f, c)
           ops == LeaveNews(seenOps, f, c)
<1>1. PICK full \in SUBSET (members[c] \cap Slow) :
        /\ pending' = pending \cup full
        /\ seenNames' = Told(seenNames, members[c], full, names)
        /\ seenOps' = Told(seenOps, members[c], full, ops)
  BY DEF LeaveChannel, Queue, LeaveNews
<1>2. UNCHANGED <<live, closing, nick>> /\ RemoveFrom(f, {c}, {c})
  BY DEF connVars, identVars, LeaveChannel
<1>3. Watching' \subseteq Watching /\ Watching' \cap full = {}
  BY <1>1, <1>2, FewerWatched
<1>4. /\ \A d \in Chan : members'[d] = IF d = c THEN members[d] \ {f} ELSE members[d]
      /\ \A d \in Chan : operators'[d] = IF d = c THEN operators[d] \ {f} ELSE operators[d]
  BY <1>2 DEF RemoveFrom
<1>5. /\ seenNames \in Seen /\ seenOps \in Seen /\ f \in Named
      /\ \A d \in Chan : operators[d] \subseteq members[d]
      /\ \A d \in Chan : members[d] \subseteq members[d]
  BY NamesAreUnique DEF RoomInv, TypeOK, Seen, SafeInv, RelationsAgree
<1>6. Shows(seenNames, Watching, members, members, nick)
      /\ Shows(seenOps, Watching, members, operators, nick)
  BY DEF SeenInv
<1>7. Shows(Told(seenNames, members[c], full, names), Watching', members', members', nick)
  BY <1>3, <1>4, <1>5, <1>6, LeaveShows
<1>8. Shows(Told(seenOps, members[c], full, ops), Watching', members', operators', nick)
  BY <1>3, <1>4, <1>5, <1>6, LeaveShows
<1> HIDE DEF names, ops
<1>9. \A g \in Fd \ live : /\ Told(seenNames, members[c], full, names)[g] = NothingSeen
                           /\ Told(seenOps, members[c], full, ops)[g] = NothingSeen
  <2>1. members[c] \subseteq live
    BY MembersAreLive DEF RoomInv
  <2> QED
    BY <2>1, NobodyElseTold DEF SeenInv
<1> QED
  BY <1>1, <1>2, <1>7, <1>8, <1>9 DEF SeenInv

\* handleNick tells the new name to its client and to who shares a channel,
\* and one that is not registered is in no channel.
LEMMA NickShown ==
  ASSUME RoomInv, SeenInv, NEW f \in Fd, NEW w \in Word, HandleNick(f, w)
  PROVE  SeenInv'
<1>1. /\ task = NoTask /\ task.cmd # "MODE" /\ task' = task /\ f \in live
      /\ UNCHANGED <<live, closing, members, operators>>
      /\ nick' = [nick EXCEPT ![f] = w]
  BY DEF HandleNick, Idle, NoTask, connVars, relVars
<1>2. nick'[f] = w /\ \A g \in Fd \ {f} : nick'[g] = nick[g]
  BY <1>1 DEF RoomInv, TypeOK
<1>3. /\ seenNames \in Seen /\ seenOps \in Seen
      /\ \A d \in Chan : operators[d] \subseteq members[d]
      /\ \A d \in Chan : members[d] \subseteq members[d]
      /\ \A d \in Chan : members[d] \subseteq registered /\ members[d] \subseteq Fd
  BY DEF RoomInv, TypeOK, Seen, SafeInv, RelationsAgree
<1>4. Shows(seenNames, Watching, members, members, nick)
      /\ Shows(seenOps, Watching, members, operators, nick)
  BY <1>1 DEF SeenInv
<1>5. CASE f \in registered
  <2> DEFINE rcpt == {f} \cup SharedWith(f)
             names == AfterNick(seenNames, nick[f], w)
             ops == AfterNick(seenOps, nick[f], w)
  <2>1. PICK full \in SUBSET (rcpt \cap Slow) :
          /\ pending' = pending \cup full
          /\ seenNames' = Told(seenNames, rcpt, full, names)
          /\ seenOps' = Told(seenOps, rcpt, full, ops)
    BY <1>5 DEF HandleNick, Queue
  <2>2. Watching' \subseteq Watching /\ Watching' \cap full = {}
    BY <1>1, <2>1, FewerWatched
  <2>3. f \in Named
    BY <1>5 DEF RoomInv, NamedInv
  <2>4. Shows(Told(seenNames, rcpt, full, names), Watching', members, members, nick')
    BY <1>2, <1>3, <1>4, <2>2, <2>3, RenameShows
  <2>5. Shows(Told(seenOps, rcpt, full, ops), Watching', members, operators, nick')
    BY <1>2, <1>3, <1>4, <2>2, <2>3, RenameShows
  <2> HIDE DEF names, ops
  <2>6. \A g \in Fd \ live : /\ Told(seenNames, rcpt, full, names)[g] = NothingSeen
                             /\ Told(seenOps, rcpt, full, ops)[g] = NothingSeen
    <3>1. rcpt \subseteq live
      BY <1>1, MembersAreLive DEF RoomInv
    <3> HIDE DEF rcpt
    <3> QED
      BY <3>1, NobodyElseTold DEF SeenInv
  <2> HIDE DEF rcpt
  <2> QED
    BY <1>1, <2>1, <2>4, <2>5, <2>6 DEF SeenInv
<1>6. CASE f \notin registered
  <2>1. UNCHANGED <<seenNames, seenOps>> /\ pending \subseteq pending'
    <3>1. UNCHANGED <<pending, seenVars>> \/ Reply({f})
      BY <1>6 DEF HandleNick, TryRegisterClient
    <3> QED
      BY <3>1, ReplyShown DEF seenVars, RoomInv
  <2>2. Watching' \subseteq Watching /\ Watching \subseteq Fd
    BY <1>1, <2>1 DEF Watching, RoomInv, TypeOK
  <2>3. \A d \in Chan : /\ Of(nick', members[d]) = Of(nick, members[d])
                        /\ Of(nick', operators[d]) = Of(nick, operators[d])
    <3> TAKE d \in Chan
    <3>1. \A g \in members[d] : nick'[g] = nick[g]
      BY <1>2, <1>3, <1>6
    <3>2. \A g \in operators[d] : nick'[g] = nick[g]
      BY <1>3, <3>1
    <3> QED
      BY <3>1, <3>2, OfSame
  <2>4. Shows(seenNames', Watching', members', members', nick')
        /\ Shows(seenOps', Watching', members', operators', nick')
    BY <1>1, <1>4, <2>1, <2>2, <2>3 DEF Shows
  <2> QED
    BY <1>1, <2>1, <2>4 DEF SeenInv
<1> QED
  BY <1>5, <1>6

\* The iterations of the list loops leave no MODE behind.
LEMMA AdvanceShown ==
  ASSUME TypeOK, Advance, task.cmd # "MODE"
  PROVE  task'.cmd # "MODE"
<1>1. task' = NoTask \/ task' = [task EXCEPT !.todo = Tail(@)]
  BY DEF Advance
<1>2. task \in Task
  BY DEF TypeOK
<1>3. task' = [task EXCEPT !.todo = Tail(@)] => task'.cmd = task.cmd
  BY <1>2 DEF Task
<1> QED
  BY <1>1, <1>3, NoTaskType

\* joinChannel tells the newcomer who is there, and the others of the newcomer.
LEMMA JoinShown ==
  ASSUME RoomInv, SeenInv, NEW f \in Fd, f \in registered, NEW c \in Chan,
         NEW created \in BOOLEAN, created => c \notin channels, JoinChannel(f, c, created),
         UNCHANGED <<connVars, identVars>>, task.cmd # "MODE", task'.cmd # "MODE"
  PROVE  SeenInv'
<1>1. PICK names : names =
        [g \in Fd |-> [seenNames[g] EXCEPT ![c] =
           IF g = f THEN Nicks(members[c] \cup {f}) ELSE @ \cup {nick[f]}]]
  OBVIOUS
<1>2. PICK ops : ops =
        [g \in Fd |-> [seenOps[g] EXCEPT ![c] =
           IF g = f THEN Nicks(IF created THEN {f} ELSE operators[c]) ELSE @]]
  OBVIOUS
<1> DEFINE rcpt == members[c] \cup {f}
<1>3. PICK full \in SUBSET (rcpt \cap Slow) :
        /\ pending' = pending \cup full
        /\ seenNames' = Told(seenNames, rcpt, full, names)
        /\ seenOps' = Told(seenOps, rcpt, full, ops)
  BY <1>1, <1>2 DEF JoinChannel, Queue
<1>4. /\ members' = [members EXCEPT ![c] = @ \cup {f}]
      /\ operators' = IF created THEN [operators EXCEPT ![c] = @ \cup {f}] ELSE operators
      /\ UNCHANGED <<live, closing, nick>>
  BY DEF JoinChannel, connVars, identVars
<1>5. /\ seenNames \in Seen /\ seenOps \in Seen
      /\ members \in [Chan -> SUBSET Fd] /\ operators \in [Chan -> SUBSET Fd]
      /\ operators[c] \subseteq members[c] /\ (created => members[c] = {})
  BY DEF RoomInv, TypeOK, Seen, SafeInv, RelationsAgree
<1>6. Watching' \subseteq Watching /\ Watching' \cap full = {}
  BY <1>3, <1>4, FewerWatched
<1>7. Shows(seenNames, Watching, members, members, nick)
      /\ Shows(seenOps, Watching, members, operators, nick)
  BY DEF SeenInv
<1>8. /\ members'[c] = members[c] \cup {f}
      /\ \A d \in Chan \ {c} : members'[d] = members[d]
      /\ operators'[c] = IF created THEN {f} ELSE operators[c]
      /\ \A d \in Chan \ {c} : operators'[d] = operators[d]
  BY <1>4, <1>5
<1>9. EntryNews(names, seenNames, f, c, members')
  <2>1. \A g \in Fd : \A d \in Chan \ {c} : names[g][d] = seenNames[g][d]
    BY <1>1, <1>5 DEF Seen
  <2>2. names[f][c] = Of(nick, members'[c])
    BY <1>1, <1>5, <1>8 DEF Seen, Nicks, Of
  <2>3. ASSUME NEW g \in members[c] \cap Watching, g # f
        PROVE  names[g][c] = Of(nick, members'[c])
    <3>1. g \in Fd /\ seenNames[g][c] = Of(nick, members[c])
      BY <1>5, <1>7 DEF Shows
    <3>2. names[g][c] = seenNames[g][c] \cup {nick[f]}
      BY <1>1, <1>5, <2>3, <3>1 DEF Seen
    <3>3. members'[c] = members[c] \cup {f}
      BY <1>8
    <3>4. Of(nick, members[c] \cup {f}) = Of(nick, members[c]) \cup {nick[f]}
      BY OfAdded
    <3> QED
      BY <3>1, <3>2, <3>3, <3>4
  <2> QED
    BY <2>1, <2>2, <2>3 DEF EntryNews
<1>10. EntryNews(ops, seenOps, f, c, operators')
  <2>1. \A g \in Fd : \A d \in Chan \ {c} : ops[g][d] = seenOps[g][d]
    BY <1>2, <1>5 DEF Seen
  <2>2. ops[f][c] = Of(nick, operators'[c])
    BY <1>2, <1>5, <1>8 DEF Seen, Nicks, Of
  <2>3. ASSUME NEW g \in members[c] \cap Watching, g # f
        PROVE  ops[g][c] = Of(nick, operators'[c])
    <3>1. g \in Fd /\ seenOps[g][c] = Of(nick, operators[c]) /\ ~created
      BY <1>5, <1>7 DEF Shows
    <3>2. ops[g][c] = seenOps[g][c]
      BY <1>2, <1>5, <2>3, <3>1 DEF Seen
    <3> QED
      BY <1>8, <3>1, <3>2
  <2> QED
    BY <2>1, <2>2, <2>3 DEF EntryNews
<1>11. Shows(Told(seenNames, rcpt, full, names), Watching', members', members', nick)
  <2>1. /\ Shows(seenNames, Watching, members, members, nick)
        /\ \A d \in Chan \ {c} : members'[d] = members[d]
        /\ members' = [members EXCEPT ![c] = @ \cup {f}]
    BY <1>4, <1>7, <1>8
  <2> QED
    BY <1>6, <1>9, <2>1, EntryShows
<1>12. Shows(Told(seenOps, rcpt, full, ops), Watching', members', operators', nick)
  <2>1. /\ Shows(seenOps, Watching, members, operators, nick)
        /\ \A d \in Chan \ {c} : operators'[d] = operators[d]
        /\ members' = [members EXCEPT ![c] = @ \cup {f}]
    BY <1>4, <1>7, <1>8
  <2> QED
    BY <1>6, <1>10, <2>1, EntryShows
<1>13. \A g \in Fd \ live : /\ Told(seenNames, rcpt, full, names)[g] = NothingSeen
                            /\ Told(seenOps, rcpt, full, ops)[g] = NothingSeen
  <2>1. rcpt \subseteq live
    BY MembersAreLive DEF RoomInv
  <2> HIDE DEF rcpt
  <2> QED
    BY <2>1, NobodyElseTold DEF SeenInv
<1> HIDE DEF rcpt
<1> QED
  BY <1>3, <1>4, <1>11, <1>12, <1>13 DEF SeenInv

\* The iterations of JOIN, PART and JOIN 0, and KICK.
LEMMA ListShown ==
  ASSUME RoomInv, SeenInv, JoinNext \/ PartNext \/ LeaveAllNext
  PROVE  SeenInv'
<1> DEFINE f == task.fd
           c == Head(task.todo)[1]
<1>1. /\ task.cmd \in {"JOIN", "PART", "LEAVEALL"} /\ Advance
      /\ UNCHANGED <<connVars, identVars>>
  BY DEF JoinNext, PartNext, LeaveAllNext, At
<1>2. task.cmd # "MODE" /\ task'.cmd # "MODE" /\ f \in registered /\ f \in Fd
  BY <1>1, AdvanceShown DEF RoomInv, TaskInv, TypeOK
<1>3. CASE UNCHANGED relVars /\ (UNCHANGED <<pending, seenVars>> \/ Reply({f}))
  <2>1. UNCHANGED <<seenNames, seenOps>> /\ pending \subseteq pending'
    BY <1>3, ReplyShown DEF RoomInv, seenVars
  <2>2. UNCHANGED <<live, closing, nick, members, operators>>
    BY <1>1, <1>3 DEF connVars, identVars, relVars
  <2> QED
    BY <1>2, <2>1, <2>2, SameShown
<1>4. CASE JoinNext
  <2> DEFINE verdict == JoinVerdict(f, c, Head(task.todo)[2])
  <2>1. CASE verdict \in {"create", "join"}
    <3>1. JoinChannel(f, c, verdict = "create") /\ c \in Chan
          /\ (verdict = "create" => c \notin channels)
      BY <1>4, <2>1 DEF JoinNext, JoinVerdict
    <3> QED
      BY <1>1, <1>2, <3>1, JoinShown
  <2>2. CASE verdict \notin {"create", "join"}
    BY <1>3, <1>4, <2>2 DEF JoinNext
  <2> QED
    BY <2>1, <2>2
<1>5. CASE PartNext \/ LeaveAllNext
  <2>1. CASE c \in channels /\ f \in members[c]
    <3>1. LeaveChannel(f, c) /\ c \in Chan
      BY <1>5, <2>1 DEF PartNext, LeaveAllNext, RoomInv, TypeOK
    <3> QED
      BY <1>1, <1>2, <2>1, <3>1, LeaveShown
  <2>2. CASE ~(c \in channels /\ f \in members[c])
    BY <1>3, <1>5, <2>2 DEF PartNext, LeaveAllNext
  <2> QED
    BY <2>1, <2>2
<1> QED
  BY <1>4, <1>5

LEMMA KickShown ==
  ASSUME RoomInv, SeenInv, NEW f \in Fd, NEW c \in Chan, NEW w \in Word, HandleKick(f, c, w)
  PROVE  SeenInv'
<1>1. /\ task = NoTask /\ task' = task /\ task.cmd # "MODE" /\ task'.cmd # "MODE"
      /\ UNCHANGED <<connVars, identVars>>
  BY DEF HandleKick, Idle, NoTask
<1>2. CASE KickVerdict(f, c, w) = "kick"
  <2> DEFINE t == FindClientByNickname(w)
  <2>1. LeaveChannel(t, c) /\ t \in members[c] /\ t \in Fd
    BY <1>2 DEF HandleKick, KickVerdict, RoomInv, TypeOK
  <2> HIDE DEF t
  <2> QED
    BY <1>1, <2>1, LeaveShown
<1>3. CASE KickVerdict(f, c, w) # "kick"
  <2>1. Reply({f}) /\ UNCHANGED <<relVars, modeVars>>
    BY <1>3 DEF HandleKick
  <2>2. UNCHANGED <<seenNames, seenOps>> /\ pending \subseteq pending'
    BY <2>1, ReplyShown DEF RoomInv
  <2>3. UNCHANGED <<live, closing, nick, members, operators>>
    BY <1>1, <2>1 DEF connVars, identVars, relVars
  <2> QED
    BY <1>1, <2>2, <2>3, SameShown
<1> QED
  BY <1>2, <1>3

\* The handlers that answer their sender, schedule a client or start a loop.
LEMMA CommandShown ==
  ASSUME RoomInv, SeenInv, NEW f \in Fd,
         \/ ReplyOnly(f) \/ ConnectionLost(f) \/ HandleQuit(f)
         \/ HandleUser(f) \/ HandleJoinZero(f)
         \/ \E w \in Word : HandlePass(f, w)
         \/ \E list \in JoinLists : HandleJoin(f, list)
         \/ \E list \in TargetLists : HandlePart(f, list) \/ HandlePrivmsg(f, list)
  PROVE  SeenInv'
<1>1. task = NoTask /\ UNCHANGED <<live, closing, nick, members, operators>>
  BY DEF ReplyOnly, ConnectionLost, HandleQuit, HandleUser, HandleJoinZero,
     HandlePass, HandleJoin, HandlePart, HandlePrivmsg, StartLoop, Idle, connVars,
     identVars, relVars
<1>2. UNCHANGED <<seenNames, seenOps>> /\ pending \subseteq pending'
  <2>1. \/ Reply({f}) \/ UNCHANGED <<pending, seenVars>>
        \/ UNCHANGED seenVars /\ pending' = pending \cup {f}
    BY DEF ReplyOnly, ConnectionLost, HandleQuit, HandleUser, HandleJoinZero,
       HandlePass, HandleJoin, HandlePart, HandlePrivmsg, StartLoop, TryRegisterClient
  <2> QED
    BY <2>1, ReplyShown DEF seenVars, RoomInv
<1>3. task.cmd # "MODE"
  BY <1>1 DEF NoTask
<1>4. task'.cmd # "MODE"
  <2>1. ASSUME NEW cmd, NEW todo, StartLoop(f, cmd, todo), cmd # "MODE"
        PROVE  task'.cmd # "MODE"
    BY <2>1 DEF StartLoop, NoTask
  <2>2. CASE ReplyOnly(f) \/ ConnectionLost(f) \/ HandleQuit(f) \/ HandleUser(f)
             \/ \E w \in Word : HandlePass(f, w)
    BY <1>3, <2>2 DEF ReplyOnly, ConnectionLost, HandleQuit, HandleUser, HandlePass
  <2>3. CASE \/ HandleJoinZero(f)
             \/ \E list \in JoinLists : HandleJoin(f, list)
             \/ \E list \in TargetLists : HandlePart(f, list) \/ HandlePrivmsg(f, list)
    BY <2>1, <2>3 DEF HandleJoinZero, HandleJoin, HandlePart, HandlePrivmsg
  <2> QED
    BY <2>2, <2>3
<1> QED
  BY <1>1, <1>2, <1>3, <1>4, SameShown

\* INVITE, TOPIC, the targets of PRIVMSG and the end of a scan.
LEMMA OthersShown ==
  ASSUME RoomInv, SeenInv,
         \/ \E f \in Fd, c \in Chan, w \in Word : HandleInvite(f, w, c)
         \/ \E f \in Fd, c \in Chan, w \in Topics : HandleTopic(f, c, w)
         \/ PrivmsgNext \/ ProcessPendingDisconnects
  PROVE  SeenInv'
<1>1. CASE ProcessPendingDisconnects
  <2>1. /\ task = NoTask /\ task' = task /\ closing = {} /\ closing' = pending
        /\ UNCHANGED <<live, nick, members, operators, seenNames, seenOps>>
    BY <1>1 DEF ProcessPendingDisconnects, Idle, identVars, relVars, seenVars
  <2> QED
    BY <2>1, SameShown DEF NoTask
<1>2. CASE \/ \E f \in Fd, c \in Chan, w \in Word : HandleInvite(f, w, c)
           \/ \E f \in Fd, c \in Chan, w \in Topics : HandleTopic(f, c, w)
           \/ PrivmsgNext
  <2>1. /\ UNCHANGED <<live, closing, nick, members, operators>>
        /\ \E rcpt : Reply(rcpt)
    BY <1>2 DEF HandleInvite, HandleTopic, PrivmsgNext, connVars, identVars, relVars
  <2>2. UNCHANGED <<seenNames, seenOps>> /\ pending \subseteq pending'
    BY <2>1, ReplyShown DEF RoomInv
  <2>3. task.cmd # "MODE" /\ task'.cmd # "MODE"
    <3>1. CASE PrivmsgNext
      BY <3>1, AdvanceShown DEF PrivmsgNext, At, RoomInv
    <3>2. CASE ~PrivmsgNext
      <4>1. task = NoTask /\ task' = task
        BY <1>2, <3>2 DEF HandleInvite, HandleTopic, Idle
      <4> QED
        BY <4>1, NoTaskType
    <3> QED
      BY <3>1, <3>2
  <2> QED
    BY <2>1, <2>2, <2>3, SameShown
<1> QED
  BY <1>1, <1>2

\* The changes in a MODE notice about w.
About(changed, w) == {i \in DOMAIN changed : changed[i].mode = "o" /\ changed[i].arg = w}

LEMMA AfterModeIs ==
  ASSUME NEW ops, NEW changed, NEW w \in Word
  PROVE  w \in AfterMode(ops, changed) <=>
           IF About(changed, w) = {} THEN w \in ops
           ELSE \E i \in About(changed, w) : /\ \A j \in About(changed, w) : j <= i
                                             /\ changed[i].sign = "+"
BY DEF AfterMode, About

LEMMA AfterNoMode ==
  ASSUME NEW ops, ops \subseteq Word
  PROVE  AfterMode(ops, <<>>) = ops
BY DEF AfterMode

\* The operators S after one more change.
Amended(S, x) ==
  IF x.mode # "o" \/ x.arg \notin Word THEN S
  ELSE IF x.sign = "+" THEN S \cup {x.arg} ELSE S \ {x.arg}

\* One more change in the notice: the last one about a client counts.
LEMMA AfterOneMode ==
  ASSUME NEW ops, NEW changed \in Seq(Change), NEW x \in Change
  PROVE  AfterMode(ops, changed \o <<x>>) = Amended(AfterMode(ops, changed), x)
<1> DEFINE more == changed \o <<x>>
           n == Len(changed) + 1
<1>1. /\ more \in Seq(Change) /\ Len(more) = n /\ n \in Nat \ {0}
      /\ DOMAIN changed = 1..n - 1 /\ DOMAIN more = 1..n
      /\ more[n] = x /\ \A i \in 1..n - 1 : more[i] = changed[i]
  OBVIOUS
<1> HIDE DEF more, n
<1>2. ASSUME NEW w \in Word, ~(x.mode = "o" /\ x.arg = w)
      PROVE  w \in AfterMode(ops, more) <=> w \in AfterMode(ops, changed)
  <2>1. /\ About(more, w) = About(changed, w)
        /\ \A i \in About(changed, w) : more[i] = changed[i]
    BY <1>1, <1>2 DEF About
  <2> QED
    BY <2>1, AfterModeIs
<1>3. ASSUME NEW w \in Word, x.mode = "o", x.arg = w
      PROVE  w \in AfterMode(ops, more) <=> x.sign = "+"
  <2>1. n \in About(more, w) /\ \A j \in About(more, w) : j \in 1..n
    BY <1>1, <1>3 DEF About
  <2>2. \A i \in About(more, w) : (\A j \in About(more, w) : j <= i) <=> i = n
    BY <1>1, <2>1
  <2>3. w \in AfterMode(ops, more) <=>
          \E i \in About(more, w) : /\ \A j \in About(more, w) : j <= i
                                    /\ more[i].sign = "+"
    BY <2>1, AfterModeIs
  <2> QED
    BY <1>1, <2>1, <2>2, <2>3
<1>4. AfterMode(ops, more) \subseteq Word /\ AfterMode(ops, changed) \subseteq Word
  BY DEF AfterMode
<1>5. CASE x.mode # "o" \/ x.arg \notin Word
  <2>1. \A w \in Word : w \in AfterMode(ops, more) <=> w \in AfterMode(ops, changed)
    BY <1>2, <1>5
  <2> QED
    BY <1>4, <1>5, <2>1 DEF more, Amended
<1>6. CASE x.mode = "o" /\ x.arg \in Word
  <2>1. \A w \in Word : w \in AfterMode(ops, more) <=>
          IF w = x.arg THEN x.sign = "+" ELSE w \in AfterMode(ops, changed)
    BY <1>2, <1>3, <1>6
  <2> QED
    BY <1>4, <1>6, <2>1 DEF more, Amended
<1> QED
  BY <1>5, <1>6

\* What MODE shows in the end depends on its changes and on who presides.
LEMMA ModeStepShown ==
  ASSUME RoomInv, SeenInv, task.cmd = "MODE", task'.cmd = "MODE", task'.chan = task.chan,
         UNCHANGED <<live, closing, nick, members, seenNames, seenOps>>,
         pending \subseteq pending',
         \A c \in Chan \ {task.chan} : operators'[c] = operators[c],
         \A ops : AfterMode(ops, task.changed) = Of(nick, operators[task.chan])
                    => AfterMode(ops, task'.changed) = Of(nick, operators'[task.chan])
  PROVE  SeenInv'
<1>1. Watching' \subseteq Watching
  BY DEF Watching
<1>2. Shows(seenNames', Watching', members', members', nick')
  BY <1>1 DEF SeenInv, Shows
<1>3. ASSUME NEW f \in Watching', NEW c \in Chan
      PROVE  /\ seenOps[f][c] \subseteq Word
             /\ IF c = task.chan /\ f \in members[c]
                THEN AfterMode(seenOps[f][c], task'.changed) = Of(nick, operators'[c])
                ELSE seenOps[f][c] = IF f \in members[c] THEN Of(nick, operators'[c]) ELSE {}
  BY <1>1, <1>3 DEF SeenInv, WillShow
<1>4. WillShow'
  BY <1>3 DEF WillShow
<1> QED
  BY <1>2, <1>4 DEF SeenInv

\* The changes that are collected, but for those of operators, show nothing.
LEMMA ChangeShows ==
  ASSUME RoomInv, NEW changes, NEW args, NextChar(args, changes), task.cmd = "MODE",
         changes = <<>> \/ \E x \in Change : x.mode # "o" /\ changes = <<x>>
  PROVE  /\ task'.cmd = "MODE" /\ task'.chan = task.chan
         /\ \A ops : AfterMode(ops, task'.changed) = AfterMode(ops, task.changed)
<1>1. task \in Task /\ task.changed \in Seq(Change)
  BY DEF RoomInv, TypeOK, Task
<1>2. task' = [task EXCEPT !.todo = Tail(@), !.args = args, !.changed = @ \o changes]
  BY DEF NextChar
<1>3. task'.cmd = "MODE" /\ task'.chan = task.chan /\ task'.changed = task.changed \o changes
  BY <1>1, <1>2 DEF Task
<1>4. CASE changes = <<>>
  BY <1>1, <1>3, <1>4
<1>5. ASSUME NEW x \in Change, x.mode # "o", changes = <<x>>
      PROVE  \A ops : AfterMode(ops, task'.changed) = AfterMode(ops, task.changed)
  <2>1. \A ops : AfterMode(ops, task.changed \o <<x>>) = Amended(AfterMode(ops, task.changed), x)
    BY <1>1, AfterOneMode
  <2> QED
    BY <1>3, <1>5, <2>1 DEF Amended
<1> QED
  BY <1>3, <1>4, <1>5

\* The change that Changed reports.
OneChange(mode, arg) == [sign |-> task.sign, mode |-> mode, arg |-> arg]

LEMMA ChangedIs ==
  ASSUME TypeOK, task.sign # "", NEW mode \in ModeChar, NEW arg \in Word \cup {NoWord}
  PROVE  /\ Changed(mode, arg) = <<OneChange(mode, arg)>>
         /\ OneChange(mode, arg) \in Change
         /\ OneChange(mode, arg).mode = mode /\ OneChange(mode, arg).arg = arg
         /\ OneChange(mode, arg).sign = task.sign
<1>1. task.sign \in {"+", "-"}
  BY DEF TypeOK, Task
<1>2. OneChange(mode, arg) \in Change
  BY <1>1 DEF Change, OneChange
<1> QED
  BY <1>2 DEF Changed, OneChange

\* The characters of MODE that change no operator.
LEMMA ModeCharShown ==
  ASSUME RoomInv, SeenInv,
         ModeSign \/ ModeRefused \/ ModeI \/ ModeT \/ ModeK \/ ModeL
  PROVE  SeenInv'
<1>1. /\ task.cmd = "MODE" /\ UNCHANGED <<live, closing, nick, members, operators>>
      /\ UNCHANGED <<pending, seenVars>> \/ Reply({task.fd})
  BY DEF ModeSign, ModeRefused, ModeI, ModeT, ModeFlag, ModeK, ModeL, AtMode, At,
     connVars, identVars, relVars
<1>2. UNCHANGED <<seenNames, seenOps>> /\ pending \subseteq pending'
  BY <1>1, ReplyShown DEF seenVars, RoomInv
<1>3. task \in Task /\ task.args \in Seq(Word) /\ TypeOK
  BY DEF RoomInv, TypeOK, Task
<1>4. /\ "i" \in ModeChar \ {"o"} /\ "t" \in ModeChar \ {"o"}
      /\ "k" \in ModeChar \ {"o"} /\ "l" \in ModeChar \ {"o"}
  BY DEF ModeChar
<1>5. ASSUME NEW mode \in ModeChar \ {"o"}, NEW arg \in Word \cup {NoWord}, task.sign # ""
      PROVE  \E x \in Change : x.mode # "o" /\ Changed(mode, arg) = <<x>>
  <2>1. mode \in ModeChar /\ mode # "o"
    OBVIOUS
  <2>2. /\ Changed(mode, arg) = <<OneChange(mode, arg)>>
        /\ OneChange(mode, arg) \in Change /\ OneChange(mode, arg).mode = mode
    BY <1>3, <1>5, <2>1, ChangedIs
  <2> QED
    BY <2>1, <2>2
<1>6. CASE ModeSign
  <2>1. task' = [task EXCEPT !.todo = Tail(@), !.sign = Head(task.todo)[1]]
    BY <1>6 DEF ModeSign
  <2>2. task'.cmd = "MODE" /\ task'.chan = task.chan /\ task'.changed = task.changed
    BY <1>1, <1>3, <2>1 DEF Task
  <2> QED
    BY <1>1, <1>2, <2>2, ModeStepShown
<1>7. CASE ~ModeSign
  <2>1. \E args, changes : /\ NextChar(args, changes)
                           /\ \/ changes = <<>>
                              \/ \E x \in Change : x.mode # "o" /\ changes = <<x>>
    <3>1. CASE ModeRefused
      BY <3>1 DEF ModeRefused
    <3>2. CASE ModeI \/ ModeT
      BY <1>4, <1>5, <3>2 DEF ModeI, ModeT, ModeFlag
    <3>3. task.args # <<>> => Head(task.args) \in Word
      BY <1>3
    <3>4. CASE ModeK
      <4>1. \/ /\ task.args # <<>> /\ task.sign # ""
               /\ NextChar(Tail(task.args), Changed("k", Head(task.args)))
            \/ /\ task.sign # ""
               /\ \/ NextChar(task.args, <<>>)
                  \/ NextChar(task.args, Changed("k", NoWord))
        BY <3>4 DEF ModeK, Adding
      <4> QED
        BY <1>4, <1>5, <3>3, <4>1
    <3>5. CASE ModeL
      <4>1. \/ /\ task.args # <<>> /\ task.sign # ""
               /\ \/ NextChar(Tail(task.args), <<>>)
                  \/ NextChar(Tail(task.args), Changed("l", Head(task.args)))
            \/ /\ task.sign # ""
               /\ \/ NextChar(task.args, <<>>)
                  \/ NextChar(task.args, Changed("l", NoWord))
        BY <3>5 DEF ModeL, Adding
      <4> QED
        BY <1>4, <1>5, <3>3, <4>1
    <3> QED
      BY <1>7, <3>1, <3>2, <3>4, <3>5
  <2>2. PICK args, changes : /\ NextChar(args, changes)
                             /\ \/ changes = <<>>
                                \/ \E x \in Change : x.mode # "o" /\ changes = <<x>>
    BY <2>1
  <2>3. /\ task'.cmd = "MODE" /\ task'.chan = task.chan
        /\ \A ops : AfterMode(ops, task'.changed) = AfterMode(ops, task.changed)
    BY <1>1, <2>2, ChangeShows
  <2> QED
    BY <1>1, <1>2, <2>3, ModeStepShown
<1> QED
  BY <1>6, <1>7

\* An operator made or unmade is one more change, unless it was that already.
LEMMA ModeOShown ==
  ASSUME RoomInv, SeenInv, ModeO
  PROVE  SeenInv'
<1> DEFINE t == FindClientByNickname(Head(task.args))
           c == task.chan
<1>1. /\ task.cmd = "MODE" /\ task.sign # "" /\ task.args # <<>>
      /\ UNCHANGED <<live, closing, nick, members>>
  BY DEF ModeO, AtMode, At, connVars, identVars
<1>2. task \in Task /\ c \in Chan /\ task.changed \in Seq(Change) /\ task.sign \in {"+", "-"}
  BY <1>1, ModeOwner DEF RoomInv, TypeOK, Task
<1>3. ASSUME NEW args, NEW changes, NextChar(args, changes)
      PROVE  /\ task'.cmd = "MODE" /\ task'.chan = c
             /\ task'.changed = task.changed \o changes
  <2>1. task' = [task EXCEPT !.todo = Tail(@), !.args = args, !.changed = @ \o changes]
    BY <1>3 DEF NextChar
  <2> QED
    BY <1>1, <1>2, <2>1 DEF Task
<1>4. CASE ~(t # NoFd /\ t \in members[c])
  <2>1. NextChar(Tail(task.args), <<>>) /\ Reply({task.fd}) /\ operators' = operators
    BY <1>4 DEF ModeO
  <2>2. UNCHANGED <<seenNames, seenOps>> /\ pending \subseteq pending'
    BY <2>1, ReplyShown DEF RoomInv
  <2>3. task'.cmd = "MODE" /\ task'.chan = c /\ task'.changed = task.changed
    BY <1>2, <1>3, <2>1
  <2> QED
    BY <1>1, <2>1, <2>2, <2>3, ModeStepShown
<1>5. CASE t # NoFd /\ t \in members[c]
  <2>1. /\ operators' = [operators EXCEPT ![c] = IF Adding THEN @ \cup {t} ELSE @ \ {t}]
        /\ NextChar(Tail(task.args),
                    IF (t \in operators[c]) = Adding THEN <<>> ELSE Changed("o", nick[t]))
        /\ UNCHANGED <<pending, seenVars>>
    BY <1>5 DEF ModeO
  <2>2. /\ operators'[c] = IF Adding THEN operators[c] \cup {t} ELSE operators[c] \ {t}
        /\ \A d \in Chan \ {c} : operators'[d] = operators[d]
    BY <1>2, <2>1 DEF RoomInv, TypeOK
  <2>3. t \in Named /\ nick[t] \in Word /\ operators[c] \subseteq Named
    BY <1>2, <1>5, NamesAreUnique
  <2>4. UNCHANGED <<seenNames, seenOps>> /\ pending \subseteq pending'
    BY <2>1 DEF seenVars
  <2> HIDE DEF t, c
  <2>5. CASE (t \in operators[c]) = Adding
    <3>1. task'.cmd = "MODE" /\ task'.chan = c /\ task'.changed = task.changed
      BY <1>2, <1>3, <2>1, <2>5
    <3>2. operators'[c] = operators[c]
      BY <2>2, <2>5 DEF Adding
    <3> QED
      BY <1>1, <2>2, <2>4, <3>1, <3>2, ModeStepShown DEF c
  <2>6. CASE ~((t \in operators[c]) = Adding)
    <3> DEFINE x == OneChange("o", nick[t])
    <3>1. /\ x \in Change /\ x.mode = "o" /\ x.arg = nick[t] /\ x.sign = task.sign
          /\ Changed("o", nick[t]) = <<x>>
      <4>1. "o" \in ModeChar /\ nick[t] \in Word \cup {NoWord} /\ TypeOK
        BY <2>3 DEF ModeChar, RoomInv
      <4> QED
        BY <1>1, <4>1, ChangedIs
    <3> HIDE DEF x
    <3>2. task'.cmd = "MODE" /\ task'.chan = c /\ task'.changed = task.changed \o <<x>>
      BY <1>3, <2>1, <2>6, <3>1
    <3>3. ASSUME NEW ops
          PROVE  AfterMode(ops, task'.changed) =
                   IF Adding THEN AfterMode(ops, task.changed) \cup {nick[t]}
                   ELSE AfterMode(ops, task.changed) \ {nick[t]}
      <4>1. AfterMode(ops, task.changed \o <<x>>) = Amended(AfterMode(ops, task.changed), x)
        BY <1>2, <3>1, AfterOneMode
      <4> QED
        BY <2>3, <3>1, <3>2, <4>1 DEF Adding, Amended
    <3>4. Of(nick, operators'[c]) = IF Adding THEN Of(nick, operators[c]) \cup {nick[t]}
                                    ELSE Of(nick, operators[c]) \ {nick[t]}
      <4>1. Of(nick, operators[c] \cup {t}) = Of(nick, operators[c]) \cup {nick[t]}
        BY OfAdded
      <4>2. Of(nick, operators[c] \ {t}) = Of(nick, operators[c]) \ {nick[t]}
        BY <2>3, OfRemoved
      <4> QED
        BY <2>2, <4>1, <4>2
    <3> QED
      BY <1>1, <2>2, <2>4, <3>2, <3>3, <3>4, ModeStepShown DEF c
  <2> QED
    BY <2>5, <2>6
<1> QED
  BY <1>4, <1>5

\* The permission is checked, and the loop starts with no changes.
LEMMA ModeStartShown ==
  ASSUME RoomInv, SeenInv, NEW f \in Fd, NEW c \in Chan, NEW line \in ModeLines,
         HandleMode(f, c, line)
  PROVE  SeenInv'
<1>1. /\ task = NoTask /\ task.cmd # "MODE"
      /\ UNCHANGED <<live, closing, nick, members, operators>>
  BY NoTaskType DEF HandleMode, Idle, connVars, identVars, relVars
<1>2. CASE c \in channels /\ f \in operators[c]
  <2>1. /\ UNCHANGED <<pending, seenNames, seenOps>>
        /\ task'.cmd = "MODE" /\ task'.changed = <<>>
    BY <1>2 DEF HandleMode, NoTask, seenVars
  <2>2. Watching' = Watching
    BY <1>1, <2>1 DEF Watching
  <2>3. Shows(seenNames, Watching, members, members, nick)
        /\ Shows(seenOps, Watching, members, operators, nick)
    BY <1>1 DEF SeenInv
  <2>4. ASSUME NEW g \in Watching, NEW d \in Chan
        PROVE  /\ seenOps[g][d] = IF g \in members[d] THEN Of(nick, operators[d]) ELSE {}
               /\ seenOps[g][d] \subseteq Word
               /\ AfterMode(seenOps[g][d], <<>>) = seenOps[g][d]
    <3>1. seenOps[g][d] = IF g \in members[d] THEN Of(nick, operators[d]) ELSE {}
      BY <2>3 DEF Shows
    <3>2. Of(nick, operators[d]) \subseteq Word
      BY NamesAreUnique DEF Of
    <3> QED
      BY <3>1, <3>2, AfterNoMode
  <2>5. WillShow'
    BY <1>1, <2>1, <2>2, <2>4 DEF WillShow
  <2>6. Shows(seenNames', Watching', members', members', nick')
    BY <1>1, <2>1, <2>2, <2>3
  <2> QED
    BY <1>1, <2>1, <2>5, <2>6 DEF SeenInv
<1>3. CASE ~(c \in channels /\ f \in operators[c])
  <2>1. Reply({f}) /\ task' = task
    BY <1>3 DEF HandleMode
  <2>2. UNCHANGED <<seenNames, seenOps>> /\ pending \subseteq pending'
    BY <2>1, ReplyShown DEF RoomInv
  <2> QED
    BY <1>1, <2>1, <2>2, SameShown
<1> QED
  BY <1>2, <1>3

\* The notice shows the members what was collected.
LEMMA ModeNoticeShown ==
  ASSUME RoomInv, SeenInv, ModeNotify
  PROVE  SeenInv'
<1> DEFINE c == task.chan
           rcpt == IF task.changed = <<>> THEN {} ELSE members[c]
<1>1. PICK news : news = [g \in Fd |-> [seenOps[g] EXCEPT ![c] = AfterMode(@, task.changed)]]
  OBVIOUS
<1>2. PICK full \in SUBSET (rcpt \cap Slow) :
        /\ pending' = pending \cup full
        /\ seenNames' = Told(seenNames, rcpt, full, seenNames)
        /\ seenOps' = Told(seenOps, rcpt, full, news)
  BY <1>1 DEF ModeNotify, Queue
<1>3. /\ task.cmd = "MODE" /\ task'.cmd # "MODE" /\ c \in Chan
      /\ UNCHANGED <<live, closing, nick, members, operators>>
  BY NoTaskType, ModeOwner
  DEF ModeNotify, RoomInv, connVars, identVars, relVars
<1>4. seenNames \in Seen /\ seenOps \in Seen /\ rcpt \subseteq live
  BY <1>3, MembersAreLive DEF RoomInv, TypeOK, Seen
<1>5. Watching' \subseteq Watching /\ Watching' \cap full = {} /\ Watching' \subseteq Fd
  <2>1. Watching' \subseteq Watching /\ Watching' \cap full = {}
    BY <1>2, <1>3, FewerWatched
  <2> QED
    BY <2>1 DEF Watching, RoomInv, TypeOK
<1>6. Shows(seenNames, Watching, members, members, nick) /\ WillShow
  BY <1>3 DEF SeenInv
<1>7. Shows(Told(seenNames, rcpt, full, seenNames), Watching', members, members, nick)
  <2>1. \A g \in Watching', d \in Chan :
          (IF g \in rcpt THEN seenNames[g] ELSE seenNames[g])[d]
            = IF g \in members[d] THEN Of(nick, members[d]) ELSE {}
    BY <1>5, <1>6 DEF Shows
  <2> HIDE DEF rcpt
  <2> QED
    BY <1>5, <2>1, ToldShows
<1>8. Shows(Told(seenOps, rcpt, full, news), Watching', members, operators, nick)
  <2>1. ASSUME NEW g \in Watching', NEW d \in Chan
        PROVE  (IF g \in rcpt THEN news[g] ELSE seenOps[g])[d]
                 = IF g \in members[d] THEN Of(nick, operators[d]) ELSE {}
    <3>1. /\ g \in Fd /\ seenOps[g][d] \subseteq Word
          /\ IF d = c /\ g \in members[d]
             THEN AfterMode(seenOps[g][d], task.changed) = Of(nick, operators[d])
             ELSE seenOps[g][d] = IF g \in members[d] THEN Of(nick, operators[d]) ELSE {}
      BY <1>5, <1>6 DEF WillShow
    <3>2. news[g][d] = IF d = c THEN AfterMode(seenOps[g][d], task.changed) ELSE seenOps[g][d]
      BY <1>1, <1>4, <3>1 DEF Seen
    <3>3. CASE d # c
      BY <3>1, <3>2, <3>3
    <3>4. CASE d = c /\ task.changed # <<>>
      BY <3>1, <3>2, <3>4
    <3>5. CASE d = c /\ task.changed = <<>>
      <4>1. AfterMode(seenOps[g][d], task.changed) = seenOps[g][d]
        BY <3>1, <3>5, AfterNoMode
      <4> QED
        BY <3>1, <3>5, <4>1
    <3> QED
      BY <3>3, <3>4, <3>5
  <2> HIDE DEF rcpt
  <2> QED
    BY <1>5, <2>1, ToldShows
<1>9. \A g \in Fd \ live : /\ Told(seenNames, rcpt, full, seenNames)[g] = NothingSeen
                           /\ Told(seenOps, rcpt, full, news)[g] = NothingSeen
  <2> HIDE DEF rcpt
  <2> QED
    BY <1>4, NobodyElseTold DEF SeenInv
<1> HIDE DEF rcpt
<1> QED
  BY <1>2, <1>3, <1>7, <1>8, <1>9 DEF SeenInv

\* Every step keeps what is shown true.
LEMMA NextShown ==
  ASSUME RoomInv, SeenInv, [Next]_vars
  PROVE  SeenInv'
<1>1. CASE UNCHANGED vars
  <2>1. UNCHANGED <<live, pending, closing, nick, members, operators, task, seenNames, seenOps>>
    BY <1>1 DEF vars, connVars, identVars, relVars, seenVars
  <2>2. Watching' = Watching /\ (WillShow <=> WillShow')
    BY <2>1 DEF Watching, WillShow
  <2> QED
    BY <2>1, <2>2 DEF SeenInv
<1>2. ASSUME NEW f \in Fd, NEW w \in NickInputs[f], HandleNick(f, w)
      PROVE  SeenInv'
  <2>1. w \in Word
    BY <1>2, NamesAreDistinct DEF HandleNick
  <2> QED
    BY <1>2, <2>1, NickShown
<1>3. ASSUME NEW f \in Fd, NEW c \in Chan, NEW w \in Word,
             HandleKick(f, c, w) \/ HandleInvite(f, w, c)
      PROVE  SeenInv'
  BY <1>3, KickShown, OthersShown
<1>4. ASSUME NEW f \in Fd, NEW c \in Chan,
             \/ \E w \in Topics : HandleTopic(f, c, w)
             \/ \E line \in ModeLines : HandleMode(f, c, line)
      PROVE  SeenInv'
  BY <1>4, OthersShown, ModeStartShown
<1>5. CASE Loops
  BY <1>5, ListShown, OthersShown, ModeCharShown, ModeOShown, ModeNoticeShown DEF Loops
<1>6. CASE ProcessPendingDisconnects
  BY <1>6, OthersShown
<1>7. ASSUME NEW f \in Fd, AcceptClient(f) \/ DisconnectClient(f)
      PROVE  SeenInv'
  BY <1>7, AcceptShown, DisconnectShown DEF RoomInv
<1>8. ASSUME NEW f \in Fd,
             \/ ReplyOnly(f) \/ ConnectionLost(f) \/ HandleQuit(f)
             \/ HandleUser(f) \/ HandleJoinZero(f)
             \/ \E w \in Word : HandlePass(f, w)
             \/ \E list \in JoinLists : HandleJoin(f, list)
             \/ \E list \in TargetLists : HandlePart(f, list) \/ HandlePrivmsg(f, list)
      PROVE  SeenInv'
  BY <1>8, CommandShown
<1> QED
  BY <1>1, <1>2, <1>3, <1>4, <1>5, <1>6, <1>7, <1>8 DEF Next

\* Who is in which channel under which name is invariant with what is shown.
LEMMA SeenInvariant == Spec => [](RoomInv /\ SeenInv)
<1>1. Init => NamedInv /\ SeenInv
  <2> SUFFICES ASSUME Init
               PROVE  NamedInv /\ SeenInv
    OBVIOUS
  <2>1. live = {} /\ Watching = {} /\ task.cmd # "MODE"
    BY NoTaskType DEF Init, Watching
  <2> QED
    BY <2>1 DEF Init, NamedInv, SeenInv, Shows
<1>2. TypeOK /\ TaskInv /\ SafeInv /\ NamedInv /\ SeenInv /\ [Next]_vars
        => NamedInv' /\ SeenInv'
  BY StepMaps, NextShown DEF RoomInv
<1>3. TypeOK /\ TaskInv /\ SafeInv /\ NamedInv => RoomInv
  BY DEF RoomInv
<1> QED
  BY <1>1, <1>2, <1>3, TypeInvariant, SafeInvariant, PTL DEF Spec

\* JOIN, PART, KICK, NICK, QUIT and the names at a JOIN together keep a client
\* that reads what it is sent informed of who is in its channels.
THEOREM MembersSeenTrulyAlways == Spec => []MembersSeenTruly
<1>1. RoomInv /\ SeenInv => MembersSeenTruly
  BY DEF SeenInv, MembersSeenTruly, Shows, Watching, Nicks, Of
<1> QED
  BY <1>1, SeenInvariant, PTL

\* The same of the operators: the signs of a MODE notice, read from left to
\* right, are what the command did.
THEOREM OperatorsSeenTrulyAlways == Spec => []OperatorsSeenTruly
<1>1. RoomInv /\ SeenInv => OperatorsSeenTruly
  BY DEF SeenInv, OperatorsSeenTruly, Shows, Watching, Nicks, Of
<1> QED
  BY <1>1, SeenInvariant, PTL
=============================================================================
