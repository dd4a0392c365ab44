----------------------------- MODULE IrcServer -----------------------------
(***************************************************************************)
(* The relations the IRC server (services/irc/prd) keeps between           *)
(* connections, nicknames and channels, and the command handlers that      *)
(* change them.  The server is one thread: a handler runs to its end       *)
(* before the next one starts.  Handlers that loop over a list (JOIN,      *)
(* PART, PRIVMSG, JOIN 0, MODE) take one step per iteration and hold       *)
(* `task' meanwhile, so that nothing else runs between two iterations.     *)
(*                                                                         *)
(* A disconnection is only scheduled by the handlers; the poll loop        *)
(* carries it out at the end of the scan (ProcessPendingDisconnects, then  *)
(* DisconnectClient for each descriptor of the copied set).                *)
(*                                                                         *)
(* Abstractions.  Text is a Word; what the code asks of it is a constant   *)
(* (Nickname, ChannelKey, Fold, UserLimit).  Channel names are their       *)
(* normalised form.  Which numeric answers a refused command is kept (the  *)
(* ...Verdict operators), the text of it is not.  A send buffer is either  *)
(* able to take a message or full: fullness is a choice at every message   *)
(* to a client of Slow.  seenNames and seenOps are history variables: the  *)
(* member lists a client shows that reads everything queued to it.         *)
(***************************************************************************)
EXTENDS Naturals, Sequences, FiniteSets

CONSTANTS
  Fd,          \* descriptors the kernel may hand out, ordered
  NoFd,        \* "no such client"
  Chan,        \* normalised valid channel names
  NoChan,
  Word,        \* parameters: nicknames, keys, limits and anything else
  NoWord,      \* the empty string
  Nickname,    \* the words isValidNickname accepts
  ChannelKey,  \* the words isValidChannelKey accepts
  Fold,        \* ircCaseFold
  UserLimit,   \* the number a word denotes, 0 where +l ignores it
  Password,
  Slow,        \* the clients whose send buffer may overflow
  NickInputs,  \* the words each client may ask for as its nickname
  JoinLists,   \* the <<name, key>> lists a JOIN may carry
  TargetLists, \* the name lists a PART or a PRIVMSG may carry
  Topics,      \* the topics a TOPIC may carry, NoWord for the empty one
  ModeLines    \* the <<mode string, parameters>> a MODE may carry

ModeChar == {"+", "-", "i", "t", "k", "o", "l", "?"}

Item == (Chan \cup Word \cup ModeChar) \X (Word \cup {NoWord})

ASSUME DescriptorsAreOrdered == Fd \subseteq Nat /\ NoFd \notin Fd
ASSUME FinitelyMany == IsFiniteSet(Fd) /\ IsFiniteSet(Chan)
ASSUME NamesAreDistinct ==
  /\ NoChan \notin Chan /\ NoWord \notin Word
  /\ Nickname \subseteq Word /\ ChannelKey \subseteq Word
ASSUME TextFunctions ==
  /\ Fold \in [Word -> Word]
  /\ UserLimit \in [Word -> Nat]
  /\ Password \in Word
ASSUME InputsAreLists ==
  /\ Slow \subseteq Fd /\ NickInputs \in [Fd -> SUBSET Word]
  /\ JoinLists \subseteq Seq((Chan \cup Word) \X (Word \cup {NoWord}))
  /\ TargetLists \subseteq Seq(Chan \cup Word)
  /\ Topics \subseteq Word \cup {NoWord}
  /\ ModeLines \subseteq Seq(ModeChar) \X Seq(Word)

VARIABLES
  live,            \* keys of _clients
  fresh,           \* what acceptClient has accepted in the current scan
  pending,         \* _pendingDisconnects
  closing,         \* what processPendingDisconnects has still to close
  reasons,         \* keys of _disconnectReasons
  nick,            \* Client::_nickname
  passed,          \* Client::_passwordAccepted
  userGiven,       \* Client::_userReceived
  registered,      \* Client::_registered
  nickToFd,        \* _nickToFd, on folded nicknames
  joined,          \* Client::_joinedChannels
  channels,        \* keys of _channels
  members,         \* Channel::_members
  operators,       \* Channel::_operators
  invited,         \* Channel::_invited
  inviteOnly,      \* the channels with +i
  topicRestricted, \* the channels with +t
  key,             \* Channel::_key, NoWord without +k
  limit,           \* Channel::_userLimit, 0 without +l
  topic,           \* Channel::_topic
  task,            \* the handler whose loop is running
  seenNames,       \* the members each client has been told of
  seenOps          \* the operators each client has been told of

connVars == <<live, fresh, closing, reasons>>
identVars == <<nick, passed, userGiven, registered, nickToFd>>
relVars == <<joined, channels, members, operators, invited>>
modeVars == <<inviteOnly, topicRestricted, key, limit, topic>>
seenVars == <<seenNames, seenOps>>
vars == <<connVars, pending, identVars, relVars, modeVars, task, seenVars>>

NoTask ==
  [fd |-> NoFd, cmd |-> "NONE", chan |-> NoChan, todo |-> <<>>,
   args |-> <<>>, sign |-> "", changed |-> <<>>]

Change == [sign: {"+", "-"}, mode: ModeChar, arg: Word \cup {NoWord}]

Task ==
  [fd: Fd \cup {NoFd},
   cmd: {"NONE", "JOIN", "PART", "LEAVEALL", "PRIVMSG", "MODE"},
   chan: Chan \cup {NoChan}, todo: Seq(Item), args: Seq(Word),
   sign: {"", "+", "-"}, changed: Seq(Change)]

\* Every variable holds what its C++ counterpart can hold.
TypeOK ==
  /\ live \subseteq Fd /\ fresh \subseteq Fd
  /\ pending \subseteq Fd /\ closing \subseteq Fd /\ reasons \subseteq Fd
  /\ nick \in [Fd -> Word \cup {NoWord}]
  /\ passed \subseteq Fd /\ userGiven \subseteq Fd /\ registered \subseteq Fd
  /\ nickToFd \in [Word -> Fd \cup {NoFd}]
  /\ joined \in [Fd -> SUBSET Chan]
  /\ channels \subseteq Chan
  /\ members \in [Chan -> SUBSET Fd]
  /\ operators \in [Chan -> SUBSET Fd]
  /\ invited \in [Chan -> SUBSET Fd]
  /\ inviteOnly \subseteq Chan /\ topicRestricted \subseteq Chan
  /\ key \in [Chan -> Word \cup {NoWord}]
  /\ limit \in [Chan -> Nat]
  /\ topic \in [Chan -> Word \cup {NoWord}]
  /\ task \in Task
  /\ seenNames \in [Fd -> [Chan -> SUBSET (Word \cup {NoWord})]]
  /\ seenOps \in [Fd -> [Chan -> SUBSET (Word \cup {NoWord})]]

NothingSeen == [c \in Chan |-> {}]

Init ==
  /\ live = {} /\ fresh = {}
  /\ pending = {} /\ closing = {} /\ reasons = {}
  /\ nick = [f \in Fd |-> NoWord]
  /\ passed = {} /\ userGiven = {} /\ registered = {}
  /\ nickToFd = [w \in Word |-> NoFd]
  /\ joined = [f \in Fd |-> {}]
  /\ channels = {}
  /\ members = [c \in Chan |-> {}]
  /\ operators = [c \in Chan |-> {}]
  /\ invited = [c \in Chan |-> {}]
  /\ inviteOnly = {} /\ topicRestricted = {}
  /\ key = [c \in Chan |-> NoWord]
  /\ limit = [c \in Chan |-> 0]
  /\ topic = [c \in Chan |-> NoWord]
  /\ task = NoTask
  /\ seenNames = [f \in Fd |-> NothingSeen]
  /\ seenOps = [f \in Fd |-> NothingSeen]

-----------------------------------------------------------------------------
(***************************************************************************)
(* Sending.                                                                *)
(***************************************************************************)

Idle == task = NoTask /\ closing = {}

\* What the clients have been told once `news' has been queued to rcpt,
\* except to the ones whose send buffer is full.
Told(seen, rcpt, full, news) ==
  [f \in Fd |-> IF f \in rcpt \ full THEN news[f] ELSE seen[f]]

\* Mutant: an overflow drops the message and lets the client live on.
QueueForgetsOverflow(rcpt, names, ops) ==
  \E full \in SUBSET (rcpt \cap Slow) :
    /\ pending' = pending
    /\ seenNames' = Told(seenNames, rcpt, full, names)
    /\ seenOps' = Told(seenOps, rcpt, full, ops)

\* queueToClient for every client of rcpt.  A message that does not fit is
\* dropped and its client scheduled for disconnection.
Queue(rcpt, names, ops) ==
  \E full \in SUBSET (rcpt \cap Slow) :
    /\ pending' = pending \cup full
    /\ seenNames' = Told(seenNames, rcpt, full, names)
    /\ seenOps' = Told(seenOps, rcpt, full, ops)

\* Replies and messages that do not change what a client shows.
Reply(rcpt) == Queue(rcpt, seenNames, seenOps)

\* findClientByNickname
FindClientByNickname(w) == IF w \in Word THEN nickToFd[Fold[w]] ELSE NoFd

\* Mutant: the notice goes to the first shared channel only.
SharedWithFirst(f) ==
  IF joined[f] = {} THEN {} ELSE members[CHOOSE c \in joined[f] : TRUE] \ {f}

\* The targets of broadcastToSharedChannels.
SharedWith(f) == (UNION {members[c] : c \in joined[f]}) \ {f}

Nicks(S) == {nick[f] : f \in S}

-----------------------------------------------------------------------------
(***************************************************************************)
(* Connections.                                                            *)
(***************************************************************************)

\* Mutant: acceptClient loops until the backlog is empty.
AcceptClientRepeatedly(f) ==
  /\ Idle
  /\ f \notin live /\ \A g \in Fd \ live : f <= g
  /\ live' = live \cup {f}
  /\ fresh' = {f}
  /\ UNCHANGED <<pending, closing, reasons, identVars, relVars, modeVars,
                 task, seenVars>>

\* acceptClient: at most one accept per scan, and the kernel hands out the
\* lowest free descriptor.
AcceptClient(f) ==
  /\ Idle
  /\ fresh = {}
  /\ f \notin live /\ \A g \in Fd \ live : f <= g
  /\ live' = live \cup {f}
  /\ fresh' = {f}
  /\ UNCHANGED <<pending, closing, reasons, identVars, relVars, modeVars,
                 task, seenVars>>

\* The lines whose only effect is an answer to their sender: CAP, PING, the
\* unknown commands, the dispatcher's 451 and 462, a missing parameter
\* (461, 409, 411, 412, 431), a MODE or TOPIC query, and the refusals of
\* PASS (464), NICK (432, 433) and a second USER (462).
ReplyOnly(f) ==
  /\ Idle
  /\ f \in live
  /\ Reply({f})
  /\ UNCHANGED <<connVars, identVars, relVars, modeVars, task>>

\* recv() returned 0 or an error, an overlong line, POLLERR, POLLHUP or
\* POLLNVAL, a failed send(): the descriptor is scheduled.
ConnectionLost(f) ==
  /\ Idle
  /\ f \in live
  /\ pending' = pending \cup {f}
  /\ UNCHANGED <<connVars, identVars, relVars, modeVars, task, seenVars>>

\* handleQuit keeps the reason and schedules the descriptor.
HandleQuit(f) ==
  /\ Idle
  /\ f \in live
  /\ reasons' = reasons \cup {f}
  /\ pending' = pending \cup {f}
  /\ UNCHANGED <<live, fresh, closing, identVars, relVars, modeVars, task,
                 seenVars>>

\* The end of a scan: processPendingDisconnects copies the set and clears it.
ProcessPendingDisconnects ==
  /\ Idle
  /\ closing' = pending
  /\ pending' = {}
  /\ fresh' = {}
  /\ UNCHANGED <<live, reasons, identVars, relVars, modeVars, task, seenVars>>

\* Mutant: a channel that becomes empty is kept.
ErasedNever(f, from) == {}

\* deleteChannelIfEmpty: the channels that lose their last member.
Erased(f, from) == {c \in from : members[c] = {f}}

\* f leaves the channels of `from' and loses its invitations to those of
\* `uninvite'; a channel left empty is erased with all its settings
\* (Channel::removeMember, removeInvite, deleteChannelIfEmpty).
RemoveFrom(f, from, uninvite) ==
  LET erased == Erased(f, from)
  IN /\ joined' = [joined EXCEPT ![f] = @ \ from]
     /\ channels' = channels \ erased
     /\ members' = [c \in Chan |->
                      IF c \in from THEN members[c] \ {f} ELSE members[c]]
     /\ operators' = [c \in Chan |->
                        IF c \in from THEN operators[c] \ {f} ELSE operators[c]]
     /\ invited' = [c \in Chan |-> IF c \in erased THEN {}
                                   ELSE IF c \in uninvite THEN invited[c] \ {f}
                                   ELSE invited[c]]
     /\ inviteOnly' = inviteOnly \ erased
     /\ topicRestricted' = topicRestricted \ erased
     /\ key' = [c \in Chan |-> IF c \in erased THEN NoWord ELSE key[c]]
     /\ limit' = [c \in Chan |-> IF c \in erased THEN 0 ELSE limit[c]]
     /\ topic' = [c \in Chan |-> IF c \in erased THEN NoWord ELSE topic[c]]

\* Mutants: invitations outside the joined channels stay; only one channel
\* is left.
RemoveFromJoinedOnly(f) == RemoveFrom(f, joined[f], joined[f])
RemoveFromOne(f) ==
  RemoveFrom(f, IF joined[f] = {} THEN {} ELSE {CHOOSE c \in joined[f] : TRUE},
             Chan)

RemoveClientFromAllChannels(f) == RemoveFrom(f, joined[f], Chan)

\* What client g shows after it has been told that `name' is gone from the
\* channels of `from'.
Without(seen, g, from, name) ==
  [c \in Chan |-> IF c \in from THEN seen[g][c] \ {name} ELSE seen[g][c]]

\* disconnectClient: QUIT to the shared channels, relations, nickname index,
\* poll entry, close(), reason, client, in this order.  Descriptors are taken
\* in the ascending order of the std::set copy.
DisconnectClient(f) ==
  /\ task = NoTask
  /\ f \in closing /\ \A g \in closing : f <= g
  /\ closing' = closing \ {f}
  /\ IF f \in live
     THEN /\ \E full \in SUBSET (SharedWith(f) \cap Slow) :
               /\ pending' = pending \cup full
               /\ seenNames' =
                    [Told(seenNames, SharedWith(f), full,
                          [g \in Fd |-> Without(seenNames, g, Chan, nick[f])])
                      EXCEPT ![f] = NothingSeen]
               /\ seenOps' =
                    [Told(seenOps, SharedWith(f), full,
                          [g \in Fd |-> Without(seenOps, g, Chan, nick[f])])
                      EXCEPT ![f] = NothingSeen]
          /\ RemoveClientFromAllChannels(f)
          /\ nickToFd' = [w \in Word |->
                            IF nick[f] # NoWord /\ w = Fold[nick[f]]
                            THEN NoFd ELSE nickToFd[w]]
          /\ live' = live \ {f}
          /\ reasons' = reasons \ {f}
          /\ nick' = [nick EXCEPT ![f] = NoWord]
          /\ passed' = passed \ {f}
          /\ userGiven' = userGiven \ {f}
          /\ registered' = registered \ {f}
          /\ UNCHANGED <<fresh, task>>
     ELSE UNCHANGED <<live, fresh, reasons, pending, identVars, relVars,
                      modeVars, task, seenVars>>

-----------------------------------------------------------------------------
(***************************************************************************)
(* Registration: PASS, NICK and USER in any order.                         *)
(***************************************************************************)

\* tryRegisterClient, with the fields as the handler has just set them; the
\* welcome sequence goes to f.
TryRegisterClient(f, pass, name, user) ==
  IF pass /\ name # NoWord /\ user
  THEN registered' = registered \cup {f} /\ Reply({f})
  ELSE UNCHANGED <<registered, pending, seenVars>>

HandlePass(f, w) ==
  /\ Idle
  /\ f \in live \ registered
  /\ w = Password
  /\ passed' = passed \cup {f}
  /\ TryRegisterClient(f, TRUE, nick[f], f \in userGiven)
  /\ UNCHANGED <<connVars, nick, userGiven, nickToFd, relVars, modeVars, task>>

HandleUser(f) ==
  /\ Idle
  /\ f \in live \ registered
  /\ f \notin userGiven
  /\ userGiven' = userGiven \cup {f}
  /\ TryRegisterClient(f, f \in passed, nick[f], TRUE)
  /\ UNCHANGED <<connVars, nick, passed, nickToFd, relVars, modeVars, task>>

\* Mutant: the spelling is compared, not the folded name.
IsNicknameAvailableAsSpelt(w, exceptFd) == nickToFd[w] \in {NoFd, exceptFd}

IsNicknameAvailable(w, exceptFd) == nickToFd[Fold[w]] \in {NoFd, exceptFd}

Renamed(S, old, new) == IF old \in S THEN (S \ {old}) \cup {new} ELSE S

\* A client's member lists after a NICK notice.
AfterNick(seen, old, new) ==
  [g \in Fd |-> [c \in Chan |-> Renamed(seen[g][c], old, new)]]

\* Mutant: the old nickname stays in the index.
ReindexedKeepingOld(f, w) ==
  [v \in Word |-> IF v = Fold[w] THEN f ELSE nickToFd[v]]

\* unregisterNickname for the old nickname, registerNickname for the new one.
Reindexed(f, w) ==
  [v \in Word |-> IF v = Fold[w] THEN f
                  ELSE IF nick[f] # NoWord /\ v = Fold[nick[f]] THEN NoFd
                  ELSE nickToFd[v]]

\* handleNick: the old index entry goes before the new one is written; a
\* registered client and its shared channels are told, an unregistered one
\* may complete its registration.
HandleNick(f, w) ==
  /\ Idle
  /\ f \in live
  /\ w \in Nickname
  /\ IsNicknameAvailable(w, f)
  /\ nickToFd' = Reindexed(f, w)
  /\ nick' = [nick EXCEPT ![f] = w]
  /\ IF f \in registered
     THEN /\ Queue({f} \cup SharedWith(f), AfterNick(seenNames, nick[f], w),
                   AfterNick(seenOps, nick[f], w))
          /\ UNCHANGED registered
     ELSE TryRegisterClient(f, f \in passed, w, f \in userGiven)
  /\ UNCHANGED <<connVars, passed, userGiven, relVars, modeVars, task>>

-----------------------------------------------------------------------------
(***************************************************************************)
(* Handlers that loop over a list of names.                                *)
(***************************************************************************)

\* A handler starts its loop, or returns at once when there is nothing to do.
StartLoop(f, cmd, todo) ==
  /\ Idle
  /\ f \in registered
  /\ task' = IF todo = <<>> THEN NoTask
             ELSE [NoTask EXCEPT !.fd = f, !.cmd = cmd, !.todo = todo]
  /\ UNCHANGED <<connVars, pending, identVars, relVars, modeVars, seenVars>>

HandleJoin(f, list) == StartLoop(f, "JOIN", list)

HandlePart(f, list) ==
  StartLoop(f, "PART", [i \in DOMAIN list |-> <<list[i], NoWord>>])

HandlePrivmsg(f, list) ==
  StartLoop(f, "PRIVMSG", [i \in DOMAIN list |-> <<list[i], NoWord>>])

\* JOIN 0: leaveChannel for a copy of the joined channels.
HandleJoinZero(f) ==
  /\ \E list \in [1..Cardinality(joined[f]) -> joined[f]] :
       /\ \A i, j \in DOMAIN list : list[i] = list[j] => i = j
       /\ StartLoop(f, "LEAVEALL", [i \in DOMAIN list |-> <<list[i], NoWord>>])

\* The running loop is at an item of cmd.
At(cmd) ==
  /\ task.cmd = cmd
  /\ task.todo # <<>>

Advance ==
  task' = IF Len(task.todo) = 1 THEN NoTask
          ELSE [task EXCEPT !.todo = Tail(@)]

\* Mutants: one client too many is let in; who finds a channel without an
\* operator is treated as its founder.
JoinVerdictOffByOne(f, c, k) ==
  CASE c \notin Chan                                       -> "403"
    [] c \in Chan /\ c \in joined[f]                       -> "already joined"
    [] c \in Chan \ joined[f] /\ c \notin channels         -> "create"
    [] OTHER ->
       IF c \in inviteOnly /\ f \notin invited[c]          THEN "473"
       ELSE IF key[c] # NoWord /\ key[c] # k               THEN "475"
       ELSE IF limit[c] # 0 /\ Cardinality(members[c]) > limit[c]
                                                           THEN "471"
       ELSE "join"
JoinVerdictHandsOver(f, c, k) ==
  CASE c \notin Chan                                       -> "403"
    [] c \in Chan /\ c \in joined[f]                       -> "already joined"
    [] c \in Chan \ joined[f] /\ operators[c] = {}         -> "create"
    [] OTHER                                               -> "join"

\* What an iteration of handleJoin decides, in the order of its checks.
JoinVerdict(f, c, k) ==
  CASE c \notin Chan                                       -> "403"
    [] c \in Chan /\ c \in joined[f]                       -> "already joined"
    [] c \in Chan \ joined[f] /\ c \notin channels         -> "create"
    [] OTHER ->
       IF c \in inviteOnly /\ f \notin invited[c]          THEN "473"
       ELSE IF key[c] # NoWord /\ key[c] # k               THEN "475"
       ELSE IF limit[c] # 0 /\ Cardinality(members[c]) >= limit[c]
                                                           THEN "471"
       ELSE "join"

\* joinChannel, addOperator for a channel just created, removeInvite, JOIN
\* to every member, topic and names to the newcomer.
JoinChannel(f, c, created) ==
  /\ joined' = [joined EXCEPT ![f] = @ \cup {c}]
  /\ channels' = channels \cup {c}
  /\ members' = [members EXCEPT ![c] = @ \cup {f}]
  /\ operators' = IF created THEN [operators EXCEPT ![c] = @ \cup {f}]
                  ELSE operators
  /\ invited' = [invited EXCEPT ![c] = @ \ {f}]
  /\ topicRestricted' = IF created THEN topicRestricted \cup {c}
                        ELSE topicRestricted
  /\ Queue(members[c] \cup {f},
           [g \in Fd |-> [seenNames[g] EXCEPT ![c] =
              IF g = f THEN Nicks(members[c] \cup {f}) ELSE @ \cup {nick[f]}]],
           [g \in Fd |-> [seenOps[g] EXCEPT ![c] =
              IF g = f THEN Nicks(IF created THEN {f} ELSE operators[c])
              ELSE @]])
  /\ UNCHANGED <<inviteOnly, key, limit, topic>>

JoinNext ==
  /\ At("JOIN")
  /\ LET f == task.fd
         c == Head(task.todo)[1]
         verdict == JoinVerdict(f, c, Head(task.todo)[2])
     IN CASE verdict \in {"create", "join"} ->
               JoinChannel(f, c, verdict = "create")
          [] verdict = "already joined" ->
               UNCHANGED <<pending, relVars, modeVars, seenVars>>
          [] OTHER ->
               Reply({f}) /\ UNCHANGED <<relVars, modeVars>>
  /\ Advance
  /\ UNCHANGED <<connVars, identVars>>

\* leaveChannel(f, c, reason, TRUE): PART to every member, f included, then
\* the relations.
LeaveChannel(f, c) ==
  /\ Queue(members[c],
           [g \in Fd |-> IF g = f THEN [seenNames[g] EXCEPT ![c] = {}]
                         ELSE Without(seenNames, g, {c}, nick[f])],
           [g \in Fd |-> IF g = f THEN [seenOps[g] EXCEPT ![c] = {}]
                         ELSE Without(seenOps, g, {c}, nick[f])])
  /\ RemoveFrom(f, {c}, {c})

PartNext ==
  /\ At("PART")
  /\ LET f == task.fd
         c == Head(task.todo)[1]
     IN IF c \in channels /\ f \in members[c]
        THEN LeaveChannel(f, c)
        ELSE Reply({f}) /\ UNCHANGED <<relVars, modeVars>> \* 403, 442
  /\ Advance
  /\ UNCHANGED <<connVars, identVars>>

LeaveAllNext ==
  /\ At("LEAVEALL")
  /\ LET f == task.fd
         c == Head(task.todo)[1]
     IN IF c \in channels /\ f \in members[c]
        THEN LeaveChannel(f, c)
        ELSE UNCHANGED <<pending, relVars, modeVars, seenVars>>
  /\ Advance
  /\ UNCHANGED <<connVars, identVars>>

\* The recipients of one PRIVMSG target, or the sender for 403, 404, 401.
PrivmsgRecipients(f, target) ==
  CASE target \in channels /\ f \in members[target] -> members[target] \ {f}
    [] target \notin Chan /\ FindClientByNickname(target) # NoFd ->
         {FindClientByNickname(target)}
    [] OTHER -> {f}

PrivmsgNext ==
  /\ At("PRIVMSG")
  /\ Reply(PrivmsgRecipients(task.fd, Head(task.todo)[1]))
  /\ Advance
  /\ UNCHANGED <<connVars, identVars, relVars, modeVars>>

-----------------------------------------------------------------------------
(***************************************************************************)
(* KICK, INVITE and TOPIC.                                                 *)
(***************************************************************************)

KickVerdict(f, c, w) ==
  LET target == FindClientByNickname(w)
  IN CASE c \notin channels                     -> "403"
       [] c \in channels /\ f \notin members[c] -> "442"
       [] OTHER -> IF f \notin operators[c]      THEN "482"
                   ELSE IF target = NoFd         THEN "401"
                   ELSE IF target \notin members[c] THEN "441"
                   ELSE "kick"

\* handleKick: KICK to every member, target included, then
\* leaveChannel(target, c, reason, FALSE).  A client may kick itself.
HandleKick(f, c, w) ==
  /\ Idle
  /\ f \in registered
  /\ LET t == FindClientByNickname(w)
     IN IF KickVerdict(f, c, w) = "kick"
        THEN LeaveChannel(t, c)
        ELSE Reply({f}) /\ UNCHANGED <<relVars, modeVars>>
  /\ UNCHANGED <<connVars, identVars, task>>

\* Mutants: the 401 or the 443 check is missing.
InviteVerdictAnybody(f, w, c) ==
  IF c \notin channels           THEN "403"
  ELSE IF f \notin members[c]    THEN "442"
  ELSE IF f \notin operators[c]  THEN "482"
  ELSE "invite"
InviteVerdictMembersToo(f, w, c) ==
  IF FindClientByNickname(w) = NoFd THEN "401" ELSE InviteVerdictAnybody(f, w, c)

InviteVerdict(f, w, c) ==
  LET target == FindClientByNickname(w)
  IN CASE target = NoFd                          -> "401"
       [] target # NoFd /\ c \notin channels     -> "403"
       [] OTHER -> IF f \notin members[c]        THEN "442"
                   ELSE IF f \notin operators[c] THEN "482"
                   ELSE IF target \in members[c] THEN "443"
                   ELSE "invite"

\* handleInvite: the target need not be registered, only hold a nickname.
HandleInvite(f, w, c) ==
  /\ Idle
  /\ f \in registered
  /\ LET t == FindClientByNickname(w)
     IN IF InviteVerdict(f, w, c) = "invite"
        THEN /\ invited' = [invited EXCEPT ![c] = @ \cup {t}]
             /\ Reply({f, t})
        ELSE Reply({f}) /\ UNCHANGED invited
  /\ UNCHANGED <<connVars, identVars, joined, channels, members, operators,
                 modeVars, task>>

TopicVerdict(f, c) ==
  CASE c \notin channels                     -> "403"
    [] c \in channels /\ f \notin members[c] -> "442"
    [] OTHER -> IF c \in topicRestricted /\ f \notin operators[c] THEN "482"
                ELSE "set"

\* handleTopic with a new topic; the empty one removes it.
HandleTopic(f, c, w) ==
  /\ Idle
  /\ f \in registered
  /\ IF TopicVerdict(f, c) = "set"
     THEN topic' = [topic EXCEPT ![c] = w] /\ Reply(members[c])
     ELSE Reply({f}) /\ UNCHANGED topic
  /\ UNCHANGED <<connVars, identVars, relVars, inviteOnly, topicRestricted,
                 key, limit, task>>

-----------------------------------------------------------------------------
(***************************************************************************)
(* MODE: one step per character of the mode string, then one notice.       *)
(***************************************************************************)

\* handleMode up to the parsing loop: the permission is checked once.
HandleMode(f, c, line) ==
  /\ Idle
  /\ f \in registered
  /\ IF c \in channels /\ f \in operators[c]
     THEN /\ task' = [NoTask EXCEPT
                        !.fd = f, !.cmd = "MODE", !.chan = c,
                        !.todo = [i \in DOMAIN line[1] |->
                                    <<line[1][i], NoWord>>],
                        !.args = line[2]]
          /\ UNCHANGED <<pending, seenVars>>
     ELSE Reply({f}) /\ UNCHANGED task \* 403, 442, 482
  /\ UNCHANGED <<connVars, identVars, relVars, modeVars>>

\* The loop is at a character of `chars'.
AtMode(chars) ==
  /\ At("MODE")
  /\ Head(task.todo)[1] \in chars

Adding == task.sign = "+"

NextChar(args, changes) ==
  task' = [task EXCEPT !.todo = Tail(@), !.args = args,
                       !.changed = @ \o changes]

\* Mutant: the sign of a change is lost.
ChangedUnsigned(mode, arg) == <<[sign |-> "+", mode |-> mode, arg |-> arg]>>

Changed(mode, arg) == <<[sign |-> task.sign, mode |-> mode, arg |-> arg]>>

\* '+' and '-'
ModeSign ==
  /\ AtMode({"+", "-"})
  /\ task' = [task EXCEPT !.todo = Tail(@), !.sign = Head(task.todo)[1]]
  /\ UNCHANGED <<connVars, pending, identVars, relVars, modeVars, seenVars>>

\* A mode before any sign, an unknown mode (472), or a parameter that is
\* missing or, for +k, not a key (461: the parameter is not consumed).
ModeRefused ==
  /\ AtMode(ModeChar \ {"+", "-"})
  /\ LET char == Head(task.todo)[1]
     IN \/ task.sign = ""
        \/ char = "?"
        \/ /\ char = "o" \/ (Adding /\ char \in {"k", "l"})
           /\ task.args = <<>>
        \/ /\ char = "k" /\ Adding /\ task.args # <<>>
           /\ Head(task.args) \notin ChannelKey
  /\ Reply({task.fd})
  /\ NextChar(task.args, <<>>)
  /\ UNCHANGED <<connVars, identVars, relVars, modeVars>>

\* +i -i and +t -t: only a real change is reported.
ModeFlag(char, flag) ==
  /\ AtMode({char})
  /\ task.sign # ""
  /\ NextChar(task.args, IF (task.chan \in flag) = Adding THEN <<>>
                         ELSE Changed(char, NoWord))

Flagged(flag) == IF Adding THEN flag \cup {task.chan} ELSE flag \ {task.chan}

ModeI ==
  /\ ModeFlag("i", inviteOnly)
  /\ inviteOnly' = Flagged(inviteOnly)
  /\ UNCHANGED <<connVars, pending, identVars, relVars, topicRestricted, key,
                 limit, topic, seenVars>>

ModeT ==
  /\ ModeFlag("t", topicRestricted)
  /\ topicRestricted' = Flagged(topicRestricted)
  /\ UNCHANGED <<connVars, pending, identVars, relVars, inviteOnly, key,
                 limit, topic, seenVars>>

\* +k takes a valid key, -k nothing.
ModeK ==
  /\ AtMode({"k"})
  /\ \/ /\ Adding
        /\ task.args # <<>> /\ Head(task.args) \in ChannelKey
        /\ key' = [key EXCEPT ![task.chan] = Head(task.args)]
        /\ NextChar(Tail(task.args), Changed("k", Head(task.args)))
     \/ /\ task.sign = "-"
        /\ key' = [key EXCEPT ![task.chan] = NoWord]
        /\ NextChar(task.args, IF key[task.chan] = NoWord THEN <<>>
                               ELSE Changed("k", NoWord))
  /\ UNCHANGED <<connVars, pending, identVars, relVars, inviteOnly,
                 topicRestricted, limit, topic, seenVars>>

\* +l takes a number (one out of range is consumed and ignored), -l nothing.
ModeL ==
  /\ AtMode({"l"})
  /\ \/ /\ Adding
        /\ task.args # <<>>
        /\ LET n == UserLimit[Head(task.args)]
           IN /\ limit' = [limit EXCEPT ![task.chan] = IF n = 0 THEN @ ELSE n]
              /\ NextChar(Tail(task.args), IF n = 0 THEN <<>>
                                           ELSE Changed("l", Head(task.args)))
     \/ /\ task.sign = "-"
        /\ limit' = [limit EXCEPT ![task.chan] = 0]
        /\ NextChar(task.args, IF limit[task.chan] = 0 THEN <<>>
                               ELSE Changed("l", NoWord))
  /\ UNCHANGED <<connVars, pending, identVars, relVars, inviteOnly,
                 topicRestricted, key, topic, seenVars>>

\* +o and -o always consume their parameter; 401 and 441 go to the sender.
ModeO ==
  /\ AtMode({"o"})
  /\ task.sign # "" /\ task.args # <<>>
  /\ LET t == FindClientByNickname(Head(task.args))
         c == task.chan
     IN IF t # NoFd /\ t \in members[c]
        THEN /\ operators' = [operators EXCEPT ![c] =
                                IF Adding THEN @ \cup {t} ELSE @ \ {t}]
             /\ NextChar(Tail(task.args),
                         IF (t \in operators[c]) = Adding THEN <<>>
                         ELSE Changed("o", nick[t]))
             /\ UNCHANGED <<pending, seenVars>>
        ELSE /\ NextChar(Tail(task.args), <<>>)
             /\ Reply({task.fd})
             /\ UNCHANGED operators
  /\ UNCHANGED <<connVars, identVars, joined, channels, members, invited,
                 modeVars>>

\* The operators a client shows after it has read, left to right, the
\* changes of one MODE notice.
AfterMode(ops, changed) ==
  LET about(w) == {i \in DOMAIN changed :
                     changed[i].mode = "o" /\ changed[i].arg = w}
  IN {w \in Word : IF about(w) = {} THEN w \in ops
                   ELSE \E i \in about(w) : /\ \A j \in about(w) : j <= i
                                            /\ changed[i].sign = "+"}

\* The aggregated notice to the members, if anything changed.
ModeNotify ==
  /\ task.cmd = "MODE" /\ task.todo = <<>>
  /\ LET c == task.chan
     IN Queue(IF task.changed = <<>> THEN {} ELSE members[c], seenNames,
              [g \in Fd |-> [seenOps[g] EXCEPT ![c] =
                               AfterMode(@, task.changed)]])
  /\ task' = NoTask
  /\ UNCHANGED <<connVars, identVars, relVars, modeVars>>

-----------------------------------------------------------------------------
Loops ==
  \/ JoinNext \/ PartNext \/ LeaveAllNext \/ PrivmsgNext
  \/ ModeSign \/ ModeRefused \/ ModeI \/ ModeT \/ ModeK \/ ModeL \/ ModeO
  \/ ModeNotify

Next ==
  \/ ProcessPendingDisconnects
  \/ Loops
  \/ \E f \in Fd :
       \/ AcceptClient(f) \/ ReplyOnly(f) \/ ConnectionLost(f)
       \/ HandleQuit(f) \/ DisconnectClient(f) \/ HandleUser(f)
       \/ HandleJoinZero(f)
       \/ \E w \in Word : HandlePass(f, w)
       \/ \E w \in NickInputs[f] : HandleNick(f, w)
       \/ \E list \in JoinLists : HandleJoin(f, list)
       \/ \E list \in TargetLists : HandlePart(f, list) \/ HandlePrivmsg(f, list)
       \/ \E c \in Chan :
            \/ \E w \in Word : HandleKick(f, c, w) \/ HandleInvite(f, w, c)
            \/ \E w \in Topics : HandleTopic(f, c, w)
            \/ \E line \in ModeLines : HandleMode(f, c, line)

Spec == Init /\ [][Next]_vars

-----------------------------------------------------------------------------
(***************************************************************************)
(* Properties.                                                             *)
(***************************************************************************)

\* Channel and client agree on who is where; operators are members; members
\* have registered; a channel exists exactly while it has a member.  (Every
\* handler updates both sides, by several calls.)
RelationsAgree ==
  /\ \A f \in Fd, c \in Chan : c \in joined[f] <=> f \in members[c]
  /\ \A c \in Chan : operators[c] \subseteq members[c]
  /\ \A c \in Chan : members[c] \subseteq registered
  /\ \A c \in Chan : c \in channels <=> members[c] # {}

\* The nickname index holds exactly the nicknames of the connected clients:
\* no two clients share a folded nickname and no entry outlives its client.
NickIndexExact ==
  \A f \in Fd, w \in Word :
    nickToFd[w] = f <=> f \in live /\ nick[f] # NoWord /\ Fold[nick[f]] = w

\* A descriptor that is not connected has left no membership, invitation,
\* registration or quit reason that the next connection with the same
\* number would inherit.
NothingOutlivesDisconnect ==
  \A f \in Fd \ live :
    /\ f \notin registered \cup passed \cup userGiven \cup reasons
    /\ nick[f] = NoWord
    /\ \A c \in Chan : f \notin members[c] \cup invited[c]

\* An invitation is spent by joining: a member holds none, so a client that
\* is kicked from a +i channel must be invited again.
InviteIsSpent == \A c \in Chan : invited[c] \cap members[c] = {}

\* A client that reads what is queued to it, and is not about to be
\* disconnected, shows the true member list of each channel it is in, and
\* nothing for the others.
MembersSeenTruly ==
  \A f \in live \ (pending \cup closing), c \in Chan :
    seenNames[f][c] = IF f \in members[c] THEN Nicks(members[c]) ELSE {}

\* The same of the operators, once the MODE notice has been sent.
OperatorsSeenTruly ==
  task.cmd # "MODE" =>
    \A f \in live \ (pending \cup closing), c \in Chan :
      seenOps[f][c] = IF f \in members[c] THEN Nicks(operators[c]) ELSE {}

\* A disconnection scheduled for a closed connection never hits the next
\* connection that gets the same descriptor.
NoInheritedDisconnect ==
  [][\A f \in live' \ live : f \notin pending']_vars

\* Operator rights are never handed over by the server: a channel that has
\* members and no operator gets no operator until it has been deleted.
NoOperatorFromNowhere ==
  [][\A c \in channels \cap channels' :
       operators[c] = {} /\ task.cmd # "MODE" => operators'[c] = {}]_vars

\* Who enters an existing channel meets its modes as they are at that time,
\* in the middle of a list too.
AdmissionControl ==
  [][\A c \in channels : \A f \in members'[c] \ members[c] :
       /\ c \in inviteOnly => f \in invited[c] /\ f \notin invited'[c]
       /\ limit[c] # 0 => Cardinality(members'[c]) <= limit[c]
       /\ key[c] # NoWord => key[c] = Head(task.todo)[2]
       /\ f \notin operators'[c]]_vars
=============================================================================
