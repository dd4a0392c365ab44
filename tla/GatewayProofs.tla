---------------------------- MODULE GatewayProofs ----------------------------
(***************************************************************************)
(* Proofs about Gateway, for any number of sockets, addresses, channels    *)
(* and nicknames and any caps: types, the count of slots, and that the     *)
(* history of a channel reaches only those whom the channel admitted.      *)
(***************************************************************************)
EXTENDS Gateway, FiniteSetTheorems, TLAPS

USE CapsAreNumbers, FinitelyManySockets, NamesAreDistinct

(***************************************************************************)
(* The inductive invariant, one part for each group of variables.          *)
(***************************************************************************)

\* The sockets and their slots.
SlotInv ==
  /\ ws \in [Ws -> {"none", "open", "closing", "closed"}]
  /\ address \in [Ws -> Address]
  /\ connectionsPerIp \in [Address -> Nat]
  /\ alive \subseteq Ws /\ vanished \subseteq Ws
  /\ SlotsAreExact

\* A session that has connected has a nickname and a channel to ask for.
SessionInv ==
  /\ actions \in [Ws -> 0..MaxActions]
  /\ irc \in [Ws -> {"null", "connecting", "open", "closed"}]
  /\ ended \subseteq Ws
  /\ nickname \in [Ws -> Nick \cup {NoNick}]
  /\ joinedChannel \in [Ws -> Chan \cup {NoChan}]
  /\ \A s \in Ws : irc[s] # "null" => nickname[s] \in Nick /\ joinedChannel[s] \in Chan

\* What the IRC server knows; a registered client has a nickname.
ServerInv ==
  /\ server \in [Ws -> {"none", "connected", "closed"}]
  /\ serverNick \in [Ws -> Nick \cup {NoNick}]
  /\ hasUser \subseteq Ws /\ registered \subseteq Ws
  /\ members \in [Chan -> SUBSET Ws]
  /\ entered \in [Ws -> SUBSET Chan]
  /\ \A s \in registered : serverNick[s] \in Nick
  /\ \A c \in Chan : \A s \in members[c] : c \in entered[s]

\* A JOIN is announced only to those whom the channel has admitted.
LineInv ==
  /\ toServer \in [Ws -> Seq(Lines)]
  /\ fromServer \in [Ws -> Seq(Replies)]
  /\ replayed \in [Ws -> SUBSET Chan]
  /\ \A s \in Ws : \A i \in 1..Len(fromServer[s]) :
       fromServer[s][i].type = "JOIN" => fromServer[s][i].chan \in entered[s]
  /\ ReplayToMembersOnly

GatewayInv == SlotInv /\ SessionInv /\ ServerInv /\ LineInv

LEMMA InitEstablishes == Init => GatewayInv
<1> SUFFICES ASSUME Init PROVE GatewayInv
  OBVIOUS
<1>1. SlotInv
  <2>1. Clients = {} /\ \A a \in Address : {s \in Clients : address[s] = a} = {}
    BY DEF Init, Clients
  <2>2. SlotsAreExact
    BY <2>1, FS_EmptySet DEF Init, SlotsAreExact
  <2> QED
    BY <2>2 DEF Init, SlotInv
<1>2. SessionInv
  BY DEF Init, SessionInv
<1>3. ServerInv
  BY DEF Init, ServerInv
<1>4. LineInv
  BY DEF Init, LineInv, ReplayToMembersOnly
<1> QED
  BY <1>1, <1>2, <1>3, <1>4 DEF GatewayInv

-----------------------------------------------------------------------------
(***************************************************************************)
(* Slots.                                                                  *)
(***************************************************************************)

\* What the clients of one address count for.
At(a) == {s \in Clients : address[s] = a}

LEMMA ClientsAreFinite ==
  /\ IsFiniteSet(Clients) /\ Cardinality(Clients) \in Nat
  /\ \A a : IsFiniteSet(At(a)) /\ Cardinality(At(a)) \in Nat
<1>1. Clients \in SUBSET Ws /\ \A a : At(a) \in SUBSET Ws
  BY DEF Clients, At
<1> QED
  BY <1>1, FS_Subset, FS_CardinalityType

\* A step that neither opens nor closes a socket for good.
LEMMA SlotsStay ==
  ASSUME SlotInv, UNCHANGED <<address, connectionsPerIp>>, Clients' = Clients,
         ws' \in [Ws -> {"none", "open", "closing", "closed"}],
         alive' \subseteq Ws, vanished' \subseteq Ws
  PROVE  SlotInv'
BY DEF SlotInv, SlotsAreExact

\* A handshake takes one slot, where both caps leave room.
LEMMA ConnectionTakesOne ==
  ASSUME SlotInv, NEW s \in Ws, Connection(s)
  PROVE  SlotInv'
<1> DEFINE a == address[s]
<1>1. /\ ws[s] = "none" /\ a \in Address
      /\ ws' = [ws EXCEPT ![s] = "open"]
      /\ connectionsPerIp' = [connectionsPerIp EXCEPT ![a] = @ + 1]
      /\ alive' = alive \cup {s}
      /\ UNCHANGED <<address, vanished>>
      /\ Cardinality(Clients) < MaxConnections /\ connectionsPerIp[a] < MaxPerIp
  BY DEF Connection, VerifyClient, SlotInv
<1>2. s \notin Clients /\ Clients' = Clients \cup {s}
  BY <1>1 DEF Clients, SlotInv
<1>3. At(a)' = At(a) \cup {s} /\ s \notin At(a)
  BY <1>1, <1>2 DEF At, SlotInv
<1>4. \A b \in Address : b # a => At(b)' = At(b)
  BY <1>1, <1>2 DEF At, SlotInv
<1>5. /\ Cardinality(At(a)') = Cardinality(At(a)) + 1
      /\ Cardinality(Clients') = Cardinality(Clients) + 1
  BY <1>2, <1>3, ClientsAreFinite, FS_AddElement
<1>6. \A b \in Address : connectionsPerIp[b] = Cardinality(At(b))
  BY DEF SlotInv, SlotsAreExact, At
<1>7. ASSUME NEW b \in Address
      PROVE  connectionsPerIp'[b] = Cardinality(At(b)') /\ connectionsPerIp'[b] <= MaxPerIp
  <2>1. CASE b = a
    BY <1>1, <1>5, <1>6, <2>1 DEF SlotInv
  <2>2. CASE b # a
    BY <1>1, <1>4, <1>6, <2>2 DEF SlotInv, SlotsAreExact
  <2> QED
    BY <2>1, <2>2
<1>8. Cardinality(Clients') <= MaxConnections
  BY <1>1, <1>5, ClientsAreFinite
<1>9. SlotsAreExact'
  BY <1>7, <1>8 DEF SlotsAreExact, At
<1> QED
  BY <1>1, <1>9 DEF SlotInv

\* The close event gives exactly that one back.
LEMMA CloseGivesOneBack ==
  ASSUME SlotInv, NEW s \in Ws, OnClose(s)
  PROVE  SlotInv'
<1> DEFINE a == address[s]
<1>1. /\ ws[s] = "closing" /\ a \in Address
      /\ ws' = [ws EXCEPT ![s] = "closed"]
      /\ connectionsPerIp' = [connectionsPerIp EXCEPT ![a] = @ - 1]
      /\ UNCHANGED <<address, alive, vanished>>
  BY DEF OnClose, SlotInv
<1>2. s \in Clients /\ Clients' = Clients \ {s}
  BY <1>1 DEF Clients, SlotInv
<1>3. At(a)' = At(a) \ {s} /\ s \in At(a)
  BY <1>1, <1>2 DEF At, SlotInv
<1>4. \A b \in Address : b # a => At(b)' = At(b)
  BY <1>1, <1>2 DEF At, SlotInv
<1>5. /\ Cardinality(At(a)') = Cardinality(At(a)) - 1
      /\ Cardinality(Clients') = Cardinality(Clients) - 1
      /\ Cardinality(At(a)') \in Nat
  <2>1. IsFiniteSet(At(a)')
    BY <1>3, ClientsAreFinite, FS_RemoveElement
  <2> QED
    BY <1>2, <1>3, <2>1, ClientsAreFinite, FS_RemoveElement, FS_CardinalityType
<1>6. \A b \in Address : connectionsPerIp[b] = Cardinality(At(b))
  BY DEF SlotInv, SlotsAreExact, At
<1>7. ASSUME NEW b \in Address
      PROVE  /\ connectionsPerIp'[b] = Cardinality(At(b)')
             /\ connectionsPerIp'[b] \in Nat /\ connectionsPerIp'[b] <= MaxPerIp
  <2>1. CASE b = a
    <3>1. connectionsPerIp'[b] = connectionsPerIp[b] - 1
      BY <1>1, <2>1 DEF SlotInv
    <3>2. connectionsPerIp[b] \in Nat /\ connectionsPerIp[b] <= MaxPerIp
      BY DEF SlotInv, SlotsAreExact
    <3>3. At(b)' = At(a)'
      BY <1>1, <2>1 DEF At
    <3>4. Cardinality(At(b)') = Cardinality(At(b)) - 1 /\ Cardinality(At(b)') \in Nat
      BY <1>5, <2>1, <3>3
    <3> QED
      BY <1>6, <3>1, <3>2, <3>4
  <2>2. CASE b # a
    BY <1>1, <1>4, <1>6, <2>2 DEF SlotInv, SlotsAreExact
  <2> QED
    BY <2>1, <2>2
<1>8. Cardinality(Clients') <= MaxConnections
  BY <1>5, ClientsAreFinite DEF SlotInv, SlotsAreExact
<1>9. SlotsAreExact'
  BY <1>7, <1>8 DEF SlotsAreExact, At
<1>10. connectionsPerIp' \in [Address -> Nat]
  BY <1>1, <1>7 DEF SlotInv
<1> QED
  BY <1>1, <1>9, <1>10 DEF SlotInv

-----------------------------------------------------------------------------
(***************************************************************************)
(* The steps, by what they touch.                                          *)
(***************************************************************************)

\* Steps that touch nothing but sockets.
SocketStep(s) ==
  Connection(s) \/ Heartbeat(s) \/ Pong(s) \/ BrowserCloses(s) \/ BrowserVanishes(s)

\* Messages of the browser.
MessageStep(s) ==
  \/ ActionRejected(s)
  \/ \E c \in Chan : OnChat(s, c) \/ OnJoin(s, c) \/ OnPart(s, c)
  \/ \E n \in Nick : OnNick(s, n) \/ \E c \in Chan : OnConnect(s, n, c)

\* The callbacks of the IRC connection.
IrcStep(s) == IrcAttempt(s) \/ OnIrcMessage(s) \/ OnIrcClose(s)

\* The IRC server and its other users.
ServerMoves ==
  \/ \E s \in Ws : ServerStep(s) \/ ServerDrops(s)
  \/ \E n \in Nick, c \in Chan : OutsiderJoins(n, c)

LEMMA StepsAreSorted ==
  Next => \/ \E s \in Ws : SocketStep(s) \/ OnClose(s) \/ MessageStep(s) \/ IrcStep(s)
          \/ ServerMoves
          \/ UNCHANGED vars
BY DEF Next, GatewayStep, BrowserStep, Over, SocketStep, MessageStep, IrcStep,
   ServerMoves

\* What the parts depend on.
LEMMA SessionStays ==
  ASSUME SessionInv, UNCHANGED <<actions, irc, ended, nickname, joinedChannel>>
  PROVE  SessionInv'
BY DEF SessionInv

LEMMA ServerStays ==
  ASSUME ServerInv, UNCHANGED serverVars
  PROVE  ServerInv'
BY DEF ServerInv, serverVars

LEMMA LinesStay ==
  ASSUME LineInv, UNCHANGED <<fromServer, replayed, entered>>,
         toServer' \in [Ws -> Seq(Lines)]
  PROVE  LineInv'
BY DEF LineInv, ReplayToMembersOnly

LEMMA ClientsStay ==
  ASSUME UNCHANGED ws PROVE Clients' = Clients
BY DEF Clients

LEMMA SocketStepKeeps ==
  ASSUME GatewayInv, NEW s \in Ws, SocketStep(s)
  PROVE  GatewayInv'
<1> USE DEF GatewayInv
<1>1. UNCHANGED <<actions, sessionVars, history, replayed, lineVars, serverVars>>
  BY DEF SocketStep, Connection, Heartbeat, Pong, BrowserCloses, BrowserVanishes
<1>2. SessionInv' /\ ServerInv' /\ LineInv'
  <2>1. UNCHANGED <<actions, irc, ended, nickname, joinedChannel, history,
                    fromServer, toServer, replayed, entered>>
    BY <1>1 DEF sessionVars, lineVars, serverVars
  <2>2. toServer' \in [Ws -> Seq(Lines)]
    BY <2>1 DEF LineInv
  <2> QED
    BY <1>1, <2>1, <2>2, SessionStays, ServerStays, LinesStay
<1>3. SlotInv'
  <2>1. CASE Connection(s)
    BY <2>1, ConnectionTakesOne
  <2>2. CASE Heartbeat(s) \/ BrowserCloses(s)
    <3>1. /\ ws[s] = "open" /\ (ws' = ws \/ ws' = [ws EXCEPT ![s] = "closing"])
          /\ UNCHANGED <<address, connectionsPerIp, vanished>>
          /\ alive' = alive \/ alive' = alive \ {s}
      BY <2>2 DEF Heartbeat, BrowserCloses
    <3>2. Clients' = Clients /\ ws' \in [Ws -> {"none", "open", "closing", "closed"}]
      BY <3>1 DEF Clients, SlotInv
    <3>3. alive' \subseteq Ws /\ vanished' \subseteq Ws
      BY <3>1 DEF SlotInv
    <3> QED
      BY <3>1, <3>2, <3>3, SlotsStay
  <2>3. CASE Pong(s) \/ BrowserVanishes(s)
    <3>1. /\ UNCHANGED <<ws, address, connectionsPerIp>>
          /\ alive' \subseteq Ws /\ vanished' \subseteq Ws
      BY <2>3 DEF Pong, BrowserVanishes, SlotInv
    <3> QED
      BY <3>1, SlotsStay, ClientsStay DEF SlotInv
  <2> QED
    BY <2>1, <2>2, <2>3 DEF SocketStep
<1> QED
  BY <1>2, <1>3

\* Lines that a session writes are lines.
LEMMA SentIsLines ==
  ASSUME LineInv, NEW s \in Ws, NEW lines \in Seq(Lines)
  PROVE  Sent(s, lines) \in [Ws -> Seq(Lines)]
<1>1. toServer[s] \in Seq(Lines) /\ toServer[s] \o lines \in Seq(Lines)
  BY DEF LineInv
<1> QED
  BY <1>1 DEF Sent, LineInv

LEMMA OnCloseKeeps ==
  ASSUME GatewayInv, NEW s \in Ws, OnClose(s)
  PROVE  GatewayInv'
<1> USE DEF GatewayInv
<1>1. /\ UNCHANGED <<actions, irc, nickname, joinedChannel, history, replayed,
                     fromServer, serverVars>>
      /\ Quit(s)
  BY DEF OnClose
<1>2. <<[type |-> "QUIT"]>> \in Seq(Lines)
  <2>1. [type |-> "QUIT"] \in Lines
    BY DEF Lines
  <2> QED
    BY <2>1
<1>3. /\ toServer' = toServer \/ toServer' = Sent(s, <<[type |-> "QUIT"]>>)
      /\ ended' \subseteq Ws
  BY <1>1 DEF Quit, SessionInv
<1>4. toServer' \in [Ws -> Seq(Lines)]
  <2>1. Sent(s, <<[type |-> "QUIT"]>>) \in [Ws -> Seq(Lines)]
    BY <1>2, SentIsLines
  <2> QED
    BY <1>3, <2>1 DEF LineInv
<1>5. SessionInv'
  BY <1>1, <1>3 DEF SessionInv
<1>6. LineInv'
  BY <1>1, <1>4, LinesStay DEF serverVars
<1> QED
  BY <1>1, <1>5, <1>6, CloseGivesOneBack, ServerStays

\* A message of the browser: at most one line is written, and a session that
\* connects has a nickname and a channel.
LEMMA MessageStepKeeps ==
  ASSUME GatewayInv, NEW s \in Ws, MessageStep(s)
  PROVE  GatewayInv'
<1> USE DEF GatewayInv
<1>1. OnMessage(s)
  BY DEF MessageStep, ActionRejected, OnChat, OnJoin, OnPart, OnNick, OnConnect
<1>2. /\ UNCHANGED <<ws, address, connectionsPerIp, vanished, replayed,
                     fromServer, serverVars>>
      /\ alive' = alive \cup {s}
      /\ actions[s] < MaxActions /\ actions' = [actions EXCEPT ![s] = @ + 1]
  BY <1>1 DEF OnMessage
<1>3. SlotInv'
  <2>1. alive' \subseteq Ws /\ vanished' \subseteq Ws
    BY <1>2 DEF SlotInv
  <2> QED
    BY <1>2, <2>1, SlotsStay, ClientsStay DEF SlotInv
<1>4. actions' \in [Ws -> 0..MaxActions]
  BY <1>2 DEF SessionInv
<1>5. SessionInv'
  <2>1. CASE ActionRejected(s)
    BY <1>4, <2>1 DEF ActionRejected, sessionVars, SessionInv
  <2>2. ASSUME NEW c \in Chan, OnChat(s, c) \/ OnPart(s, c)
        PROVE  SessionInv'
    BY <1>4, <2>2 DEF OnChat, OnPart, sessionVars, SessionInv
  <2>3. ASSUME NEW c \in Chan, OnJoin(s, c)
        PROVE  SessionInv'
    BY <1>4, <2>3 DEF OnJoin, SessionInv
  <2>4. ASSUME NEW n \in Nick, OnNick(s, n)
        PROVE  SessionInv'
    BY <1>4, <2>4 DEF OnNick, SessionInv
  <2>5. ASSUME NEW n \in Nick, NEW c \in Chan, OnConnect(s, n, c)
        PROVE  SessionInv'
    BY <1>4, <2>5 DEF OnConnect, SessionInv
  <2> QED
    BY <2>1, <2>2, <2>3, <2>4, <2>5 DEF MessageStep
<1>6. \/ toServer' = toServer
      \/ \E line \in Lines : toServer' = Sent(s, <<line>>)
  <2>1. /\ \A c \in Chan, t \in {"JOIN", "PART", "PRIVMSG"} : [type |-> t, chan |-> c] \in Lines
        /\ \A n \in Nick : [type |-> "NICK", nick |-> n] \in Lines
    BY DEF Lines
  <2> QED
    BY <2>1 DEF MessageStep, ActionRejected, OnChat, OnJoin, OnPart, OnNick, OnConnect
<1>7. toServer' \in [Ws -> Seq(Lines)]
  <2>1. \A line \in Lines : <<line>> \in Seq(Lines)
    OBVIOUS
  <2> QED
    BY ZenonT(60), <1>6, <2>1, SentIsLines DEF LineInv
<1>8. LineInv'
  BY <1>2, <1>7, LinesStay DEF serverVars
<1> QED
  BY <1>2, <1>3, <1>5, <1>8, ServerStays

LEMMA IrcStepKeeps ==
  ASSUME GatewayInv, NEW s \in Ws, IrcStep(s)
  PROVE  GatewayInv'
<1> USE DEF GatewayInv
<1>1. /\ UNCHANGED <<socketVars, actions, ended, nickname, joinedChannel>>
      /\ irc[s] \in {"connecting", "open"}
      /\ irc' = irc \/ \E v \in {"open", "closed"} : irc' = [irc EXCEPT ![s] = v]
  BY DEF IrcStep, IrcAttempt, IrcConnected, IrcRefused, OnIrcMessage, OnIrcClose
<1>2. SlotInv'
  BY <1>1, SlotsStay, ClientsStay DEF socketVars, SlotInv
<1>3. SessionInv'
  BY <1>1 DEF SessionInv
<1>4. nickname[s] \in Nick /\ joinedChannel[s] \in Chan
  BY <1>1 DEF SessionInv
<1>5. /\ <<[type |-> "NICK", nick |-> nickname[s]], [type |-> "USER"]>> \in Seq(Lines)
      /\ <<[type |-> "JOIN", chan |-> joinedChannel[s]]>> \in Seq(Lines)
  <2>1. /\ [type |-> "NICK", nick |-> nickname[s]] \in Lines
        /\ [type |-> "USER"] \in Lines
        /\ [type |-> "JOIN", chan |-> joinedChannel[s]] \in Lines
    BY <1>4 DEF Lines
  <2> QED
    BY <2>1
<1>6. [toServer EXCEPT ![s] = <<>>] \in [Ws -> Seq(Lines)]
  BY DEF LineInv
<1>7. ServerInv'
  <2>1. server' = server \/ server' = [server EXCEPT ![s] = "connected"]
    BY DEF IrcStep, IrcAttempt, IrcConnected, IrcRefused, OnIrcMessage,
       OnIrcClose, serverVars
  <2>2. UNCHANGED <<serverNick, hasUser, registered, members, entered>>
    BY DEF IrcStep, IrcAttempt, IrcConnected, IrcRefused, OnIrcMessage,
       OnIrcClose, serverVars
  <2> QED
    BY <2>1, <2>2 DEF ServerInv
<1>8. toServer' \in [Ws -> Seq(Lines)]
  <2> DEFINE hello == <<[type |-> "NICK", nick |-> nickname[s]], [type |-> "USER"]>>
             join == <<[type |-> "JOIN", chan |-> joinedChannel[s]]>>
  <2>4. Sent(s, hello) \in [Ws -> Seq(Lines)] /\ Sent(s, join) \in [Ws -> Seq(Lines)]
    <3> HIDE DEF hello, join
    <3>1. hello \in Seq(Lines) /\ join \in Seq(Lines)
      BY <1>5 DEF hello, join
    <3> QED
      BY <3>1, SentIsLines
  <2>1. CASE IrcConnected(s)
    BY <1>6, <2>1, <2>4 DEF IrcConnected
  <2>2. CASE IrcRefused(s) \/ OnIrcClose(s)
    BY <1>6, <2>2 DEF IrcRefused, OnIrcClose
  <2>3. CASE OnIrcMessage(s)
    <3>1. \/ toServer' = toServer
          \/ toServer' = [toServer EXCEPT ![s] = <<>>]
          \/ toServer' = Sent(s, join)
      BY <2>3 DEF OnIrcMessage
    <3> QED
      BY <1>6, <2>4, <3>1 DEF LineInv
  <2> QED
    BY <2>1, <2>2, <2>3 DEF IrcStep, IrcAttempt
<1>9. LineInv'
  <2>1. CASE IrcAttempt(s) \/ OnIrcClose(s)
    <3>1. UNCHANGED <<fromServer, replayed, entered>>
      BY <2>1 DEF IrcAttempt, IrcConnected, IrcRefused, OnIrcClose, serverVars
    <3> QED
      BY <1>8, <3>1, LinesStay
  <2>2. CASE OnIrcMessage(s)
    <3> DEFINE line == Head(fromServer[s])
    <3>1. /\ fromServer[s] \in Seq(Replies) /\ fromServer[s] # <<>>
          /\ fromServer' = [fromServer EXCEPT ![s] = Tail(@)]
          /\ UNCHANGED entered
      BY <2>2 DEF OnIrcMessage, LineInv, serverVars
    <3>2. /\ Len(fromServer[s]) \in Nat /\ Len(fromServer[s]) > 0
          /\ line = fromServer[s][1] /\ Tail(fromServer[s]) \in Seq(Replies)
          /\ Len(Tail(fromServer[s])) = Len(fromServer[s]) - 1
          /\ \A i \in 1..Len(fromServer[s]) - 1 : Tail(fromServer[s])[i] = fromServer[s][i + 1]
      BY <3>1
    <3>3. fromServer' \in [Ws -> Seq(Replies)]
      BY <3>1, <3>2 DEF LineInv
    <3>4. ASSUME NEW t \in Ws, NEW i \in 1..Len(fromServer'[t]),
                 fromServer'[t][i].type = "JOIN"
          PROVE  fromServer'[t][i].chan \in entered'[t]
      <4>1. CASE t = s
        <5>1. fromServer'[s] = Tail(fromServer[s])
          BY <3>1 DEF LineInv
        <5>2. i \in 1..Len(fromServer[s]) - 1 /\ i + 1 \in 1..Len(fromServer[s])
          BY <3>2, <3>4, <4>1, <5>1
        <5> QED
          BY <3>1, <3>2, <3>4, <4>1, <5>1, <5>2 DEF LineInv
      <4>2. CASE t # s
        BY <3>1, <3>4, <4>2 DEF LineInv
      <4> QED
        BY <4>1, <4>2
    <3>5. replayed' \in [Ws -> SUBSET Chan] /\ ReplayToMembersOnly'
      <4>1. CASE replayed' = replayed
        BY <3>1, <4>1 DEF LineInv, ReplayToMembersOnly
      <4>2. CASE /\ line.type = "JOIN" /\ Replays(s, line)
                 /\ replayed' = [replayed EXCEPT ![s] = @ \cup {joinedChannel[s]}]
        <5>1. joinedChannel[s] \in entered[s]
          BY <3>2, <4>2 DEF Replays, LineInv
        <5> QED
          BY <1>4, <3>1, <4>2, <5>1 DEF LineInv, ReplayToMembersOnly
      <4> QED
        BY <2>2, <4>1, <4>2 DEF OnIrcMessage
    <3> QED
      BY <1>8, <3>3, <3>4, <3>5 DEF LineInv
  <2> QED
    BY <2>1, <2>2 DEF IrcStep
<1> QED
  BY <1>2, <1>3, <1>7, <1>9

-----------------------------------------------------------------------------
(***************************************************************************)
(* The IRC server's side.                                                  *)
(***************************************************************************)

\* More lines to some sessions: a welcome, or the JOIN of a channel that has
\* admitted each of them.
LEMMA OneMoreReply ==
  ASSUME LineInv, ServerInv,
         entered' \in [Ws -> SUBSET Chan],
         \A t \in Ws : entered[t] \subseteq entered'[t],
         UNCHANGED replayed, toServer' \in [Ws -> Seq(Lines)],
         NEW who \in SUBSET Ws, NEW line \in Replies,
         line.type = "JOIN" => \A t \in who : line.chan \in entered'[t],
         fromServer' = [t \in Ws |-> IF t \in who THEN Append(fromServer[t], line)
                                     ELSE fromServer[t]]
  PROVE  LineInv'
<1>1. \A t \in Ws : /\ fromServer[t] \in Seq(Replies)
                    /\ Append(fromServer[t], line) \in Seq(Replies)
  BY DEF LineInv
<1>2. fromServer' \in [Ws -> Seq(Replies)]
  BY <1>1
<1>3. ASSUME NEW t \in Ws, NEW i \in 1..Len(fromServer'[t]),
             fromServer'[t][i].type = "JOIN"
      PROVE  fromServer'[t][i].chan \in entered'[t]
  <2>1. CASE t \in who
    <3> DEFINE q == fromServer[t]
    <3>1. q \in Seq(Replies) /\ fromServer'[t] = Append(q, line)
      BY <1>1, <2>1
    <3>2. \A k \in 1..Len(q) : q[k].type = "JOIN" => q[k].chan \in entered'[t]
      BY DEF LineInv
    <3> HIDE DEF q
    <3>3. /\ Len(Append(q, line)) = Len(q) + 1 /\ Len(q) \in Nat
          /\ Append(q, line)[Len(q) + 1] = line
          /\ \A k \in 1..Len(q) : Append(q, line)[k] = q[k]
      BY <3>1
    <3>4. i \in 1..Len(q) \/ i = Len(q) + 1
      BY <1>3, <3>1, <3>3
    <3> QED
      BY <1>3, <2>1, <3>1, <3>2, <3>3, <3>4
  <2>2. CASE t \notin who
    BY <1>3, <2>2 DEF LineInv
  <2> QED
    BY <2>1, <2>2
<1> QED
  BY <1>2, <1>3 DEF LineInv, ReplayToMembersOnly

\* The invariant when the server's queues are read and nothing else of the
\* gateway moves.
LEMMA OtherParts ==
  ASSUME GatewayInv, UNCHANGED <<socketVars, actions, sessionVars>>
  PROVE  SlotInv' /\ SessionInv'
BY SlotsStay, ClientsStay, SessionStays
DEF GatewayInv, SlotInv, socketVars, sessionVars

\* A line that was read was one.
LEMMA HandledLine ==
  ASSUME GatewayInv, NEW s \in Ws, NEW type, Handles(s, type)
  PROVE  /\ UNCHANGED <<socketVars, actions, sessionVars, history, replayed>>
         /\ Head(toServer[s]) \in Lines /\ Head(toServer[s]).type = type
         /\ toServer' \in [Ws -> Seq(Lines)]
<1>1. /\ toServer[s] \in Seq(Lines) /\ toServer[s] # <<>>
      /\ toServer' = [toServer EXCEPT ![s] = Tail(@)]
      /\ Head(toServer[s]).type = type
      /\ UNCHANGED <<socketVars, actions, sessionVars, history, replayed>>
  BY DEF Handles, GatewayInv, LineInv
<1>2. Head(toServer[s]) \in Lines /\ Tail(toServer[s]) \in Seq(Lines)
  BY <1>1
<1> QED
  BY <1>1, <1>2 DEF GatewayInv, LineInv

\* Registration: the welcome.
LEMMA WelcomeKeeps ==
  ASSUME GatewayInv, NEW s \in Ws, NEW named, NEW user, Welcome(s, named, user),
         UNCHANGED <<replayed, server, members, entered>>,
         toServer' \in [Ws -> Seq(Lines)],
         serverNick' \in [Ws -> Nick \cup {NoNick}], hasUser' \subseteq Ws,
         \A t \in registered : serverNick'[t] \in Nick,
         named => serverNick'[s] \in Nick
  PROVE  ServerInv' /\ LineInv'
<1> USE DEF GatewayInv
<1>1. registered' \subseteq Ws /\ \A t \in registered' : serverNick'[t] \in Nick
  BY DEF Welcome, ServerInv
<1>2. ServerInv'
  BY <1>1 DEF ServerInv
<1>3. LineInv'
  <2>1. CASE UNCHANGED fromServer
    BY <2>1, LinesStay
  <2>2. CASE fromServer' = [fromServer EXCEPT ![s] = Append(@, [type |-> "001"])]
    <3>1. [type |-> "001"] \in Replies
      BY DEF Replies
    <3>2. fromServer' = [t \in Ws |-> IF t \in {s}
                                      THEN Append(fromServer[t], [type |-> "001"])
                                      ELSE fromServer[t]]
      BY <2>2 DEF LineInv
    <3>3. entered' \in [Ws -> SUBSET Chan] /\ \A t \in Ws : entered[t] \subseteq entered'[t]
      BY DEF ServerInv
    <3> QED
      BY <3>1, <3>2, <3>3, OneMoreReply
  <2> QED
    BY <2>1, <2>2 DEF Welcome
<1> QED
  BY <1>2, <1>3

LEMMA DisconnectedKeeps ==
  ASSUME ServerInv, NEW s \in Ws, Disconnected(s)
  PROVE  ServerInv'
<1>1. /\ server' = [server EXCEPT ![s] = "closed"]
      /\ serverNick' = [serverNick EXCEPT ![s] = NoNick]
      /\ hasUser' = hasUser \ {s} /\ registered' = registered \ {s}
      /\ members' = [c \in Chan |-> members[c] \ {s}]
      /\ UNCHANGED entered
  BY DEF Disconnected
<1> QED
  BY <1>1 DEF ServerInv

LEMMA RegistrationKeeps ==
  ASSUME GatewayInv, NEW s \in Ws, ServerNick(s) \/ ServerUser(s)
  PROVE  GatewayInv'
<1> USE DEF GatewayInv
<1>1. CASE ServerNick(s)
  <2> DEFINE n == Head(toServer[s]).nick
  <2>1. /\ Handles(s, "NICK") /\ UNCHANGED <<server, hasUser, members, entered>>
    BY <1>1 DEF ServerNick
  <2>2. n \in Nick /\ toServer' \in [Ws -> Seq(Lines)] /\ UNCHANGED replayed
        /\ SlotInv' /\ SessionInv'
    <3>1. Head(toServer[s]) \in Lines /\ Head(toServer[s]).type = "NICK"
      BY <2>1, HandledLine
    <3>2. n \in Nick
      BY <3>1 DEF Lines
    <3> QED
      BY <2>1, <3>2, HandledLine, OtherParts
  <2>3. CASE UNCHANGED <<serverNick, registered, fromServer>>
    BY <2>1, <2>2, <2>3, ServerStays, LinesStay DEF serverVars
  <2>4. CASE serverNick' = [serverNick EXCEPT ![s] = n] /\ Welcome(s, TRUE, s \in hasUser)
    <3>1. /\ serverNick' \in [Ws -> Nick \cup {NoNick}] /\ hasUser' \subseteq Ws
          /\ \A t \in registered : serverNick'[t] \in Nick
          /\ serverNick'[s] \in Nick
      BY <2>1, <2>2, <2>4 DEF ServerInv
    <3> QED
      BY <2>1, <2>2, <2>4, <3>1, WelcomeKeeps
  <2> QED
    BY <1>1, <2>3, <2>4 DEF ServerNick
<1>2. CASE ServerUser(s)
  <2>1. /\ Handles(s, "USER") /\ hasUser' = hasUser \cup {s}
        /\ Welcome(s, serverNick[s] # NoNick, TRUE)
        /\ UNCHANGED <<server, serverNick, members, entered>>
    BY <1>2 DEF ServerUser
  <2>2. toServer' \in [Ws -> Seq(Lines)] /\ UNCHANGED replayed
        /\ SlotInv' /\ SessionInv'
    BY <2>1, HandledLine, OtherParts
  <2>3. /\ serverNick' \in [Ws -> Nick \cup {NoNick}] /\ hasUser' \subseteq Ws
        /\ \A t \in registered : serverNick'[t] \in Nick
        /\ serverNick[s] # NoNick => serverNick'[s] \in Nick
    BY <2>1 DEF ServerInv
  <2> QED
    BY <2>1, <2>2, <2>3, WelcomeKeeps
<1> QED
  BY <1>1, <1>2

\* JOIN: the channel admits the session before it tells its members.
LEMMA ServerJoinKeeps ==
  ASSUME GatewayInv, NEW s \in Ws, ServerJoin(s)
  PROVE  GatewayInv'
<1> USE DEF GatewayInv
<1> DEFINE c == Head(toServer[s]).chan
<1>1. /\ Handles(s, "JOIN")
      /\ UNCHANGED <<server, serverNick, hasUser, registered>>
  BY DEF ServerJoin
<1>2. /\ c \in Chan /\ toServer' \in [Ws -> Seq(Lines)] /\ UNCHANGED replayed
      /\ SlotInv' /\ SessionInv'
  <2>1. Head(toServer[s]) \in Lines /\ Head(toServer[s]).type = "JOIN"
    BY <1>1, HandledLine
  <2>2. c \in Chan
    BY <2>1 DEF Lines
  <2> QED
    BY <1>1, <2>2, HandledLine, OtherParts
<1>3. CASE UNCHANGED <<members, entered, fromServer>>
  BY <1>1, <1>2, <1>3, ServerStays, LinesStay DEF serverVars
<1>4. CASE /\ s \in registered
           /\ members' = [members EXCEPT ![c] = @ \cup {s}]
           /\ entered' = [entered EXCEPT ![s] = @ \cup {c}]
           /\ fromServer' = Announced(c, members'[c], serverNick[s])
  <2> HIDE DEF c
  <2>1. entered' \in [Ws -> SUBSET Chan] /\ \A t \in Ws : entered[t] \subseteq entered'[t]
    BY <1>2, <1>4 DEF ServerInv
  <2>2. members' \in [Chan -> SUBSET Ws]
    BY <1>2, <1>4 DEF ServerInv
  <2>3. \A d \in Chan : \A t \in members'[d] : d \in entered'[t]
    <3>1. \A d \in Chan : members'[d] \subseteq members[d]
                          \/ (d = c /\ members'[d] = members[d] \cup {s})
      BY <1>2, <1>4 DEF ServerInv
    <3>2. c \in entered'[s]
      BY <1>2, <1>4 DEF ServerInv
    <3>3. \A d \in Chan : members[d] \subseteq Ws
      BY DEF ServerInv
    <3> QED
      BY <2>1, <3>1, <3>2, <3>3 DEF ServerInv
  <2>4. ServerInv'
    BY <1>1, <2>1, <2>2, <2>3 DEF ServerInv
  <2> DEFINE line == [type |-> "JOIN", nick |-> serverNick[s], chan |-> c]
  <2>5. line \in Replies /\ line.type = "JOIN" /\ line.chan = c
    BY <1>2, <1>4 DEF ServerInv, Replies
  <2>6. fromServer' = [t \in Ws |-> IF t \in members'[c]
                                    THEN Append(fromServer[t], line) ELSE fromServer[t]]
    BY <1>4 DEF Announced
  <2> HIDE DEF line
  <2>7. LineInv'
    BY <1>2, <2>1, <2>2, <2>3, <2>5, <2>6, OneMoreReply
  <2> QED
    BY <1>2, <2>4, <2>7
<1> QED
  BY <1>3, <1>4 DEF ServerJoin

LEMMA OutsiderJoinsKeeps ==
  ASSUME GatewayInv, NEW n \in Nick, NEW c \in Chan, OutsiderJoins(n, c)
  PROVE  GatewayInv'
<1> USE DEF GatewayInv
<1>1. /\ fromServer' = Announced(c, members[c], n)
      /\ UNCHANGED <<socketVars, actions, sessionVars, history, replayed,
                     toServer, serverVars>>
  BY DEF OutsiderJoins
<1> DEFINE line == [type |-> "JOIN", nick |-> n, chan |-> c]
<1>2. line \in Replies /\ line.chan = c
  BY DEF Replies
<1>3. fromServer' = [t \in Ws |-> IF t \in members[c]
                                  THEN Append(fromServer[t], line) ELSE fromServer[t]]
  BY <1>1 DEF Announced
<1>4. /\ entered' = entered /\ members[c] \in SUBSET Ws
      /\ entered' \in [Ws -> SUBSET Chan]
      /\ \A t \in members[c] : c \in entered'[t]
  BY <1>1 DEF serverVars, ServerInv
<1>5. toServer' \in [Ws -> Seq(Lines)]
  BY <1>1 DEF LineInv
<1> HIDE DEF line
<1>6. LineInv'
  BY <1>1, <1>2, <1>3, <1>4, <1>5, OneMoreReply
<1> QED
  BY <1>1, <1>6, OtherParts, ServerStays

LEMMA ServerMovesKeeps ==
  ASSUME GatewayInv, ServerMoves
  PROVE  GatewayInv'
<1> USE DEF GatewayInv
<1>1. ASSUME NEW s \in Ws, ServerPart(s)
      PROVE  GatewayInv'
  <2>1. /\ Handles(s, "PART")
        /\ members' = [members EXCEPT ![Head(toServer[s]).chan] = @ \ {s}]
        /\ UNCHANGED <<fromServer, server, serverNick, hasUser, registered, entered>>
    BY <1>1 DEF ServerPart
  <2>2. ServerInv'
    <3>1. members' \in [Chan -> SUBSET Ws]
          /\ \A c \in Chan : members'[c] \subseteq members[c]
      BY <2>1 DEF ServerInv
    <3> QED
      BY <2>1, <3>1 DEF ServerInv
  <2> QED
    BY <2>1, <2>2, HandledLine, OtherParts, LinesStay
<1>2. ASSUME NEW s \in Ws, ServerPrivmsg(s)
      PROVE  GatewayInv'
  <2>1. Handles(s, "PRIVMSG") /\ UNCHANGED <<fromServer, serverVars>>
    BY <1>2 DEF ServerPrivmsg
  <2> QED
    BY <2>1, HandledLine, OtherParts, LinesStay, ServerStays DEF serverVars
<1>3. ASSUME NEW s \in Ws, ServerQuit(s)
      PROVE  GatewayInv'
  <2>1. Handles(s, "QUIT") /\ Disconnected(s) /\ UNCHANGED <<fromServer, entered>>
    BY <1>3 DEF ServerQuit, Disconnected
  <2> QED
    BY <2>1, HandledLine, OtherParts, LinesStay, DisconnectedKeeps
<1>4. ASSUME NEW s \in Ws, ServerSeesEnd(s) \/ ServerDrops(s)
      PROVE  GatewayInv'
  <2>1. /\ Disconnected(s)
        /\ UNCHANGED <<socketVars, actions, sessionVars, history, replayed, lineVars, entered>>
    BY <1>4 DEF ServerSeesEnd, ServerDrops, Disconnected
  <2>2. UNCHANGED fromServer /\ toServer' \in [Ws -> Seq(Lines)]
    BY <2>1 DEF lineVars, LineInv
  <2> QED
    BY <2>1, <2>2, OtherParts, LinesStay, DisconnectedKeeps
<1> QED
  BY <1>1, <1>2, <1>3, <1>4, RegistrationKeeps, ServerJoinKeeps,
     OutsiderJoinsKeeps DEF ServerMoves, ServerStep

-----------------------------------------------------------------------------
(***************************************************************************)
(* The theorems.                                                           *)
(***************************************************************************)

\* Sockets, sessions, lines and the IRC server's view fit together at every
\* step, whatever browsers, network and IRC server do.
THEOREM GatewayInvAlways == Spec => []GatewayInv
<1>1. GatewayInv /\ [Next]_vars => GatewayInv'
  <2> SUFFICES ASSUME GatewayInv, [Next]_vars PROVE GatewayInv'
    OBVIOUS
  <2>1. CASE UNCHANGED vars
    <3>1. UNCHANGED <<socketVars, actions, sessionVars, serverVars, fromServer,
                      replayed, entered, toServer>>
      BY <2>1 DEF vars, lineVars, serverVars
    <3>2. toServer' \in [Ws -> Seq(Lines)]
      BY <3>1 DEF GatewayInv, LineInv
    <3> QED
      BY <3>1, <3>2, OtherParts, ServerStays, LinesStay DEF GatewayInv
  <2> QED
    BY <2>1, StepsAreSorted, SocketStepKeeps, OnCloseKeeps, MessageStepKeeps,
       IrcStepKeeps, ServerMovesKeeps
<1> QED
  BY <1>1, InitEstablishes, PTL DEF Spec

\* The count of each address is that of its open sockets and both caps hold,
\* whatever order heartbeats, closes and handshakes come in.
THEOREM SlotsAreExactAlways == Spec => []SlotsAreExact
<1>1. GatewayInv => SlotsAreExact
  BY DEF GatewayInv, SlotInv
<1> QED
  BY <1>1, GatewayInvAlways, PTL

\* The history of a channel is shown only to those whom the IRC server has let
\* into it: a JOIN is announced to members alone, so one that names the channel
\* a session asks for is a proof of admission, whatever nickname it carries.
THEOREM ReplayToMembersOnlyAlways == Spec => []ReplayToMembersOnly
<1>1. GatewayInv => ReplayToMembersOnly
  BY DEF GatewayInv, LineInv
<1> QED
  BY <1>1, GatewayInvAlways, PTL

-----------------------------------------------------------------------------
(***************************************************************************)
(* Types.                                                                  *)
(***************************************************************************)

Entry == [name : Chan, messages : Seq(Ws)]
MemoryInv == history \in Seq(Entry)

\* A list of messages that is trimmed is one.
LEMMA TrimmedIsList ==
  ASSUME NEW list \in Seq(Ws)
  PROVE  Trimmed(list) \in Seq(Ws)
<1>1. Limit \in Nat \ {0} /\ Len(list) \in Nat
  BY LimitsAreEffective
<1>2. CASE Len(list) <= Limit
  BY <1>2 DEF Trimmed, Latest
<1>3. CASE Len(list) > Limit
  <2>1. Trimmed(list) = SubSeq(list, Len(list) - Limit + 1, Len(list))
    BY <1>1, <1>3 DEF Trimmed, Latest
  <2> QED
    BY <1>1, <1>3, <2>1
<1> QED
  BY <1>1, <1>2, <1>3

\* A message more, whatever channel it is for.
LEMMA AddIsMemory ==
  ASSUME MemoryInv, NEW c \in Chan, NEW s \in Ws
  PROVE  Add(history, c, s) \in Seq(Entry)
<1>1. CASE c \in Remembered(history)
  <2> DEFINE e(i) == [name |-> c, messages |-> Trimmed(Append(history[i].messages, s))]
  <2>1. ASSUME NEW i \in DOMAIN history
        PROVE  history[i] \in Entry /\ e(i) \in Entry
    <3>1. history[i] \in Entry
      BY DEF MemoryInv
    <3>2. Append(history[i].messages, s) \in Seq(Ws)
      BY <3>1 DEF Entry
    <3> QED
      BY <3>1, <3>2, TrimmedIsList DEF Entry
  <2> HIDE DEF e
  <2>2. Add(history, c, s) =
          [i \in DOMAIN history |-> IF history[i].name = c THEN e(i) ELSE history[i]]
    BY <1>1 DEF Add, e
  <2> QED
    BY <2>1, <2>2 DEF MemoryInv
<1>2. CASE c \notin Remembered(history)
  <2>1. Add(history, c, s) = Append(RoomFor(history), [name |-> c, messages |-> <<s>>])
    BY <1>2 DEF Add
  <2>2. RoomFor(history) \in Seq(Entry)
    <3>1. CASE Len(history) >= ChannelLimit
      <4>1. history # <<>>
        BY <3>1, LimitsAreEffective DEF MemoryInv
      <4> QED
        BY <3>1, <4>1 DEF RoomFor, MemoryInv
    <3>2. CASE ~(Len(history) >= ChannelLimit)
      BY <3>2 DEF RoomFor, MemoryInv
    <3> QED
      BY <3>1, <3>2
  <2>3. [name |-> c, messages |-> <<s>>] \in Entry
    BY DEF Entry
  <2> QED
    BY <2>1, <2>2, <2>3
<1> QED
  BY <1>1, <1>2

\* Only a message for the joined channel touches the memory.
LEMMA MemoryStays ==
  ASSUME GatewayInv, MemoryInv, [Next]_vars
  PROVE  MemoryInv'
<1>1. CASE UNCHANGED history
  BY <1>1 DEF MemoryInv
<1>2. CASE \E s \in Ws, c \in Chan : history' = Add(history, c, s)
  BY <1>2, AddIsMemory DEF MemoryInv
<1>3. ASSUME NEW s \in Ws, MessageStep(s)
      PROVE  UNCHANGED history \/ \E t \in Ws, c \in Chan : history' = Add(history, c, t)
  BY <1>3 DEF MessageStep, ActionRejected, OnChat, OnJoin, OnPart, OnNick, OnConnect
<1>4. ASSUME NEW s \in Ws, SocketStep(s) \/ OnClose(s) \/ IrcStep(s)
      PROVE  UNCHANGED history
  BY <1>4 DEF SocketStep, Connection, Heartbeat, Pong, BrowserCloses,
     BrowserVanishes, OnClose, IrcStep, IrcAttempt, IrcConnected, IrcRefused,
     OnIrcMessage, OnIrcClose
<1>5. ASSUME ServerMoves
      PROVE  UNCHANGED history
  BY <1>5 DEF ServerMoves, ServerStep, ServerDrops, ServerNick, ServerUser,
     ServerJoin, ServerPart, ServerPrivmsg, ServerQuit, ServerSeesEnd, Handles,
     OutsiderJoins
<1>6. UNCHANGED vars => UNCHANGED history
  BY DEF vars
<1> QED
  BY <1>1, <1>2, <1>3, <1>4, <1>5, <1>6, StepsAreSorted

\* Every variable holds what its counterpart in the gateway can hold; an
\* address never counts for more sockets than there are.
THEOREM TypeIsCorrect == Spec => []TypeOK
<1>1. Init => MemoryInv
  BY DEF Init, MemoryInv, NoHistory
<1>2. GatewayInv /\ MemoryInv => TypeOK
  <2> SUFFICES ASSUME GatewayInv, MemoryInv
               PROVE  TypeOK
    OBVIOUS
  <2>1. connectionsPerIp \in [Address -> 0..Cardinality(Ws)]
    <3>1. \A a \in Address : At(a) \subseteq Ws
      BY DEF At, Clients
    <3>2. \A a \in Address : Cardinality(At(a)) <= Cardinality(Ws)
      BY <3>1, FS_Subset
    <3>3. \A a \in Address : connectionsPerIp[a] = Cardinality(At(a))
      BY DEF GatewayInv, SlotInv, SlotsAreExact, At
    <3>4. Cardinality(Ws) \in Nat
      BY FS_CardinalityType
    <3> QED
      BY <3>2, <3>3, <3>4 DEF GatewayInv, SlotInv
  <2>2. Remembered(history) \subseteq Chan
    <3>1. \A i \in DOMAIN history : history[i] \in Entry
      BY DEF MemoryInv
    <3>2. \A e \in Entry : e.name \in Chan
      BY DEF Entry
    <3> QED
      BY <3>1, <3>2 DEF Remembered
  <2> QED
    BY <2>1, <2>2 DEF TypeOK, GatewayInv, SlotInv, SessionInv, ServerInv, LineInv
<1>3. GatewayInv /\ MemoryInv /\ [Next]_vars => MemoryInv'
  BY MemoryStays
<1> QED
  BY <1>1, <1>2, <1>3, GatewayInvAlways, PTL DEF Spec

=============================================================================
