------------------------------- MODULE Gateway -------------------------------
(***************************************************************************)
(* The gateway (services/gateway/src): browsers talk JSON over WebSockets, *)
(* and each of them has a connection of its own to the IRC server.  The    *)
(* gateway is one Node process; every callback of server.js and irc.js is  *)
(* an action, and between two of them browsers, the network and the IRC    *)
(* server do what they like.                                               *)
(*                                                                         *)
(* The IRC server is external here: it is IrcServer seen from its clients. *)
(* It may refuse any nickname (somebody else has it) and any JOIN (modes), *)
(* and lines travel in order.  Lines that the gateway only forwards to the *)
(* browser (errors, PART, messages of others) are not queued.  PASS is     *)
(* part of USER: the gateway always has the password.                      *)
(***************************************************************************)
EXTENDS ChannelHistory, FiniteSets

CONSTANTS
  Ws,              \* WebSockets, each used for one session
  Address,         \* what clientAddress may return
  Chan,            \* the names validChannel accepts
  NoChan,
  Nick,            \* the names validNickname accepts
  NoNick,
  MaxConnections,
  MaxPerIp,        \* MAX_CONNECTIONS_PER_IP
  Talkers,         \* the sockets whose browsers send messages, not only pongs
  MaxActions       \* bound on the messages a browser sends

ASSUME CapsAreNumbers ==
  /\ MaxConnections \in Nat /\ MaxPerIp \in Nat /\ MaxActions \in Nat
ASSUME FinitelyManySockets == IsFiniteSet(Ws) /\ Talkers \subseteq Ws
ASSUME NamesAreDistinct == NoChan \notin Chan /\ NoNick \notin Nick

VARIABLES
  ws,             \* none, open, closing (the close event is due) or closed
  address,
  connectionsPerIp,
  alive,          \* the sockets heard of since the last heartbeat
  vanished,       \* the browsers that are gone without a close
  actions,        \* messages the browser has sent
  irc,            \* null, connecting, open or closed: session's `irc.socket'
  ended,          \* the sessions whose irc.socket.end() was called
  nickname,       \* irc.nickname
  joinedChannel,
  history,
  replayed,       \* the channels whose history went to the browser
  toServer,       \* lines written to the IRC connection
  fromServer,     \* lines on their way back
  server,         \* the IRC server's end: none, connected or closed
  serverNick,     \* the nickname the IRC server knows
  hasUser,        \* the clients whose PASS and USER have been received
  registered,
  members,        \* who is in each channel
  entered         \* history variable: the channels that ever admitted it

socketVars == <<ws, address, connectionsPerIp, alive, vanished>>
sessionVars == <<irc, ended, nickname, joinedChannel>>
lineVars == <<toServer, fromServer>>
serverVars == <<server, serverNick, hasUser, registered, members, entered>>
vars == <<socketVars, actions, sessionVars, history, replayed, lineVars,
          serverVars>>

Lines ==
  [type: {"NICK"}, nick: Nick] \cup [type: {"JOIN", "PART", "PRIVMSG"}, chan: Chan]
    \cup [type: {"USER", "QUIT"}]

Replies ==
  [type: {"001"}] \cup [type: {"JOIN"}, nick: Nick, chan: Chan]

\* Every variable holds what its counterpart in the gateway can hold.
TypeOK ==
  /\ ws \in [Ws -> {"none", "open", "closing", "closed"}]
  /\ address \in [Ws -> Address]
  /\ connectionsPerIp \in [Address -> 0..Cardinality(Ws)]
  /\ alive \subseteq Ws /\ vanished \subseteq Ws
  /\ actions \in [Ws -> 0..MaxActions]
  /\ irc \in [Ws -> {"null", "connecting", "open", "closed"}]
  /\ ended \subseteq Ws
  /\ nickname \in [Ws -> Nick \cup {NoNick}]
  /\ joinedChannel \in [Ws -> Chan \cup {NoChan}]
  /\ Remembered(history) \subseteq Chan
  /\ replayed \in [Ws -> SUBSET Chan]
  /\ toServer \in [Ws -> Seq(Lines)]
  /\ fromServer \in [Ws -> Seq(Replies)]
  /\ server \in [Ws -> {"none", "connected", "closed"}]
  /\ serverNick \in [Ws -> Nick \cup {NoNick}]
  /\ hasUser \subseteq Ws /\ registered \subseteq Ws
  /\ members \in [Chan -> SUBSET Ws]
  /\ entered \in [Ws -> SUBSET Chan]

Init ==
  /\ ws = [s \in Ws |-> "none"]
  /\ address \in [Ws -> Address]
  /\ connectionsPerIp = [a \in Address |-> 0]
  /\ alive = {} /\ vanished = {}
  /\ actions = [s \in Ws |-> 0]
  /\ irc = [s \in Ws |-> "null"]
  /\ ended = {}
  /\ nickname = [s \in Ws |-> NoNick]
  /\ joinedChannel = [s \in Ws |-> NoChan]
  /\ history = NoHistory
  /\ replayed = [s \in Ws |-> {}]
  /\ toServer = [s \in Ws |-> <<>>] /\ fromServer = [s \in Ws |-> <<>>]
  /\ server = [s \in Ws |-> "none"]
  /\ serverNick = [s \in Ws |-> NoNick]
  /\ hasUser = {} /\ registered = {}
  /\ members = [c \in Chan |-> {}]
  /\ entered = [s \in Ws |-> {}]

-----------------------------------------------------------------------------
(***************************************************************************)
(* WebSockets: handshake, heartbeat, close.                                *)
(***************************************************************************)

Clients == {s \in Ws : ws[s] \in {"open", "closing"}} \* wss.clients

\* Mutant: the cap per address is compared too late.
VerifyClientTooLate(s) ==
  /\ Cardinality(Clients) < MaxConnections
  /\ connectionsPerIp[address[s]] <= MaxPerIp

VerifyClient(s) ==
  /\ Cardinality(Clients) < MaxConnections
  /\ connectionsPerIp[address[s]] < MaxPerIp

\* verifyClient and the connection handler run in one turn of the event
\* loop.  A refused handshake changes nothing.
Connection(s) ==
  /\ ws[s] = "none"
  /\ VerifyClient(s)
  /\ ws' = [ws EXCEPT ![s] = "open"]
  /\ connectionsPerIp' = [connectionsPerIp EXCEPT ![address[s]] = @ + 1]
  /\ alive' = alive \cup {s}
  /\ UNCHANGED <<address, vanished, actions, sessionVars, history, replayed,
                 lineVars, serverVars>>

\* Mutant: a terminated socket gives its slot back, and again on close.
HeartbeatReleases(s) ==
  /\ ws[s] = "open"
  /\ IF s \in alive THEN alive' = alive \ {s} /\ UNCHANGED <<ws, connectionsPerIp>>
     ELSE /\ ws' = [ws EXCEPT ![s] = "closing"]
          /\ connectionsPerIp' = [connectionsPerIp EXCEPT ![address[s]] = @ - 1]
          /\ UNCHANGED alive
  /\ UNCHANGED <<address, vanished, actions, sessionVars, history, replayed,
                 lineVars, serverVars>>

\* The interval timer: terminate() a socket not heard of, ping the others.
Heartbeat(s) ==
  /\ ws[s] = "open"
  /\ IF s \in alive THEN alive' = alive \ {s} /\ UNCHANGED ws
     ELSE ws' = [ws EXCEPT ![s] = "closing"] /\ UNCHANGED alive
  /\ UNCHANGED <<address, connectionsPerIp, vanished, actions, sessionVars,
                 history, replayed, lineVars, serverVars>>

\* The browser answers the ping by itself.
Pong(s) ==
  /\ ws[s] = "open" /\ s \notin vanished \cup alive
  /\ alive' = alive \cup {s}
  /\ UNCHANGED <<ws, address, connectionsPerIp, vanished, actions,
                 sessionVars, history, replayed, lineVars, serverVars>>

BrowserCloses(s) ==
  /\ ws[s] = "open" /\ s \notin vanished
  /\ ws' = [ws EXCEPT ![s] = "closing"]
  /\ UNCHANGED <<address, connectionsPerIp, alive, vanished, actions,
                 sessionVars, history, replayed, lineVars, serverVars>>

BrowserVanishes(s) ==
  /\ ws[s] = "open" /\ s \notin vanished
  /\ vanished' = vanished \cup {s}
  /\ UNCHANGED <<ws, address, connectionsPerIp, alive, actions, sessionVars,
                 history, replayed, lineVars, serverVars>>

\* Lines are written to a socket that is not destroyed; before the connection
\* is up they wait, in front of the handshake.
Sent(s, lines) ==
  IF irc[s] \in {"connecting", "open"}
  THEN [toServer EXCEPT ![s] = @ \o lines] ELSE toServer

\* Mutant: quit() waits for a connection that is up.
QuitIfOpen(s) ==
  IF irc[s] = "open"
  THEN toServer' = Sent(s, <<[type |-> "QUIT"]>>) /\ ended' = ended \cup {s}
  ELSE UNCHANGED <<toServer, ended>>

\* IrcConnection.quit
Quit(s) ==
  IF irc[s] \in {"connecting", "open"}
  THEN toServer' = Sent(s, <<[type |-> "QUIT"]>>) /\ ended' = ended \cup {s}
  ELSE UNCHANGED <<toServer, ended>>

\* The close event: the slot is given back and the IRC connection ended.
OnClose(s) ==
  /\ ws[s] = "closing"
  /\ ws' = [ws EXCEPT ![s] = "closed"]
  /\ connectionsPerIp' = [connectionsPerIp EXCEPT ![address[s]] = @ - 1]
  /\ Quit(s)
  /\ UNCHANGED <<address, alive, vanished, actions, irc, nickname,
                 joinedChannel, history, replayed, fromServer, serverVars>>

-----------------------------------------------------------------------------
(***************************************************************************)
(* Messages of the browser.                                                *)
(***************************************************************************)

OnMessage(s) ==
  /\ ws[s] = "open" /\ s \notin vanished
  /\ s \in Talkers /\ actions[s] < MaxActions
  /\ actions' = [actions EXCEPT ![s] = @ + 1]
  /\ alive' = alive \cup {s}
  /\ UNCHANGED <<ws, address, connectionsPerIp, vanished, replayed, fromServer,
                 serverVars>>

\* Too many or malformed messages, an unknown type, a second connect, a
\* command before connect, an invalid name: the browser is told.
ActionRejected(s) ==
  /\ OnMessage(s)
  /\ UNCHANGED <<sessionVars, history, toServer>>

OnConnect(s, n, c) ==
  /\ OnMessage(s)
  /\ irc[s] = "null"
  /\ joinedChannel' = [joinedChannel EXCEPT ![s] = c]
  /\ nickname' = [nickname EXCEPT ![s] = n]
  /\ irc' = [irc EXCEPT ![s] = "connecting"]
  /\ UNCHANGED <<ended, history, toServer>>

\* "message": written, and recorded when it is for the joined channel.  A
\* message to a nickname is not recorded.
OnChat(s, target) ==
  /\ OnMessage(s)
  /\ irc[s] # "null"
  /\ toServer' = Sent(s, <<[type |-> "PRIVMSG", chan |-> target]>>)
  /\ history' = IF target = joinedChannel[s] THEN Add(history, target, s)
                ELSE history
  /\ UNCHANGED sessionVars

OnJoin(s, c) ==
  /\ OnMessage(s)
  /\ irc[s] # "null"
  /\ toServer' = Sent(s, <<[type |-> "JOIN", chan |-> c]>>)
  /\ joinedChannel' = [joinedChannel EXCEPT ![s] = c]
  /\ UNCHANGED <<irc, ended, nickname, history>>

OnPart(s, c) ==
  /\ OnMessage(s)
  /\ irc[s] # "null"
  /\ toServer' = Sent(s, <<[type |-> "PART", chan |-> c]>>)
  /\ UNCHANGED <<sessionVars, history>>

OnNick(s, n) ==
  /\ OnMessage(s)
  /\ irc[s] # "null"
  /\ toServer' = Sent(s, <<[type |-> "NICK", nick |-> n]>>)
  /\ nickname' = [nickname EXCEPT ![s] = n]
  /\ UNCHANGED <<irc, ended, joinedChannel, history>>

-----------------------------------------------------------------------------
(***************************************************************************)
(* The IRC connection.                                                     *)
(***************************************************************************)

\* The TCP connection is up and the handshake is written.  If the browser
\* left meanwhile, the socket was ended: writing to it is an error that
\* destroys it, with everything that waited to be sent.
IrcConnected(s) ==
  /\ irc[s] = "connecting"
  /\ IF s \in ended
     THEN /\ toServer' = [toServer EXCEPT ![s] = <<>>]
          /\ irc' = [irc EXCEPT ![s] = "closed"]
     ELSE /\ toServer' = Sent(s, <<[type |-> "NICK", nick |-> nickname[s]],
                                   [type |-> "USER"]>>)
          /\ irc' = [irc EXCEPT ![s] = "open"]
  /\ server' = [server EXCEPT ![s] = "connected"]
  /\ UNCHANGED <<socketVars, actions, ended, nickname, joinedChannel, history,
                 replayed, fromServer, serverNick, hasUser, registered,
                 members, entered>>

\* The connection attempt fails: error, then close.
IrcRefused(s) ==
  /\ irc[s] = "connecting"
  /\ irc' = [irc EXCEPT ![s] = "closed"]
  /\ toServer' = [toServer EXCEPT ![s] = <<>>]
  /\ UNCHANGED <<socketVars, actions, ended, nickname, joinedChannel, history,
                 replayed, fromServer, serverVars>>

\* Mutant: any JOIN of its own makes the gateway replay the joined channel.
ReplaysAnyJoin(s, line) == line.nick = nickname[s]

\* Whether a JOIN makes the gateway replay the history.
Replays(s, line) == line.nick = nickname[s] /\ line.chan = joinedChannel[s]

\* The message handler of the IRC connection.  A welcome is answered by a
\* JOIN; on a socket that was ended this destroys it, and what was written
\* before may or may not have left.
OnIrcMessage(s) ==
  /\ irc[s] = "open" /\ fromServer[s] # <<>>
  /\ LET line == Head(fromServer[s])
     IN \/ /\ line.type = "001"
           /\ IF s \in ended
              THEN /\ irc' = [irc EXCEPT ![s] = "closed"]
                   /\ toServer' \in {toServer, [toServer EXCEPT ![s] = <<>>]}
              ELSE /\ toServer' = Sent(s, <<[type |-> "JOIN",
                                             chan |-> joinedChannel[s]]>>)
                   /\ UNCHANGED irc
           /\ UNCHANGED replayed
        \/ /\ line.type = "JOIN"
           /\ replayed' = IF Replays(s, line) /\ ws[s] = "open"
                          THEN [replayed EXCEPT ![s] = @ \cup {joinedChannel[s]}]
                          ELSE replayed
           /\ UNCHANGED <<irc, toServer>>
  /\ fromServer' = [fromServer EXCEPT ![s] = Tail(@)]
  /\ UNCHANGED <<socketVars, actions, ended, nickname, joinedChannel, history,
                 serverVars>>

\* The close event of the IRC connection, after everything was read.
OnIrcClose(s) ==
  /\ irc[s] = "open" /\ server[s] = "closed" /\ fromServer[s] = <<>>
  /\ irc' = [irc EXCEPT ![s] = "closed"]
  /\ toServer' = [toServer EXCEPT ![s] = <<>>]
  /\ UNCHANGED <<socketVars, actions, ended, nickname, joinedChannel, history,
                 replayed, fromServer, serverVars>>

-----------------------------------------------------------------------------
(***************************************************************************)
(* The IRC server, as far as the gateway can tell.  What its handlers      *)
(* decide from state that no browser has (nicknames of others, modes) is a *)
(* choice here, the password is right, and of what they send only welcomes *)
(* and JOINs remain: no other line makes the gateway act.                  *)
(***************************************************************************)

Handles(s, type) ==
  /\ server[s] = "connected"
  /\ toServer[s] # <<>> /\ Head(toServer[s]).type = type
  /\ toServer' = [toServer EXCEPT ![s] = Tail(@)]
  /\ UNCHANGED <<socketVars, actions, sessionVars, history, replayed>>

Free(n) == \A s \in Ws : server[s] = "connected" => serverNick[s] # n

\* A client is welcomed as soon as it has sent all the server wants.
Welcome(s, named, user) ==
  IF s \notin registered /\ named /\ user
  THEN /\ registered' = registered \cup {s}
       /\ fromServer' = [fromServer EXCEPT ![s] = Append(@, [type |-> "001"])]
  ELSE UNCHANGED <<registered, fromServer>>

ServerNick(s) ==
  /\ Handles(s, "NICK")
  /\ LET n == Head(toServer[s]).nick
     IN \/ UNCHANGED <<serverNick, registered, fromServer>> \* 433
        \/ /\ Free(n) \/ serverNick[s] = n
           /\ serverNick' = [serverNick EXCEPT ![s] = n]
           /\ Welcome(s, TRUE, s \in hasUser)
  /\ UNCHANGED <<server, hasUser, members, entered>>

ServerUser(s) ==
  /\ Handles(s, "USER")
  /\ hasUser' = hasUser \cup {s}
  /\ Welcome(s, serverNick[s] # NoNick, TRUE)
  /\ UNCHANGED <<server, serverNick, members, entered>>

\* The members of c, f among them, are told of a JOIN.
Announced(c, who, n) ==
  [s \in Ws |-> IF s \in who
                THEN Append(fromServer[s],
                            [type |-> "JOIN", nick |-> n, chan |-> c])
                ELSE fromServer[s]]

ServerJoin(s) ==
  /\ Handles(s, "JOIN")
  /\ LET c == Head(toServer[s]).chan
     IN \/ UNCHANGED <<members, entered, fromServer>> \* 451, 471, 473, 475
        \/ /\ s \in registered /\ s \notin members[c]
           /\ members' = [members EXCEPT ![c] = @ \cup {s}]
           /\ entered' = [entered EXCEPT ![s] = @ \cup {c}]
           /\ fromServer' = Announced(c, members'[c], serverNick[s])
  /\ UNCHANGED <<server, serverNick, hasUser, registered>>

ServerPart(s) ==
  /\ Handles(s, "PART")
  /\ members' = [members EXCEPT ![Head(toServer[s]).chan] = @ \ {s}]
  /\ UNCHANGED <<fromServer, server, serverNick, hasUser, registered, entered>>

ServerPrivmsg(s) ==
  /\ Handles(s, "PRIVMSG")
  /\ UNCHANGED <<fromServer, serverVars>>

Disconnected(s) ==
  /\ server' = [server EXCEPT ![s] = "closed"]
  /\ serverNick' = [serverNick EXCEPT ![s] = NoNick]
  /\ hasUser' = hasUser \ {s}
  /\ registered' = registered \ {s}
  /\ members' = [c \in Chan |-> members[c] \ {s}]
  /\ UNCHANGED entered

ServerQuit(s) ==
  /\ Handles(s, "QUIT")
  /\ Disconnected(s)
  /\ UNCHANGED fromServer

\* The gateway's end of the connection is gone and everything was read.
ServerSeesEnd(s) ==
  /\ server[s] = "connected" /\ irc[s] = "closed" /\ toServer[s] = <<>>
  /\ Disconnected(s)
  /\ UNCHANGED <<socketVars, actions, sessionVars, history, replayed, lineVars>>

\* The server drops a client on its own account, or dies.
ServerDrops(s) ==
  /\ server[s] = "connected"
  /\ Disconnected(s)
  /\ UNCHANGED <<socketVars, actions, sessionVars, history, replayed, lineVars>>

\* Somebody who does not use the gateway joins a channel.
OutsiderJoins(n, c) ==
  /\ Free(n)
  /\ members[c] # {} /\ \A s \in members[c] : fromServer[s] = <<>>
  /\ fromServer' = Announced(c, members[c], n)
  /\ UNCHANGED <<socketVars, actions, sessionVars, history, replayed, toServer,
                 serverVars>>

-----------------------------------------------------------------------------
IrcAttempt(s) == IrcConnected(s) \/ IrcRefused(s)

GatewayStep(s) ==
  OnClose(s) \/ IrcAttempt(s) \/ OnIrcMessage(s) \/ OnIrcClose(s) \/ Heartbeat(s)

ServerStep(s) ==
  \/ ServerNick(s) \/ ServerUser(s) \/ ServerJoin(s) \/ ServerPart(s)
  \/ ServerPrivmsg(s) \/ ServerQuit(s) \/ ServerSeesEnd(s)

BrowserStep(s) ==
  \/ Connection(s) \/ Pong(s) \/ BrowserCloses(s) \/ BrowserVanishes(s)
  \/ ActionRejected(s)
  \/ \E c \in Chan : OnChat(s, c) \/ OnJoin(s, c) \/ OnPart(s, c)
  \/ \E n \in Nick : OnNick(s, n) \/ \E c \in Chan : OnConnect(s, n, c)

\* Every session is over.
Over == (\A s \in Ws : ws[s] = "closed") /\ UNCHANGED vars

Next ==
  \/ \E s \in Ws : \/ GatewayStep(s) \/ ServerStep(s)
                   \/ ServerDrops(s) \/ BrowserStep(s)
  \/ \E n \in Nick, c \in Chan : OutsiderJoins(n, c)
  \/ Over

\* Node runs every callback that is due, the timer fires and the IRC server
\* reads on.  Nothing is assumed of browsers.
Fairness ==
  \A s \in Ws : /\ WF_vars(OnClose(s)) /\ WF_vars(IrcAttempt(s))
                /\ WF_vars(OnIrcMessage(s)) /\ WF_vars(OnIrcClose(s))
                /\ WF_vars(Heartbeat(s)) /\ WF_vars(ServerStep(s))

Spec == Init /\ [][Next]_vars /\ Fairness

-----------------------------------------------------------------------------
(***************************************************************************)
(* Properties.                                                             *)
(***************************************************************************)

\* The count of each address is that of its open sockets, and both caps hold
\* at any time: neither a terminated nor a closed socket keeps its slot or
\* gives it back twice.
SlotsAreExact ==
  /\ \A a \in Address :
       /\ connectionsPerIp[a] = Cardinality({s \in Clients : address[s] = a})
       /\ connectionsPerIp[a] <= MaxPerIp
  /\ Cardinality(Clients) <= MaxConnections

\* The history of a channel is shown to nobody whom the IRC server has not
\* let into that channel, whatever nickname or channel the session believes
\* in meanwhile.
ReplayToMembersOnly == \A s \in Ws : replayed[s] \subseteq entered[s]

\* A browser that is gone, with or without a close, gives up its IRC
\* connection in the end.
IrcIsReleased ==
  \A s \in Ws : (s \in vanished \/ ws[s] = "closing") ~>
                  (ws[s] = "closed" /\ server[s] # "connected"
                    /\ irc[s] \in {"null", "closed"})

\* What server.js says of the record: messages of a session are only kept
\* for a channel that this session actually joined.  (While lines are on
\* their way it may still be let in; when none are, it was refused.)
OnlyJoinedIsRecorded ==
  \A s \in Ws : irc[s] = "open" /\ toServer[s] = <<>> /\ fromServer[s] = <<>> =>
    \A i \in DOMAIN history : \A k \in DOMAIN history[i].messages :
      history[i].messages[k] = s => history[i].name \in entered[s]
=============================================================================
