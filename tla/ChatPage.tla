------------------------------ MODULE ChatPage ------------------------------
(***************************************************************************)
(* The chat page (apps/webserv/www/chat/app.js) with what it hears of the  *)
(* IRC server through the gateway (publicEvent and the JOIN handling of    *)
(* services/gateway/src/server.js): which channel it shows, who is listed  *)
(* as a member, and whether the user can type.                             *)
(*                                                                         *)
(* The page opens a WebSocket per attempt to connect and forgets the       *)
(* previous one.  Messages travel in order both ways.  The gateway and the *)
(* IRC server handle a request of the page in one step here; what happens  *)
(* between the two is Gateway's subject.  The IRC server knows a channel   *)
(* by its folded name and writes it as it was first spelt; other users     *)
(* come and go.  Left out are messages, which only add a name to the list, *)
(* the replay of a history, which changes nothing here, and the Escape     *)
(* key, which shuts the dialog.                                            *)
(***************************************************************************)
EXTENDS Naturals, Sequences, FiniteSets, Functions

CONSTANTS
  Nick, NoNick,
  Channel,        \* channels, as the IRC server tells them apart
  Spelling,    \* the ways to write the name of a channel
  NoName,
  Sockets,     \* the attempts of the page to connect: 1, 2, ...
  MaxRequests, \* bound: requests on their way, per socket
  MaxEvents    \* bound: events on their way when something else happens

ASSUME AttemptsAreNumbered ==
  Sockets = 1..Cardinality(Sockets) /\ Sockets \subseteq Nat \ {0}
ASSUME QueuesAreBounded == MaxRequests \in Nat /\ MaxEvents \in Nat

Name == [chan : Channel, spelling : Spelling]

ASSUME NobodyHasNoName == NoNick \notin Nick /\ NoName \notin Name

VARIABLES
  socket,     \* state.socket: the last attempt, or 0
  readyState, \* of each socket: none, connecting, open, closing, closed
  connected,  \* state.connected: the input is enabled
  dialog,     \* the dialog to connect is open, which shuts off the rest
  nickname,   \* state.nickname
  channel,    \* state.channel
  listed,     \* state.members
  requests,   \* of each socket: on the way to the gateway
  events,     \* of each socket: on the way to the page
  session,    \* of each socket: none, asked (connect was received), in, over
  wanted,     \* of each socket: what its connect asked for, until it is in
  nick,       \* of each socket: what the IRC server knows it by
  present,    \* who is in each channel
  founded,    \* the name each channel was created under
  held        \* history: the sockets one of whose PARTs the gateway refused

\* The page, with the history that no step depends on.
pageVars == <<socket, connected, dialog, nickname, channel, listed, held>>
ircVars == <<nick, present, founded>>
pageWorld == <<pageVars, readyState, requests, events, session, wanted, ircVars>>

Nothing == [nick |-> NoNick, name |-> NoName]

PageInit ==
  /\ socket = 0 /\ connected = FALSE /\ dialog = TRUE
  /\ readyState = [k \in Sockets |-> "none"]
  /\ nickname = NoNick /\ channel = NoName
  /\ listed = {}
  /\ requests = [k \in Sockets |-> <<>>] /\ events = [k \in Sockets |-> <<>>]
  /\ session = [k \in Sockets |-> "none"]
  /\ wanted = [k \in Sockets |-> Nothing]
  /\ nick = [k \in Sockets |-> NoNick]
  /\ present = [c \in Channel |-> {}]
  /\ founded = [c \in Channel |-> NoName]
  /\ held = {}

-----------------------------------------------------------------------------
(***************************************************************************)
(* The page.                                                               *)
(***************************************************************************)

\* send(): dropped unless the page's own socket is open.
Send(list) ==
  requests' = IF socket \in Sockets /\ readyState[socket] = "open"
              THEN [requests EXCEPT ![socket] = @ \o list] ELSE requests

\* A channel is chosen: its members are still to come.
Show(name) == channel' = name /\ listed' = {}

\* The form of the dialog, and connect(): close() on the previous socket only
\* begins to close it.
Submit(n, name) ==
  /\ dialog /\ socket + 1 \in Sockets
  /\ socket' = socket + 1
  /\ readyState' = [k \in Sockets |->
                      IF k = socket + 1 THEN "connecting"
                      ELSE IF k = socket /\ readyState[k] \in {"connecting", "open"}
                      THEN "closing" ELSE readyState[k]]
  /\ nickname' = n
  /\ Show(name)
  /\ UNCHANGED <<connected, dialog, held, requests, events, session, wanted, ircVars>>

ChangeChannel(name) ==
  /\ ~dialog /\ name # channel
  /\ socket \in Sockets /\ Len(requests[socket]) + 2 <= MaxRequests
  /\ Send(<<[type |-> "part", name |-> channel], [type |-> "join", name |-> name]>>)
  /\ Show(name)
  /\ UNCHANGED <<socket, connected, dialog, nickname, held, readyState, events,
                 session, wanted, ircVars>>

ChangeNick(n) ==
  /\ ~dialog /\ n # nickname
  /\ socket \in Sockets /\ Len(requests[socket]) < MaxRequests
  /\ Send(<<[type |-> "nick", nick |-> n]>>)
  /\ UNCHANGED <<pageVars, readyState, events, session, wanted, ircVars>>

\* The list after a nick event.  Mutant: the new name is only entered when it
\* is one's own.
RenamedForgets(old, new) ==
  IF old \in listed /\ old = nickname THEN (listed \ {old}) \cup {new} ELSE listed \ {old}
Renamed(old, new) ==
  IF old \in listed THEN (listed \ {old}) \cup {new} ELSE listed

\* onGatewayMessage(): a socket that is closing delivers nothing any more.
OnGatewayMessage(k) ==
  /\ readyState[k] = "open" /\ events[k] # <<>>
  /\ LET e == Head(events[k])
     IN /\ requests' = IF e.type # "hello" THEN requests
                       ELSE [requests EXCEPT ![k] =
                               Append(@, [type |-> "connect", nick |-> nickname,
                                          name |-> channel])]
        /\ connected' = (e.type = "ready" \/ (connected /\ e.type # "disconnected"))
        /\ dialog' = (dialog /\ e.type # "ready")
        /\ nickname' = IF e.type = "nick" /\ e.nick = nickname THEN e.new ELSE nickname
        /\ listed' = CASE e.type = "join" -> listed \cup {e.nick}
                       [] e.type \in {"part", "kick"} -> listed \ {e.nick}
                       [] e.type = "nick" -> Renamed(e.nick, e.new)
                       [] e.type = "names" /\ e.name = channel -> listed \cup e.names
                       [] OTHER -> listed
  /\ events' = [events EXCEPT ![k] = Tail(@)]
  /\ UNCHANGED <<socket, channel, held, readyState, session, wanted, ircVars>>

\* disconnectUi(), from the close or the error event of any socket, the one in
\* use or not: the page asked for it, the gateway is gone, or the network.
OnSocketEnd(k) ==
  /\ readyState[k] \in {"connecting", "open", "closing"}
  /\ readyState' = [readyState EXCEPT ![k] = "closed"]
  /\ events' = [events EXCEPT ![k] = <<>>]
  /\ connected' = FALSE
  /\ UNCHANGED <<socket, dialog, nickname, channel, listed, held, requests,
                 session, wanted, ircVars>>

-----------------------------------------------------------------------------
(***************************************************************************)
(* The gateway and the IRC server.                                         *)
(***************************************************************************)

\* The sessions in some channels, and the queues after they were told: only
\* what is sent to an open socket arrives.
Watching(cs) == {k \in Sockets : \E c \in cs : nick[k] \in present[c]}
Told(who, e) ==
  [k \in Sockets |-> IF k \in who /\ readyState[k] = "open"
                     THEN Append(events[k], e) ELSE events[k]]
ChannelsOf(n) == {c \in Channel : n \in present[c]}
InUse == {n \in Nick : ChannelsOf(n) # {}} \cup Range(nick)

\* No page is too far behind.
Calm == \A k \in Sockets : Len(events[k]) <= MaxEvents

\* The handshake succeeds; the gateway says hello.
Connection(k) ==
  /\ readyState[k] = "connecting"
  /\ readyState' = [readyState EXCEPT ![k] = "open"]
  /\ events' = [events EXCEPT ![k] = <<[type |-> "hello"]>>]
  /\ UNCHANGED <<pageVars, requests, session, wanted, ircVars>>

\* The next request of a page, for as long as its session lasts.
Received(k, type) ==
  /\ Calm /\ session[k] # "over"
  /\ requests[k] # <<>> /\ Head(requests[k]).type = type
  /\ requests' = [requests EXCEPT ![k] = Tail(@)]
Request(k, type) == Received(k, type) /\ UNCHANGED <<pageVars, readyState>>

\* "Slow down and try again": the gateway takes 12 requests of a browser in
\* five seconds and refuses any other.  The first of a socket, connect, is
\* never too many.  The error that the page is told changes nothing there.
SlowDown(k) ==
  /\ \E type \in {"part", "join", "nick"} : Received(k, type)
  /\ held' = IF Head(requests[k]).type = "part" THEN held \cup {k} ELSE held
  /\ UNCHANGED <<socket, connected, dialog, nickname, channel, listed, readyState,
                 events, session, wanted, ircVars>>

OnConnect(k) ==
  /\ Request(k, "connect")
  /\ session' = [session EXCEPT ![k] = "asked"]
  /\ wanted' = [wanted EXCEPT ![k] = [nick |-> Head(requests[k]).nick,
                                      name |-> Head(requests[k]).name]]
  /\ UNCHANGED <<events, ircVars>>

\* 001, unless somebody else has the nickname; the gateway answers with JOIN.
Welcome(k) ==
  /\ session[k] = "asked" /\ wanted[k].nick \notin InUse /\ Calm
  /\ wanted' = [wanted EXCEPT ![k] = Nothing]
  /\ session' = [session EXCEPT ![k] = "in"]
  /\ nick' = [nick EXCEPT ![k] = wanted[k].nick]
  /\ events' = Told({k}, [type |-> "ready"])
  /\ requests' = [requests EXCEPT ![k] =
                    Append(@, [type |-> "join", name |-> wanted[k].name])]
  /\ UNCHANGED <<pageVars, readyState, present, founded>>

\* Somebody enters a channel, founding it if it is empty.
Enter(n, name) ==
  /\ n \notin present[name.chan]
  /\ present' = [present EXCEPT ![name.chan] = @ \cup {n}]
  /\ founded' = IF present[name.chan] = {}
                THEN [founded EXCEPT ![name.chan] = name] ELSE founded

\* Somebody leaves; the last one takes the name of the channel with him.
Leave(n, cs) ==
  /\ present' = [c \in Channel |-> IF c \in cs THEN present[c] \ {n} ELSE present[c]]
  /\ founded' = [c \in Channel |-> IF present'[c] = {} THEN NoName ELSE founded[c]]

\* "join", and what the IRC server answers in the founder's spelling.
OnJoin(k) ==
  /\ Request(k, "join")
  /\ LET name == Head(requests[k]).name
         c == name.chan
         told == Told(Watching({c}) \cup {k}, [type |-> "join", nick |-> nick[k]])
     IN \/ /\ UNCHANGED <<events, present, founded>> \* 471, 473, 475, or there
        \/ /\ Enter(nick[k], name)
           /\ events' = [told EXCEPT ![k] = IF readyState[k] # "open" THEN @ ELSE
                Append(@, [type |-> "names", name |-> founded'[c], names |-> present'[c]])]
  /\ UNCHANGED <<session, wanted, nick>>

\* "part": the members, the one who leaves among them, are told.
OnPart(k) ==
  /\ Request(k, "part")
  /\ LET c == Head(requests[k]).name.chan
     IN IF nick[k] \in present[c]
        THEN /\ events' = Told(Watching({c}), [type |-> "part", nick |-> nick[k]])
             /\ Leave(nick[k], {c})
        ELSE UNCHANGED <<events, present, founded>>
  /\ UNCHANGED <<session, wanted, nick>>

\* A new nickname, for those who share a channel and its owner.
Rename(old, new, owner) ==
  /\ new \notin InUse
  /\ present' = [c \in Channel |-> IF old \in present[c]
                                THEN (present[c] \ {old}) \cup {new} ELSE present[c]]
  /\ events' = Told(Watching(ChannelsOf(old)) \cup owner,
                    [type |-> "nick", nick |-> old, new |-> new])
  /\ nick' = [k \in Sockets |-> IF k \in owner THEN new ELSE nick[k]]

\* "nick": the server may refuse it.
OnNick(k) ==
  /\ Request(k, "nick")
  /\ LET n == Head(requests[k]).nick
     IN \/ n \in InUse /\ UNCHANGED <<events, nick, present>>
        \/ Rename(nick[k], n, {k})
  /\ UNCHANGED <<session, wanted, founded>>

\* The gateway notices that the socket is closing or lost and quits, or the
\* IRC server drops the client.  QUIT is an "event" for the page, which it
\* ignores.
OnClose(k) ==
  /\ Calm
  /\ \/ readyState[k] = "open" /\ session[k] \in {"asked", "in"}
     \/ readyState[k] \in {"closing", "closed"} /\ session[k] # "over"
  /\ wanted' = [wanted EXCEPT ![k] = Nothing]
  /\ session' = [session EXCEPT ![k] = "over"]
  /\ requests' = [requests EXCEPT ![k] = <<>>]
  /\ events' = IF readyState[k] = "open"
               THEN Told({k}, [type |-> "disconnected"]) ELSE events
  /\ nick' = [nick EXCEPT ![k] = NoNick]
  /\ Leave(nick[k], Channel)
  /\ UNCHANGED <<pageVars, readyState>>

\* Other users.
Others == Nick \ Range(nick)

OtherJoins(n, name) ==
  /\ Calm /\ n \in Others
  /\ Enter(n, name)
  /\ events' = Told(Watching({name.chan}), [type |-> "join", nick |-> n])
  /\ UNCHANGED <<pageVars, readyState, requests, session, wanted, nick>>
OtherParts(n, c) ==
  /\ Calm /\ n \in Others \cap present[c]
  /\ events' = Told(Watching({c}), [type |-> "part", nick |-> n])
  /\ Leave(n, {c})
  /\ UNCHANGED <<pageVars, readyState, requests, session, wanted, nick>>
\* An operator removes another member, the page's user for one.
OtherKicks(n, c) ==
  /\ Calm /\ n \in present[c] /\ (present[c] \cap Others) \ {n} # {}
  /\ events' = Told(Watching({c}), [type |-> "kick", nick |-> n])
  /\ Leave(n, {c})
  /\ UNCHANGED <<pageVars, readyState, requests, session, wanted, nick>>
OtherQuits(n) ==
  /\ Calm /\ n \in Others /\ ChannelsOf(n) # {}
  /\ Leave(n, Channel)
  /\ UNCHANGED <<pageVars, readyState, requests, events, session, wanted, nick>>
OtherRenames(n, new) ==
  /\ Calm /\ n \in Others /\ ChannelsOf(n) # {}
  /\ Rename(n, new, {})
  /\ UNCHANGED <<pageVars, readyState, requests, session, wanted, founded>>

-----------------------------------------------------------------------------
Page ==
  \/ \E k \in Sockets : OnGatewayMessage(k) \/ OnSocketEnd(k)
  \/ \E name \in Name :
       ChangeChannel(name) \/ \E n \in Nick : Submit(n, name)
  \/ \E n \in Nick : ChangeNick(n)

Behind ==
  \E k \in Sockets :
    \/ Connection(k) \/ OnConnect(k) \/ Welcome(k)
    \/ OnJoin(k) \/ OnPart(k) \/ OnNick(k) \/ SlowDown(k) \/ OnClose(k)

OtherUsers ==
  \E n \in Nick :
    \/ OtherQuits(n)
    \/ \E name \in Name : OtherJoins(n, name)
    \/ \E c \in Channel : OtherParts(n, c) \/ OtherKicks(n, c)
    \/ \E new \in Nick : OtherRenames(n, new)

PageNext == Page \/ Behind \/ OtherUsers

PageSpec == PageInit /\ [][PageNext]_pageWorld

-----------------------------------------------------------------------------
(***************************************************************************)
(* Properties.                                                             *)
(***************************************************************************)

\* The page's session is in the channel the page shows, and nothing is on its
\* way to or from it.
Settled ==
  /\ socket \in Sockets
  /\ readyState[socket] = "open" /\ session[socket] = "in"
  /\ requests[socket] = <<>> /\ events[socket] = <<>>
  /\ nick[socket] \in present[channel.chan]

\* Nobody who is in the channel is missing from the list, whatever others do:
\* late events of the channel before, renamings and NAMES of another channel
\* leave no gap.  Provided the user spells the name as it was first spelt and
\* the gateway has refused no PART of this socket (server.js:199), as it does
\* to a browser with more than 12 requests in five seconds: see MembersAreShown.
NobodyIsMissed ==
  (Settled /\ founded[channel.chan] = channel /\ socket \notin held) =>
    present[channel.chan] \subseteq listed

\* docs/how-to-use.md:41: the list of members is kept up to date as they enter
\* and leave, however fast the user moves on: "Change channel" leaves the
\* channel before by itself (:39).
MembersAreShown ==
  (Settled /\ founded[channel.chan] = channel) => present[channel.chan] \subseteq listed

\* docs/how-to-use.md:16: after "Enter channel" the input can be used.
InputIsUsable == Settled => connected
=============================================================================
