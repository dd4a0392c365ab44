# IRC platform: TLA+ specifications, model checking and proofs

This directory holds TLA+ specifications of the platform's C++ IRC server
(`services/irc/prd`), the WebSocket gateway in front of it (`services/gateway/src`), the
HTTP server with its CGI scripts (`apps/webserv/src`) and the chat page it serves
(`apps/webserv/www/chat/app.js`), with TLC configurations that check them on small
instances and TLAPS proofs of the properties that matter most for every instance. It
reads next to the code: `PROJECT.json` names, for each definition, the lines it models.

## 1. The system

| Component | State | Operations | Interacts with |
|---|---|---|---|
| IRC relations and commands (`interface/ServerRelations.cpp`, `handler/*`, `domain/*`) | clients by descriptor, nickname index, channels with members, operators, invitations and modes, scheduled disconnections, quit reasons | PASS NICK USER JOIN PART PRIVMSG KICK INVITE TOPIC MODE QUIT CAP PING PONG, disconnection | called by the event loop, line by line; queues messages into send buffers |
| IRC event loop (`interface/ServerNetwork.cpp`) | `_pollFds`, POLLOUT interest, the snapshot scan, `g_stopRequested` | poll, accept, recv, send, the end of a scan | kernel, peers, signals; calls the handlers |
| IRC line framing (`util/BufferUtil.cpp`, `domain/Client.cpp`) | receive buffer of a client | append, findLine, erase prefix | between recv and the handlers |
| IRC parser and text utilities (`util/*`) | none | parse, case folding, validation, reply formatting | called by the handlers |
| Gateway (`services/gateway/src`) | per WebSocket: IRC connection, nickname and channel it believes in, rate window, heartbeat; shared channel history | connect, message, join, part, nick, close | browser by WebSocket, IRC server by TCP |
| Webserv event loop and CGI (`Server.cpp`, `CgiHandler.cpp`) | clients, owners of pipes, poll table, children, deadlines | poll, accept, read, start a script, feed and read it, reap, expire, stop | browsers, scripts, kernel |
| Webserv HTTP and routing (`Http.cpp`, `Router.cpp`) | none | decode a path, parse a request, undo chunks, choose a location | called by the event loop |
| Chat page (`app.js`) | socket, session it believes in, channel, member list | connect, change channel, change nickname, leave, events | gateway |
| Edge proxy and entry point (`deploy`) | open proxied sockets; child processes | route, proxy, upgrade, shutdown | all of the above |

What is hard here:

* The IRC server is one thread, so handlers do not interleave, but its relations are
  kept *twice* (client and channel side, index and client), are keyed by **descriptors
  that the kernel reuses at once**, and are taken apart by a **deferred disconnection**
  that other handlers, later input of the same client and the closing of other clients
  can precede.
* A message to a client may not fit its send buffer in the middle of a broadcast. The
  message is dropped and the client scheduled.
* Peers act between any two steps of a loop; a signal too. recv() may cut the byte
  stream anywhere.
* The gateway acts on optimistic state (a nickname or a channel it has only asked for),
  and the page on the gateway's word, while events of the channel before are on their way.
* Webserv's scripts end, hang, stop reading and flood in any order with timeouts and lost
  clients; handlers erase and add poll entries under the scan's index, and a pipe's number
  goes to the next connection within the same pass.
* A text passes two writers and two parsers, and three programs compare channel names,
  one of them folded.

`PROJECT.json` lists these as hazards, at their lines, each with the properties that
would catch it, or with the reason why none does.

## 2. The modules

```
   ChatRooms      DeferredClose            RequestLife     abstract specifications
       ^           ^         ^                  ^
       |           |         |                  |           implemented by
   IrcServerRefinement    IrcEventLoop       Webserv        (both with an INSTANCE
       |      ^              ^               ^               of their abstract one)
   IrcServer  |       IrcEventLoopProofs MCWebserv ---> HttpRequest
       ^      |                              ^
       |   IrcServerProofs             WebservProofs
  MCIrcServer

                                  ChatPageProofs
                                        |
   LineBuffer   IrcText   RateLimit   ChatPage         Gateway
       ^    \      |         |         /                ^    \
LineBufferProofs \ |         |        /       GatewayProofs   ChannelHistory
                   MCText ------------------ HistoryLog --------^
                     ^                           ^
                 TextProofs               HistoryLogProofs
```

**IrcServer** models relations and commands. A descriptor is the identity of a client,
as in the code; `live` is the key set of `_clients`, and per-client fields are functions
of the descriptor that hold their initial value when no such client exists. A channel is
its normalised name; the fields of `Channel` are functions of it, reset when the
channel is erased. One action stands for one handler; handlers that loop over a list
(JOIN, PART, PRIVMSG, JOIN 0, MODE) take one step per iteration and hold `task`, so that no
other handler runs in between. The order of checks is kept in the `...Verdict` operators,
which name the numeric that answers a refused command. `Queue` is `queueToClient`: for
each recipient of `Slow` the buffer may be full. A scan of the poll loop is what happens
between two `ProcessPendingDisconnects`; at most one client is accepted in it, and
`DisconnectClient` walks the copied set in ascending order. `seenNames` and `seenOps` are
history variables: the lists that a client displays which has read all that was queued to
it. Abstracted: words are model values with what the code asks about them (`Fold`,
`Nickname`, `ChannelKey`, `UserLimit`); reply text is left out. A refused NICK, PASS or USER
and every command with too few parameters is `ReplyOnly`.

**ChatRooms** says what the relations promise in terms of people and rooms: no descriptors,
no index, no second side. **DeferredClose** says what both the handlers and the loop promise
about a connection's life. **IrcServerRefinement** gives the mapping.

**IrcEventLoop** models the loop: `poll` and its report, the scan by index over a
snapshot size, accept, recv, the lines of one recv, send, POLLOUT bookkeeping, the
end of the scan, and the signal. Peers connect, send, read, close and reset at any
time. What a command does is any choice of recipients, or the end of its client.

**LineBuffer** models `receiveFromClient` with `findLine` over an arbitrary byte stream cut
arbitrarily.

**IrcText** holds the stateless functions as operators on sequences of symbols: the parser,
comma lists, sanitising, case folding, the parsing of positive sizes, keys, the relayed
PRIVMSG with the server's spelling of its targets, and the gateway's own writer and parser (`irc.js`). They are checked against
reference definitions, and against each other along the way of a text from one browser to
another; **TextProofs** proves both for all inputs. **RateLimit** is the gateway's sliding
window as a function of the times at which actions come.

**Gateway** models the Node process: every callback of `server.js` and `irc.js` is an action,
and the lines to and from the IRC server are queues. The IRC server's
handlers are reduced to what the gateway can tell of them: they may refuse any nickname and
any JOIN, for what others do there is not in this model, and drop anybody. `nickname` and `joinedChannel` are what a session believes; `serverNick`,
`members` and `entered` what is true. Node's rules for sockets are kept: what is written
while connecting goes out before the handshake, and writing to a socket that was ended
destroys it. A channel has one name here; how names are spelt is `ChatPage`'s subject. The
rate limiter appears as `ActionRejected`, which may happen at any message.
**ChannelHistory** gives the operators of `history.js` (a Map is a sequence of entries in
insertion order), which Gateway uses and **HistoryLog** drives alone.

**Webserv** models the HTTP server's loop. `clients`, `pollfds` and the two owner maps are
the code's tables, `files` is the kernel's table of descriptors (the lowest free number is
handed out) and `scripts` are the children that have not been waited for, each with its two
ends of the pipes. A pass is `Poll`, one step per reported entry (`i` is the code's index
with its rule "step on only when the entry is still the same"), and the end of the pass,
where clients that were silent too long expire and ended scripts are reaped. Lengths count
in chunks (a pipe holds one). Scripts read, write and close only while the loop is in
`poll()`: the loop looks at pipes through poll's report and a read or write that follows
it, so a move during the pass gives what the same move before or after it gives; an *exit*,
which `waitpid` sees directly, may happen at any point. Fields of a client that nothing
reads once its answer is ready are reset, so that TLC does not tell such states apart. An
answer is the server's `own` or the script's (`cgi`). The lowest free process number is
used again at once, which is the worst case for a stale one. A call of `acceptClient` takes the
waiting connections until none is left or `accept` finds no free descriptor; what is beyond
MAX_CONNECTIONS is closed at once.
**RequestLife** is what the loop promises of a connection; **HttpRequest** holds the request
functions: path normalisation with percent-decoding, chunked bodies, the parser on growing
input and `Router`'s choice of a location. **WebservProofs** proves about the loop, and that
paths and locations come out right for all targets.

**ChatPage** composes the page with what the gateway passes on and what the IRC server
answers: per attempt to connect there is a socket with two ordered queues; the gateway and
the server handle a request of the page in one step, because what may happen between the
two is Gateway's subject. Other users join, leave, are kicked, quit and rename at any time.
`SlowDown` is the rate limit, which
refuses a change of channel or nickname and does nothing else; the 12 messages in five seconds
before it are RateLimit's subject, so here it may come at any time. `held` remembers which
sockets had a PART refused. `listed` is the page's member list, `present` the truth.

**MCIrcServer**, **MCText** and **MCWebserv** instantiate these for TLC. MCText runs three
machines (line buffer, history, page), one of them in each behaviour; it and MCWebserv
evaluate the functions over bounded texts, in invariants whose constant part TLC evaluates once.

### What is not modelled

* Gateway: the shutdown handler (it ends the process), the `/health` page, the origin list,
  PING and the 128 KiB receive limit (the IRC server sends neither PING nor such lines).
* IRC server: start-up is the initial state; the destructor, which closes the descriptors of
  an ending process, is left out, and so is `Reply::numeric`, which words a reply.
* Webserv: the configuration file (read once at start), the choice of a handler for a method
  (`Dispatcher`, a table without state), static files and uploads (pure file I/O), the
  environment of a script. The phase of a client (header or body) only chooses the length
  of its timeout, which is abstracted to "overdue".
* Chat page: messages, which only add a name to the list, the replay, which changes nothing
  here, and rendering.
* Edge proxy and entry point: routing and upgrades are pass-through. Start order and shutdown
  would make a small model.
* `lab` directories and `apps/webserv/prd` are superseded experiments.

## 3. The runs

| Run | Instance | What it shows |
|---|---|---|
| `rooms` | 3 descriptors, one channel, KICK, INVITE, PART, JOIN 0, QUIT; or 2 descriptors, 2 channels and lists of two names with repetitions and invalid ones; one slow client | two-sided relations agree; members hold no invitation; a healthy client shows the true member list; `DeferredClose` is implemented |
| `modes` | 2 descriptors, one channel and one slow client: 3 nicknames of which two fold together, any order of registration; or compound +i +k +l +t lines with missing, refused and ignored parameters, limit 1, several +o/-o in one line, own rights included | types; the nickname index is exact; nothing of a client outlives it; nobody inherits a disconnection; `ChatRooms` is implemented; admission follows the modes in force; an erased channel forgets them; MODE notices tell the truth; no operator appears from nowhere |
| `event_loop` | 2 descriptors, 1 line ahead, output buffer of 1 message, backlog 1 | POLLOUT and poll entries are exact; `DeferredClose` is implemented; a peer that left is closed; nobody starves |
| `text` | all streams of up to 8 bytes over {CR, LF, x, q}, line limit 4, chunks up to 5; 3 channels of which 2 are remembered, 5 messages; texts of up to 4 to 6 symbols; a page with 3 users and 2 channels | lines and disconnection depend on the bytes, not on their segmentation; memory is bounded and a replay is the latest messages without a gap; words, keys, relayed lines, texts and the rate limit are what they should be; a settled page misses nobody unless the gateway refused one of its PARTs |
| `webserv` | 2 connections, 6 descriptors, 2 process numbers, 1 script at a time, limits of 1 and 2 chunks; targets of up to 6 symbols, requests of up to 3 headers, chunked bodies of up to 6 symbols | descriptors, poll table and children are exact; only the output of a script that succeeded is passed on, and all of it up to the limit; `RequestLife` is implemented; every connection ends; a request is decided once however it is cut, with two exceptions, and its target resolves to one path and location |
| `gateway` | 2 browsers, of which one sends up to 2 messages, 2 addresses with one slot each, 2 channels, 2 nicknames, other people joining | slots are counted exactly; history is shown only to those whom the channel admitted; a browser that is gone gives up its IRC connection |

Six runs show a disagreement between a document or comment and the code (`findings`):

* `pending_is_handled`: a client that is scheduled when the scan reaches it still has one
  command executed; the design's invariant 9 says it has not.
* `history_planted`: the gateway records messages for a channel that the session has asked
  for, also when the IRC server refused its nickname or its JOIN; the comment in `server.js`
  says that only a channel actually joined is recorded.
* `cgi_answered`: a script that ends abnormally while its input pipe is full makes poll
  report an error on that pipe, and the client is closed without the promised 500.
* `input_usable`: after a second attempt to connect, the close event of the *first* socket
  disables the input of the session that works.
* `members_shown`: the rate limit refuses the PART of a change of channel and takes a later
  JOIN, so the session is in two channels; back in the first one the page gets no NAMES and
  its list of members stays empty. Its user has made more than 12 moves in five seconds.
* `oversize_refused`: a script that goes over its output limit after it has exited with 0 is
  answered with 200 and the part up to the limit, where the document promises 500.

Further disagreements met while modelling, without a run of their own:

* A client scheduled *while another is being closed* waits for the next event, as `poll()`
  has no timeout (`ServerRelations.cpp:290-294`).
* The page ignores the gateway's "event" for a QUIT (`server.js:118`), so a user who quits
  stays listed, and a late JOIN of the channel before adds a name to the new list;
  `docs/how-to-use.md:41` describes a list of who is there. `NobodyIsMissed` therefore claims
  one direction only.
* History is not replayed to a session that joins under another spelling than the
  founder's, or after a refused nickname (`server.js:236-239`; `docs/how-to-use.md:62`).
* The verdict on a request depends on where `recv()` cuts it if its header is longer than
  the limit (`Http.cpp:193`) or a chunk size wraps around (`Http.cpp:163`);
  `RequestsAreDecidedOnce` says that both occur and that there is no other case.
* `MODE +k` takes a key with a comma, which no JOIN can present, and one that begins with a
  colon, which is announced as another one (`ServerMode.cpp:26-39`); `WordsAreExact` says
  that these are all.
* A relayed IRC line may exceed 512 bytes (`fitsIrcLine` is never called).

**Bounds.** Two clients suffice for every pairwise relation (nickname conflict, kicked and
kicking, invited and inviting); a third one is there in `rooms`, where a client must watch
two others. Two channels are the least with which broadcastToSharedChannels could repeat or
miss a recipient. One slow client suffices because overflow acts on each recipient alone. For
the line buffer the limits are scaled with their order kept (content + 2 = line < chunk,
line + chunk = receive limit), so that every branch of findLine and of the receive limit's
argument is met. `MaxInput`, `MaxOutput`, `MaxBacklog` and `MaxStream` are the only bounds in
guards there. One session that talks suffices in `gateway`: sessions share only the slots,
for which a silent one is enough, and the history; everything else that others do reaches a
session through the IRC server, whose choices `OutsiderJoins` and the refusals cover.
`MaxActions` and `MaxSaid` bound messages there. In `webserv` two connections and one script
allow the CGI limit, a refused second script, a reused pipe number and a reused process
number within one pass; a body of two chunks does not fit the pipe, and one chunk of output
reaches the limit. `MaxPending` bounds waiting connections. Requests are cut
under every header limit of 2 to 4 lines, below, at and above their length, and every body
limit of 0 to 3 symbols; the chunk size `F` stands for one next to the greatest size_t, where
the sum wraps around. In
`text` the page has one attempt to connect (`input_usable` has two), two requests and one event
on their way (two events and two spellings, checked separately, give the same result).
The runs `rooms` and `modes` examine two instances each: the initial state chooses which of two
bounds every step keeps (`MCIrcServer`). Where clients do not fight for nicknames they register
in the usual order and one QUIT comes in a scan (others may be lost in it); of the three
clients in one channel two leave in a scan, which leaves one to watch; two clients with two
channels do not invite. Any order, several QUITs, and invitations, are met in the instances
without that bound. Repeated names come in PART and PRIVMSG lists, invalid ones in JOIN lists.
`Stopped`, `Silent`, `Over` and `Quiet` are the intended ends of `IrcEventLoop`,
`LineBuffer`, `Gateway` and `HistoryLog`; deadlock is checked everywhere.

**Fairness.** In the IRC server only `WF_vars(ServerStep)`: a process that can run is
eventually run. `poll()` with nothing to report is not enabled, so a server that waits is not
forced to move. Nothing is assumed about peers or signals. In the gateway each kind of
callback is weakly fair (Node runs every callback that is due, the interval timer fires), and
so is the IRC server's reading; nothing is assumed about browsers. In Webserv the loop goes
through `poll` and the end of the pass again and again, since it waits a second at most
(`poll(..., 1000)`), and a connection that makes no progress is overdue again and again, since
time goes on; this is written with `[]<>`, which for these actions says the same as weak
fairness of the loop's steps and of the clock and is cheaper for TLC. Nothing is assumed
about scripts and peers. The other modules have safety properties only and assume none.

Each property has a mutant in `PROJECT.json`: an operator in the same module that changes a
definition as a plausible slip in the code would (an index entry kept, only one channel left,
an overflow forgotten, a limit off by one), under which TLC finds the property violated.

## 4. The proofs

All with TLAPS, for every value of the constants that satisfies the modules' named
assumptions (descriptors are numbers, finitely many descriptors and channels, `NoFd`, `NoWord`
and `NoChan` are outside their sets, input lists are sequences of words; for the page, sockets
are numbered from 1, and `NoNick` and `NoName` are nobody's).

| Theorem | Says | Inductive invariant |
|---|---|---|
| `IrcServerProofs!TypeCorrect` | `Spec => []TypeOK` | `TypeOK /\ TaskInv`: a running loop has an owner and, for MODE, a channel; without it `task.chan` could be `NoChan` when it indexes a function |
| `IrcServerProofs!RelationsAgreeAlways`, `NickIndexExactAlways`, `NothingOutlivesDisconnectAlways`, `InviteIsSpentAlways` | the four safety invariants | `SafeInv`, their conjunction with facts about connected clients. None is inductive alone: that an invitation names a connected client needs the index (INVITE looks its target up), and that a disconnection leaves no membership needs the two sides to agree (it walks the client's side only) |
| `IrcServerProofs!NoInheritedDisconnectAlways` | a new connection is not scheduled | `StaleIsShielded`: below a scheduled descriptor that is closed, or about to be, there is a smaller free one until the scan has used up its accept. The batch closes in ascending order, the kernel hands out the lowest descriptor and a scan accepts once; drop any of the three and the theorem is false |
| `IrcServerProofs!DefersCloseAlways` | the handlers implement `DeferredClose` | `SafeInv` and the type invariant, one step kind per action |
| `IrcServerProofs!RoomsOfPeople` | the handlers implement `ChatRooms` | `RoomInv`: types, `TaskInv`, `SafeInv` and `NamedInv`. The exact index makes the nickname of a named client a unique name, so that an operation on a descriptor is one on a person; who is registered or invited must be named for that, and only a channel that exists may be invite-only, or its founder would be refused |
| `IrcServerProofs!MembersSeenTrulyAlways`, `OperatorsSeenTrulyAlways` | a client that reads what is queued to it displays the true members and operators | `RoomInv /\ SeenInv`. `Queue` puts a client whose buffer is full among the scheduled ones, which the properties do not speak of. `SeenInv` adds two things: a descriptor without a client has been shown nothing, since the next client with it starts from there; and while MODE collects its changes the operators displayed, *after* the notice about the changes so far, are the true ones (`WillShow`) |
| `IrcServerProofs!AdmissionControlAlways`, `NoOperatorFromNowhereAlways` | two action properties: nobody enters past the modes in force, and a channel without operator is given none | no invariant beyond `SafeInv`; every action but the steps of JOIN and MODE only takes members and rights away (`OnlyTakes`), and those two are analysed by their verdicts |
| `IrcEventLoopProofs!PolloutExactAlways`, `PollEntriesExactAlways` | a client is polled for POLLOUT exactly while it has output; the table holds the listener and every client once, and is never shorter than the snapshot under the scan | `LoopInv`: types and shape of the table, `PolloutExact`, and `ScanInv`, which relates the scan's index and snapshot to the table at each point of the loop. Exactness of POLLOUT needs the table to hold each client once, and the scan's index to be in range needs that closing is deferred |
| `IrcEventLoopProofs!LoopDefersClose` | the loop implements `DeferredClose` | `LoopInv`, with a lemma that a non-empty set of descriptors has a least one |
| `LineBufferProofs!BufferIsShortAlways` | the receive buffer is shorter than a line between calls; with the code's sizes the 65536-byte branch is dead code | typing and `BufferIsShort` itself, with a lemma on what findLine consumes |
| `LineBufferProofs!SegmentationIsInvisible` | if a line and a chunk fit the receive limit (512 + 4096 <= 65536), lines and disconnection depend on the bytes alone | `SplitInv`: while nothing has ended the connection, the buffer is what follows some position of the stream, a line begins there, and the lines before it are the processed ones (`Progress`); outside the loop the buffer holds no complete line. Without the hypothesis on the sizes the theorem is false: the receive limit is reached or not depending on the chunks |
| `ChatPageProofs!NobodyIsMissedAlways` | when the page has settled in a channel, spelt as its founder did, its list misses nobody who is there, if the gateway has refused no PART of the session | `PageInv`, which says where what is on its way leads. `Leading`: the requests under way take the session from where it is to the channel the page shows, through one channel at a time unless a PART was refused (`held`; a refused JOIN or NICK is harmless), so that a session never watches two channels and events of another one come before its own. `Completing`: once no join is among them, the events under way turn the list into one that misses nobody; a join appends the names of all who are there, and every later change is told to those who watch. `Phases` says what may be under way at each stage of a session: nothing from before its JOIN can arrive after it |
| `HistoryLogProofs!MemoryIsBoundedAlways` | the history keeps within its limits, each channel once | the entries are a sequence without repetition; lemmas on eviction and trimming |
| `HistoryLogProofs!ReplayIsLatestAlways` | a replay is the latest messages, in order and without a gap | `LogInv`: each remembered channel keeps the newest messages since it was last forgotten, as many as the limit allows, and a channel that is not remembered has had none since (`KeptIsLatest`); the replay cuts them once more, at a bound within the memory's |
| `GatewayProofs!SlotsAreExactAlways`, `ReplayToMembersOnlyAlways` | slots are counted exactly; history goes only to those the channel admitted | `GatewayInv`: counts equal the open sockets per address, sessions are typed and consistent, members of a channel have entered it, and a JOIN on its way to a session was announced to members only. That the replay looks at the nickname of the JOIN is *not* needed for it: a JOIN reaches members only |
| `GatewayProofs!TypeIsCorrect` | `Spec => []TypeOK` | `GatewayInv`, in which the counts make the typing of `addressCount` inductive, and `MemoryInv` for the history |
| `WebservProofs!TypesAreKept`, `DescriptorsStayExact`, `PollTableStaysExact`, `ChildrenStayExact` | the four safety invariants of the webserv loop | `WebInv`: the loop is up (`UpInv`) or has left nothing behind (`DownInv`). `UpInv` says that every open descriptor is known by what it is and each client and its pipes find one another (`FilesInv`), that the poll table holds what the tables say (`TableOK`), and that each child has one client (`ScriptsInv`). None holds alone: closing a client takes away the descriptors that *it* names, which are the right ones only if both owner tables agree with it. During a scan `ReportOK` ties what `poll` reported to entries that are still there, whatever was closed and opened in between |
| `WebservProofs!OutputIsWhole` | a script's output is passed on only after an exit with 0, and whole unless it went over the limit | `OutputInv`: once the output pipe of a running script has been given up, nothing is left in it to be read |
| `WebservProofs!LoopImplementsRequestLife` | the loop implements `RequestLife` | `WebInv`; `LimitsInv` gives its two limits |
| `WebservProofs!TargetsAlwaysResolve` | `PathIsCanonical` for every target that begins with a slash, `RoutingIsExact` for every path and list of locations, over every alphabet | no state; `Route`: the path of the segments so far begins with a slash, ends in none, and its segments are just those that count. For locations `Chosen`: no location matches, or the one chosen is the first of the longest that do; two prefixes of one path of the same length are the same text, so order does not matter |
| `TextProofs!RatesAreAlwaysExact` | the rate limit takes and refuses what it should, for every list of clock readings, burst and window | no state; `Lists`: what the limiter remembers are the times of the messages taken within a window, in their order, so that its length is their number |
| `TextProofs!WordsAreAlwaysExact` | `FoldIsStable`; `SizeIsExact` for numbers of any length and every greatest value from 9 on; `KeyIsUsable` for keys of any length | no state; the value read up to a place is the value written up to it, as long as it fits, and does not fit from there on |
| `TextProofs!RelaysAreAlwaysFaithful` | `RelayIsFaithful` for every alphabet and line, every safe spelling that the server has for a target, and every limit of at least two parameters | no state; the line that is written is described place by place (`Delivered`), and the parser's places in it are the only ones that fit |
| `TextProofs!TextsAlwaysArrive` | `TextArrives` for every alphabet, text and target that is a safe token without a comma, whatever safe spelling the server has for it | the same, for four functions in a row: writer, parser, reply, parser |

The action properties and refinements combine the invariant of their module with one step
per action of `Next`. What Webserv assumes of its constants (`WebservAssumption`): descriptors,
process numbers, sizes and limits are natural numbers, and no answer is empty.

The theorems of TextProofs, and `TargetsAlwaysResolve`, state the property for texts of any
length and, as its instance, the invariant that the run `text`, or `webserv`, checks. The
functions are recursive over the places of a text, and the library's induction theorems cannot
be instantiated; so each recursion is written as a
function whose steps are a function too, and `StepByStep` and `Downward` give the one that
satisfies the equation: a set of numbers that holds the first and with each its successor holds
all, because the least one missing (`WFMin`) would have a predecessor. One unfolding lemma per
function (`RateStates`, `Written`, `ParamsRead`, `WordsRead`, `CommaListRead`, `SanitizedRead`,
`SplitRead`, `JoinedRead`, `MatchLocationRead`, `UnescapedRead`) is all that later steps use.
The hypotheses are those of the code: a channel that exists has a name without blanks, line
ends, commas and a colon in front (`isValidChannelName`), the parser takes 15 parameters, and the greatest size_t has more than one digit (for a greatest value below 9 the
overflow test itself would wrap around).

Only model-checked: liveness (`GoneIsClosed`, `NobodyStarves`, `IrcIsReleased`,
`EveryConnectionEnds`), which is out of the prover's reach; and `RequestsAreDecidedOnce`. It
names the two exceptions there are: a header longer than its limit (`HeaderTooLong`), refused
when it arrives in pieces and accepted when its end arrives in the same read, and a chunk
whose size wraps around (`WrapsAround`), whose data are whatever stands behind its size line,
so that under a limit of three a request accepted with the body `0`, CR LF, CR LF is too
large once one symbol more has arrived (`Http.cpp:163`). The property says that the verdict
depends on segmentation in no other case, and that in each of the two it does.

`NobodyIsMissed` is about sequences too; its proof needs no induction because `Completes` and
`Leads` speak of a whole sequence of lists (or places) that exists, and each step of the system
lengthens or shortens it by one.

## 5. Running

```
cd tla
tlc -config Rooms.cfg MCIrcServer      # likewise Modes
tlc -config EventLoop.cfg IrcEventLoop # likewise PendingHandled
tlc -config Text.cfg MCText
tlc -config Gateway.cfg Gateway        # likewise HistoryPlanted
tlc -config Webserv.cfg MCWebserv
tlc -config CgiAnswered.cfg Webserv    # likewise OversizeRefused
tlc -config InputUsable.cfg ChatPage   # likewise MembersShown
tlapm IrcServerProofs.tla              # likewise the other *Proofs modules
```

## 6. Plan

1. *(done)* IrcServer with its two abstract specifications; IrcEventLoop; LineBuffer; first proofs.
2. *(done)* Gateway, ChannelHistory with HistoryLog.
3. *(done)* Webserv with RequestLife; HttpRequest, IrcText and RateLimit; ChatPage.
4. *(done)* Proofs of the event loop, the gateway, the history and the two action properties of
   the IRC server; of Webserv's safety and `ImplementsRequestLife`; of `ImplementsChatRooms` and
   the lists that clients display; of the replay, of the segmentation of a stream and of the
   list of the chat page; of the functions on text and of the rate limit.
5. Left to model: the entry point (start order, shutdown on the first exit), the gateway's
   shutdown, and two talking sessions whose messages meet in one history.
