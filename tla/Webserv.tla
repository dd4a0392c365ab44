------------------------------ MODULE Webserv ------------------------------
(***************************************************************************)
(* The HTTP server's event loop with its CGI children                      *)
(* (src/apps/webserv/src/Server.cpp, and CgiHandler::start and             *)
(* makeResponse): one thread polls the listening socket, the client        *)
(* sockets and the pipes of the CGI scripts, hands every reported entry of *)
(* the poll table to its handler, then reaps the scripts that have ended   *)
(* and expires the clients that were silent for too long.                  *)
(*                                                                         *)
(* The scripts, the peers and the clock are the environment: they move     *)
(* between any two steps of the loop.  Descriptor numbers are kept, because*)
(* the kernel hands the number of a closed pipe to the next socket and the *)
(* tables are indexed by it.  Lengths are counted in chunks.               *)
(***************************************************************************)
EXTENDS Integers, Sequences, FiniteSets, Functions, SequencesExt

CONSTANTS
  LastDescriptor,  \* descriptor numbers go from 0, the listener, to this one
  Pids,            \* process numbers of the scripts
  MaxConnections,  \* MAX_CONNECTIONS
  MaxCgiProcesses, \* MAX_CGI_PROCESSES
  MaxPending,      \* bound: connections waiting when the listener is read
  RequestLimit,    \* maxBody + MAX_HEADER_OVERHEAD, in chunks
  BodySizes,       \* sizes of the request body handed to a script
  OutputLimit,     \* the 16 MiB of script output, in chunks
  AnswerSize       \* size of a serialised answer, in chunks

ASSUME WebservAssumption ==
  /\ LastDescriptor \in Nat
  /\ Pids \subseteq Nat
  /\ MaxConnections \in Nat /\ MaxCgiProcesses \in Nat /\ MaxPending \in Nat
  /\ RequestLimit \in Nat /\ OutputLimit \in Nat
  /\ BodySizes \subseteq Nat
  /\ AnswerSize \in Nat \ {0}

VARIABLES
  clients,          \* _clients: descriptor -> client
  pollfds,          \* _pollfds, the listener's entry first
  cgiInputOwners,   \* _cgiInputOwners: pipe -> client
  cgiOutputOwners,  \* _cgiOutputOwners: pipe -> client
  files,            \* the kernel's table of open descriptors
  scripts,          \* children not yet waited for, with their ends of the pipes
  pc,               \* where run() is: at poll(), in the scan, before expireClients()
  i                 \* the scan's index into pollfds

tables == <<clients, pollfds, cgiInputOwners, cgiOutputOwners, files>>
vars == <<tables, scripts, pc, i>>

Descriptors == 0..LastDescriptor
Listener == 0
Sockets == 1..LastDescriptor
None == -1

(***************************************************************************)
(* Helpers                                                                 *)
(***************************************************************************)

\* A client as acceptClient() creates it.  "overdue" stands for the clock:
\* now - touched > timeoutSeconds.
NewClient ==
  [input |-> 0, output |-> "none", sent |-> 0, overdue |-> FALSE,
   cgiPid |-> None, cgiInputFd |-> None, cgiOutputFd |-> None,
   cgiInput |-> 0, cgiWritten |-> 0, cgiOutput |-> 0]

Entry(fd, events) == [fd |-> fd, events |-> events, revents |-> {}]

\* Erasure from a table, the entries of g put into f, and a single entry.
Drop(f, S) == Restrict(f, DOMAIN f \ S)
Put(f, g) ==
  [x \in DOMAIN f \cup DOMAIN g |-> IF x \in DOMAIN g THEN g[x] ELSE f[x]]
Just(x, y) == [z \in {x} |-> y]

\* What s has at the places in K, in order.
Subsequence(s, K) ==
  [n \in 1..Cardinality(K) |->
     s[CHOOSE j \in K : Cardinality({m \in K : m <= j}) = n]]

\* The numbers the kernel hands out next, lowest first.
FreeDescriptors ==
  Subsequence([d \in Sockets |-> d], Sockets \ DOMAIN files)

\* The process number of the next script; one that has been waited for is given
\* away again as soon as possible.
FreePid ==
  LET free == Pids \ DOMAIN scripts IN {p \in free : \A other \in free : p <= other}

Pipes(c) == {c.cgiInputFd, c.cgiOutputFd} \ {None}

RunningCgi == {f \in DOMAIN clients : clients[f].cgiPid # None}

\* Entries the scan has still to visit, and the one it visits next.
Reported == {j \in DOMAIN pollfds : j >= i /\ pollfds[j].revents # {}}
Visited == CHOOSE j \in Reported : \A other \in Reported : j <= other

\* removePollFd() for the closed descriptors, new masks for some of the
\* entries left.
WithoutFds(table, gone) ==
  Subsequence(table, {j \in DOMAIN table : table[j].fd \notin gone})
WithEvents(table, asks) ==
  [j \in DOMAIN table |->
     IF table[j].fd \in DOMAIN asks
     THEN [table[j] EXCEPT !.events = asks[table[j].fd]] ELSE table[j]]
\* Mutant: only a client's own entry is removed.
NewTableKept(table, gone, asks) ==
  WithEvents(WithoutFds(table, gone \cap DOMAIN clients), asks)
NewTable(table, gone, asks) == WithEvents(WithoutFds(table, gone), asks)

\* close() of descriptors and the erasure of their owners.
\* Mutant: the owner of a closed input pipe stays registered.
CloseKeepingOwner(gone) ==
  /\ files' = Drop(files, gone)
  /\ cgiOutputOwners' = Drop(cgiOutputOwners, gone)
  /\ UNCHANGED cgiInputOwners
Close(gone) ==
  /\ files' = Drop(files, gone)
  /\ cgiInputOwners' = Drop(cgiInputOwners, gone)
  /\ cgiOutputOwners' = Drop(cgiOutputOwners, gone)

\* The scan goes on: the entry is left behind when it is still where it was,
\* otherwise the entry that took its place is looked at.  Its report is
\* forgotten, since the scan never comes back to it.
Seen(k) == [pollfds EXCEPT ![k].revents = {}]
GoOn(k, table) ==
  /\ pollfds' = table
  /\ i' = IF k \in DOMAIN table /\ table[k].fd = pollfds[k].fd THEN k + 1 ELSE k
  /\ pc' = pc

\* The common end of a handler called for entry k.
Done(k, cs, gone, asks) ==
  /\ clients' = cs
  /\ Close(gone)
  /\ GoOn(k, NewTable(Seen(k), gone, asks))

\* What the client is told once its script has been waited for
\* (finishCgi, CgiHandler::makeResponse): only a script that exited 0 and
\* wrote a well-formed header is passed on.
\* Mutant: the exit status does not matter.
ResponseWhateverStatus(c, status, wellFormed) ==
  IF c.cgiOutput > 0 /\ wellFormed THEN "cgi" ELSE "own"
Response(c, status, wellFormed) ==
  IF status = "ok" /\ c.cgiOutput > 0 /\ wellFormed THEN "cgi" ELSE "own"

\* A client with an answer to write: what it asked for, and what its script
\* got and gave, is not read again, and is left out from here on.
Answered(c, what) == [NewClient EXCEPT !.output = what]

Finished(c, status, wellFormed) == Answered(c, Response(c, status, wellFormed))

\* The child closeClient() kills and waits for.
\* Mutant: the child is left alone.
ChildLeft(c) == {}
ChildOf(c) == {c.cgiPid} \ {None}

(***************************************************************************)
(* Handlers.  Each is enabled for the entry k under the test run() makes.  *)
(***************************************************************************)

IsOutputPipe(k) == pollfds[k].fd \in DOMAIN cgiOutputOwners
IsInputPipe(k) ==
  ~IsOutputPipe(k) /\ pollfds[k].fd \in DOMAIN cgiInputOwners
IsClient(k) ==
  /\ pollfds[k].fd # Listener
  /\ ~IsOutputPipe(k) /\ ~IsInputPipe(k)

Broken(k) == "ERR" \in pollfds[k].revents

\* acceptClient(): takes the waiting connections as long as there is room for
\* them and accept() has a descriptor for them; what is beyond the limit is
\* closed at once.
AcceptClient(k) ==
  /\ pollfds[k].fd = Listener
  /\ \E number \in 0..MaxPending :
       /\ Cardinality(DOMAIN clients) + number <= MaxConnections
       /\ number <= Len(FreeDescriptors)
       /\ LET taken == SubSeq(FreeDescriptors, 1, number)
              new == ToSet(taken)
          IN /\ clients' = Put(clients, [f \in new |-> NewClient])
             /\ files' = Put(files, [f \in new |-> <<"client", None>>])
             /\ GoOn(k, Seen(k) \o [j \in DOMAIN taken |-> Entry(taken[j], {"IN"})])
  /\ UNCHANGED <<cgiInputOwners, cgiOutputOwners, scripts>>

\* closeClient(): the script is killed and waited for, every descriptor closed.
CloseClient(k, f) ==
  /\ Done(k, Drop(clients, {f}), {f} \cup Pipes(clients[f]), <<>>)
  /\ scripts' = Drop(scripts, ChildOf(clients[f]))

\* The limit on what a script may write.
\* Mutant: one chunk too many is kept.
TooMuchLater(c) == c.cgiOutput > OutputLimit + 1
TooMuch(c) == c.cgiOutput > OutputLimit

\* readCgi(): a chunk of output, and the end of a script that writes too much.
ReadCgiChunk(k) ==
  /\ IsOutputPipe(k)
  /\ LET f == cgiOutputOwners[pollfds[k].fd]
         pid == clients[f].cgiPid
         more == [clients[f] EXCEPT !.cgiOutput = @ + 1, !.overdue = FALSE]
     IN /\ scripts[pid].data
        /\ \/ /\ ~TooMuch(more)
              /\ Done(k, [clients EXCEPT ![f] = more], {}, <<>>)
              /\ scripts' = [scripts EXCEPT ![pid].data = FALSE]
           \/ /\ TooMuch(more)
              /\ \E wellFormed \in BOOLEAN :
                   Done(k, [clients EXCEPT ![f] =
                              Finished(more, scripts[pid].state, wellFormed)],
                        Pipes(more), Just(f, {"OUT"}))
              /\ scripts' = Drop(scripts, {pid})

\* readCgi() at the end of the output: waitpid(WNOHANG) finds the script
\* ended, or leaves it to reapCgi().
ReadCgiEnd(k) ==
  /\ IsOutputPipe(k)
  /\ LET fd == pollfds[k].fd
         f == cgiOutputOwners[fd]
         c == clients[f]
         script == scripts[c.cgiPid]
     IN /\ ~script.data
        /\ \/ /\ script.state = "run"
              /\ Done(k, [clients EXCEPT ![f].cgiOutputFd = None], {fd}, <<>>)
              /\ UNCHANGED scripts
           \/ /\ script.state # "run"
              /\ \E wellFormed \in BOOLEAN :
                   Done(k, [clients EXCEPT ![f] = Finished(c, script.state, wellFormed)],
                        Pipes(c), Just(f, {"OUT"}))
              /\ scripts' = Drop(scripts, {c.cgiPid})

\* writeCgi(): a chunk of the body, or EPIPE when nobody reads it any more.
WriteCgi(k) ==
  /\ IsInputPipe(k) /\ "OUT" \in pollfds[k].revents
  /\ LET fd == pollfds[k].fd
         f == cgiInputOwners[fd]
         c == clients[f]
         reader == scripts[c.cgiPid].reader
         sent == IF reader THEN [c EXCEPT !.cgiWritten = @ + 1, !.overdue = FALSE] ELSE c
         over == ~reader \/ sent.cgiWritten = c.cgiInput
     IN /\ Done(k, [clients EXCEPT ![f] =
                      IF over THEN [sent EXCEPT !.cgiInputFd = None] ELSE sent],
                IF over THEN {fd} ELSE {}, <<>>)
        /\ scripts' = [scripts EXCEPT ![c.cgiPid].full = ~over]

\* run(): the input pipe is reported without POLLOUT.
InputPipeBroken(k) ==
  /\ IsInputPipe(k) /\ "OUT" \notin pollfds[k].revents
  /\ CloseClient(k, cgiInputOwners[pollfds[k].fd])

\* run(): the client's connection is reset.
ClientGone(k) ==
  /\ IsClient(k) /\ Broken(k)
  /\ CloseClient(k, pollfds[k].fd)

\* recv() or send() would block: nothing but the scan's index moves.
NothingDone(k) ==
  /\ IsClient(k) /\ ~Broken(k)
  /\ GoOn(k, Seen(k))
  /\ UNCHANGED <<clients, cgiInputOwners, cgiOutputOwners, files, scripts>>

\* recv() or send() fails, or the peer has closed its side.
PeerClosed(k) ==
  /\ IsClient(k) /\ ~Broken(k)
  /\ CloseClient(k, pollfds[k].fd)

Readable(k) == IsClient(k) /\ ~Broken(k) /\ "IN" \in pollfds[k].revents

\* readClient(): the answer that needs no script, from the Dispatcher or an
\* error; too long an input is answered without being kept.
AnswerNow(k) ==
  /\ Readable(k)
  /\ LET f == pollfds[k].fd
         c == clients[f]
         touched == c.input + 1 <= RequestLimit
     IN Done(k, [clients EXCEPT ![f] =
                   [Answered(c, "own") EXCEPT !.overdue = ~touched /\ c.overdue]],
             {}, Just(f, {"OUT"}))
  /\ UNCHANGED scripts

\* readClient(): the request is not complete yet.
KeepReading(k) ==
  /\ Readable(k)
  /\ LET f == pollfds[k].fd
     IN /\ clients[f].input + 1 <= RequestLimit
        /\ Done(k, [clients EXCEPT ![f].input = @ + 1, ![f].overdue = FALSE], {}, <<>>)
  /\ UNCHANGED scripts

\* readClient() has a request that names a script: startCgi() takes over.
Requested(k) ==
  /\ Readable(k)
  /\ clients[pollfds[k].fd].input + 1 <= RequestLimit
AfterRequest(k) ==
  [clients[pollfds[k].fd] EXCEPT !.input = @ + 1, !.overdue = FALSE]

\* Scripts are counted by the clients that wait for one.
\* Mutant: one script more than allowed.
CgiIsFullLater == Cardinality(RunningCgi) > MaxCgiProcesses
CgiIsFull == Cardinality(RunningCgi) >= MaxCgiProcesses

\* startCgi(): as many scripts as allowed are running.
RefuseCgi(k) ==
  /\ Requested(k)
  /\ CgiIsFull
  /\ LET f == pollfds[k].fd
     IN Done(k, [clients EXCEPT ![f] = Answered(@, "own")], {}, Just(f, {"OUT"}))
  /\ UNCHANGED scripts

\* startCgi(): the script is missing or forbidden (404, 403), or no pipe or
\* process could be made (500).
StartCgiFails(k) ==
  /\ Requested(k)
  /\ ~CgiIsFull
  /\ LET f == pollfds[k].fd
     IN Done(k, [clients EXCEPT ![f] = Answered(@, "own")], {}, Just(f, {"OUT"}))
  /\ UNCHANGED scripts

\* startCgi() and CgiHandler::start(): of the four ends of the two pipes, the
\* second and the third stay open; a script without a body gets no input pipe.
StartCgi(k) ==
  /\ Requested(k)
  /\ ~CgiIsFull
  /\ Len(FreeDescriptors) >= 4
  /\ \E body \in BodySizes, pid \in FreePid :
       LET f == pollfds[k].fd
           inputFd == FreeDescriptors[2]
           outputFd == FreeDescriptors[3]
           fed == body > 0
       IN /\ clients' = [clients EXCEPT ![f] =
               [AfterRequest(k) EXCEPT
                  !.cgiPid = pid, !.cgiOutputFd = outputFd,
                  !.cgiInputFd = IF fed THEN inputFd ELSE None,
                  !.input = 0, !.cgiInput = body]]
          /\ files' = Put(Put(files, Just(outputFd, <<"stdout", pid>>)),
                          IF fed THEN Just(inputFd, <<"stdin", pid>>) ELSE <<>>)
          /\ cgiOutputOwners' = Put(cgiOutputOwners, Just(outputFd, f))
          /\ cgiInputOwners' =
               Put(cgiInputOwners, IF fed THEN Just(inputFd, f) ELSE <<>>)
          /\ GoOn(k, WithEvents(Seen(k), Just(f, {})) \o <<Entry(outputFd, {"IN"})>>
                     \o (IF fed THEN <<Entry(inputFd, {"OUT"})>> ELSE <<>>))
          /\ scripts' = Put(scripts, Just(pid, [state |-> "run", reader |-> TRUE, writer |-> TRUE,
                                              full |-> FALSE, data |-> FALSE]))

\* writeClient(): part of the answer, or its end, which closes the connection.
WriteClient(k) ==
  /\ IsClient(k) /\ ~Broken(k) /\ "OUT" \in pollfds[k].revents
  /\ LET f == pollfds[k].fd
     IN \/ /\ clients[f].sent + 1 < AnswerSize
           /\ Done(k, [clients EXCEPT ![f].sent = @ + 1, ![f].overdue = FALSE], {}, <<>>)
           /\ UNCHANGED scripts
        \/ /\ clients[f].sent + 1 = AnswerSize
           /\ CloseClient(k, f)

(***************************************************************************)
(* The loop                                                                *)
(***************************************************************************)

\* poll(): what the kernel reports of an entry.  A socket may report what was
\* asked, an error, or nothing; a pipe reports what its other end makes true.
PipeReport(kind, script) ==
  IF kind = "stdout"
  THEN (IF script.data THEN {"IN"} ELSE {}) \cup (IF script.writer THEN {} ELSE {"ERR"})
  ELSE (IF script.full THEN {} ELSE {"OUT"}) \cup (IF script.reader THEN {} ELSE {"ERR"})

Poll ==
  /\ pc = "poll"
  /\ \E heard, reset \in SUBSET ({Listener} \cup DOMAIN clients) :
       /\ heard \cap reset = {} /\ Listener \notin reset
       /\ LET Report(e) ==
                IF e.fd \in heard THEN e.events
                ELSE IF e.fd \in reset THEN {"ERR"}
                ELSE IF files[e.fd][2] = None THEN {}
                ELSE PipeReport(files[e.fd][1], scripts[files[e.fd][2]])
          IN pollfds' = [j \in DOMAIN pollfds |->
                           [pollfds[j] EXCEPT !.revents = Report(pollfds[j])]]
  /\ pc' = "scan" /\ i' = 1
  /\ UNCHANGED <<clients, cgiInputOwners, cgiOutputOwners, files, scripts>>

\* run(): the handler of the next reported entry.
Dispatch ==
  /\ pc = "scan" /\ Reported # {}
  /\ LET k == Visited
     IN \/ AcceptClient(k)
        \/ ReadCgiChunk(k) \/ ReadCgiEnd(k)
        \/ WriteCgi(k) \/ InputPipeBroken(k)
        \/ ClientGone(k) \/ NothingDone(k) \/ PeerClosed(k)
        \/ AnswerNow(k) \/ KeepReading(k)
        \/ RefuseCgi(k) \/ StartCgiFails(k) \/ StartCgi(k)
        \/ WriteClient(k)

\* The changes reapCgi() and expireClients() make, for all their clients.
AfterScan(cs, gone, asked, reaped, next) ==
  /\ clients' = cs
  /\ Close(gone)
  /\ pollfds' = NewTable(pollfds, gone, [f \in asked |-> {"OUT"}])
  /\ scripts' = Drop(scripts, reaped)
  /\ pc' = next
  /\ i' = 0

\* reapCgi(): the scripts whose output has ended and which have exited.
ReapCgi ==
  /\ pc = "scan" /\ Reported = {}
  /\ LET done == {f \in RunningCgi : /\ clients[f].cgiOutputFd = None
                                     /\ scripts[clients[f].cgiPid].state # "run"}
     IN \E wellFormed \in SUBSET done :
          AfterScan([f \in DOMAIN clients |->
                       IF f \in done
                       THEN Finished(clients[f], scripts[clients[f].cgiPid].state,
                                     f \in wellFormed)
                       ELSE clients[f]],
                    UNION {Pipes(clients[f]) : f \in done}, done,
                    {clients[f].cgiPid : f \in done}, "expire")

\* Whether an overdue client has no answer yet.
\* Mutant: an answer of the server itself does not count.
UnansweredOrStuck(c) == c.output \in {"none", "own"}
Unanswered(c) == c.output = "none"

\* expireClients(): an overdue client gets 504 for its script, 408 when it has
\* no answer yet, and is closed when it does not take the one it has.
ExpireClients ==
  /\ pc = "expire"
  /\ LET expired == {f \in DOMAIN clients : clients[f].overdue}
         running == expired \cap RunningCgi
         silent == {f \in expired \ running : Unanswered(clients[f])}
         closed == expired \ (running \cup silent)
     IN AfterScan([f \in DOMAIN clients \ closed |->
                     IF f \in running THEN Answered(clients[f], "own")
                     ELSE IF f \in silent THEN Answered(clients[f], "own")
                     ELSE clients[f]],
                  closed \cup UNION {Pipes(clients[f]) : f \in running},
                  running \cup silent, {clients[f].cgiPid : f \in running}, "poll")

\* A signal ends the loop, and the destructor takes everything down.
Stop ==
  /\ pc = "poll"
  /\ clients' = <<>>
  /\ Close({Listener} \cup DOMAIN clients
           \cup UNION {Pipes(clients[f]) : f \in DOMAIN clients})
  /\ scripts' = Drop(scripts, {clients[f].cgiPid : f \in RunningCgi})
  /\ pollfds' = <<>> /\ pc' = "stopped" /\ i' = 0

Stopped == pc = "stopped" /\ UNCHANGED vars

Loop == Poll \/ Dispatch \/ ReapCgi \/ ExpireClients

(***************************************************************************)
(* The environment                                                         *)
(***************************************************************************)

ScriptMoves(pid, new) ==
  /\ scripts' = [scripts EXCEPT ![pid] = new]
  /\ UNCHANGED <<tables, pc, i>>

\* The script ends, on its own or by a resource limit; processes it started
\* may keep its ends of the pipes open.
ScriptExits(pid) ==
  /\ scripts[pid].state = "run"
  /\ \E status \in {"ok", "bad"} : ScriptMoves(pid, [scripts[pid] EXCEPT !.state = status])
\* Whether the script reads matters as long as the server may write.
Fed(pid) == <<"stdin", pid>> \in Range(files)
ScriptReads(pid) ==
  /\ pc = "poll" /\ scripts[pid].reader /\ scripts[pid].full
  /\ ScriptMoves(pid, [scripts[pid] EXCEPT !.full = FALSE])
ScriptWrites(pid) ==
  /\ pc = "poll" /\ scripts[pid].writer /\ ~scripts[pid].data
  /\ ScriptMoves(pid, [scripts[pid] EXCEPT !.data = TRUE])
ScriptClosesInput(pid) ==
  /\ pc = "poll" /\ scripts[pid].reader /\ Fed(pid)
  /\ ScriptMoves(pid, [scripts[pid] EXCEPT !.reader = FALSE])
ScriptClosesOutput(pid) ==
  /\ pc = "poll" /\ scripts[pid].writer
  /\ ScriptMoves(pid, [scripts[pid] EXCEPT !.writer = FALSE])

\* timeoutSeconds go by without progress on the connection.
DeadlinePasses(f) ==
  /\ f \in DOMAIN clients /\ ~clients[f].overdue
  /\ clients' = [clients EXCEPT ![f].overdue = TRUE]
  /\ UNCHANGED <<pollfds, cgiInputOwners, cgiOutputOwners, files, scripts, pc, i>>

Environment ==
  \/ \E pid \in DOMAIN scripts :
       \/ ScriptExits(pid) \/ ScriptReads(pid) \/ ScriptWrites(pid)
       \/ ScriptClosesInput(pid) \/ ScriptClosesOutput(pid)
  \/ \E f \in Descriptors : DeadlinePasses(f)

Init ==
  /\ clients = <<>> /\ cgiInputOwners = <<>> /\ cgiOutputOwners = <<>>
  /\ files = Just(Listener, <<"listener", None>>)
  /\ pollfds = <<Entry(Listener, {"IN"})>>
  /\ scripts = <<>> /\ pc = "poll" /\ i = 0

Next == Loop \/ Stop \/ Stopped \/ Environment

\* The loop never waits longer than a second in poll() and every pass ends;
\* the clock goes on.  Written as what recurs, these say the same as weak
\* fairness of Loop and of every DeadlinePasses(f).
Fairness ==
  /\ []<>(pc \in {"expire", "stopped"}) /\ []<>(pc \in {"poll", "stopped"})
  /\ \A f \in Sockets : []<>(f \in DOMAIN clients => clients[f].overdue)

Spec == Init /\ [][Next]_vars /\ Fairness

(***************************************************************************)
(* Properties                                                              *)
(***************************************************************************)

ClientState ==
  [input : 0..RequestLimit, output : {"none", "own", "cgi"}, sent : 0..AnswerSize,
   overdue : BOOLEAN, cgiPid : Pids \cup {None},
   cgiInputFd : Descriptors \cup {None}, cgiOutputFd : Descriptors \cup {None},
   cgiInput : {0} \cup BodySizes, cgiWritten : Nat, cgiOutput : 0..OutputLimit]
Script ==
  [state : {"run", "ok", "bad"}, reader : BOOLEAN, writer : BOOLEAN,
   full : BOOLEAN, data : BOOLEAN]
PollEntry ==
  [fd : Descriptors, events : SUBSET {"IN", "OUT"}, revents : SUBSET {"IN", "OUT", "ERR"}]

\* Every variable keeps its type.
TypeOK ==
  /\ DOMAIN clients \subseteq Descriptors /\ Range(clients) \subseteq ClientState
  /\ pollfds \in Seq(PollEntry)
  /\ \A owners \in {cgiInputOwners, cgiOutputOwners} :
       DOMAIN owners \cup Range(owners) \subseteq Descriptors
  /\ DOMAIN files \subseteq Descriptors
  /\ DOMAIN scripts \subseteq Pids /\ Range(scripts) \subseteq Script
  /\ pc \in {"poll", "scan", "expire", "stopped"} /\ i \in Nat

\* The descriptors a client holds, with what each must be.
Held(f) ==
  LET c == clients[f]
  IN {<<f, "client", None>>}
     \cup (IF c.cgiInputFd = None THEN {} ELSE {<<c.cgiInputFd, "stdin", c.cgiPid>>})
     \cup (IF c.cgiOutputFd = None THEN {} ELSE {<<c.cgiOutputFd, "stdout", c.cgiPid>>})

\* No descriptor is closed twice, forgotten or taken for another: what is open
\* is exactly what the clients hold, each pipe leads to the client's own
\* script and is found through the owner map of its side, whatever numbers the
\* kernel hands out again within one pass (closeClient, finishCgi, writeCgi,
\* readCgi, expireClients and startCgi each close or register their own part).
DescriptorsExact ==
  pc # "stopped" =>
    LET held == UNION {Held(f) : f \in DOMAIN clients}
    IN /\ {<<fd, files[fd][1], files[fd][2]>> : fd \in DOMAIN files}
            = held \cup {<<Listener, "listener", None>>}
       /\ {<<fd, cgiInputOwners[fd]>> : fd \in DOMAIN cgiInputOwners}
            = {<<clients[f].cgiInputFd, f>> :
                 f \in {g \in DOMAIN clients : clients[g].cgiInputFd # None}}
       /\ {<<fd, cgiOutputOwners[fd]>> : fd \in DOMAIN cgiOutputOwners}
            = {<<clients[f].cgiOutputFd, f>> :
                 f \in {g \in DOMAIN clients : clients[g].cgiOutputFd # None}}

\* What a descriptor has to be watched for: a client whose script runs for
\* nothing, one with an answer for room, one without for its request.
Wanted(fd) ==
  IF fd \in DOMAIN clients
  THEN IF clients[fd].cgiPid # None THEN {}
       ELSE IF clients[fd].output = "none" THEN {"IN"} ELSE {"OUT"}
  ELSE IF fd \in DOMAIN cgiInputOwners THEN {"OUT"} ELSE {"IN"}

\* poll() watches every open descriptor once, for what its state needs: a
\* missing mask is a connection that never moves, one too many a busy loop,
\* and an entry of a closed descriptor speaks for its next owner.
PollTableExact ==
  pc # "stopped" =>
    /\ Len(pollfds) = Cardinality(DOMAIN files)
    /\ {pollfds[j].fd : j \in DOMAIN pollfds} = DOMAIN files
    /\ \A j \in DOMAIN pollfds : pollfds[j].events = Wanted(pollfds[j].fd)

\* Every child has exactly one client that will wait for it, and no client
\* names a child that has been waited for already: no zombie is left for ever
\* and no signal goes to a process number that has been given away again.
ChildrenExact ==
  /\ DOMAIN scripts = {clients[f].cgiPid : f \in RunningCgi}
  /\ \A f, g \in RunningCgi : clients[f].cgiPid = clients[g].cgiPid => f = g

\* A script has written more than the limit allows, and the chunk that is too
\* much has not been read yet.
OverTheLimit(f) ==
  clients[f].cgiOutput = OutputLimit /\ scripts[clients[f].cgiPid].data

\* A script's output reaches the client only when the script has exited with 0
\* by itself, and then all of it: nothing is left in the pipe, and nobody who
\* could still write to it.  Except for output over the limit, of which the
\* part up to the limit is passed on: see OversizeIsRefused.
OutputIsPassedOnWhole ==
  [][\A f \in RunningCgi :
       (f \in DOMAIN clients' /\ clients'[f].output = "cgi") =>
          LET script == scripts[clients[f].cgiPid]
          IN /\ script.state = "ok"
             /\ ~OverTheLimit(f) => ~script.data /\ ~script.writer]_vars

\* docs/cgi-implementation.md:112 promises a 500 for output over the limit.  Is
\* it never passed on?
OversizeIsRefused ==
  [][\A f \in RunningCgi :
       (OverTheLimit(f) /\ f \in DOMAIN clients') => clients'[f].output # "cgi"]_vars

\* docs/cgi-implementation.md:112 promises a 500 for a script that ends
\* abnormally.  Does its client always get an answer, unless it has reset the
\* connection or the server stops?
AbnormalEndIsAnswered ==
  [][\A f \in RunningCgi :
       scripts[clients[f].cgiPid].state = "bad" =>
          \/ f \in DOMAIN clients'
          \/ pc' = "stopped"
          \/ pc = "scan" /\ pollfds[Visited].fd = f]_vars

\* The abstract life of a request, seen in the tables: a script counts as
\* running as long as it has not been waited for.
LifeOf(f) ==
  IF f \notin DOMAIN clients THEN "closed"
  ELSE IF clients[f].cgiPid \in DOMAIN scripts THEN "running"
  ELSE IF clients[f].output = "none" THEN "reading" ELSE "answering"

Life == INSTANCE RequestLife WITH
          Slot <- Descriptors, conn <- [f \in Descriptors |-> LifeOf(f)]

\* The event loop implements the life of a request: one answer, no way back,
\* a script exactly while the request is running, both limits kept.
ImplementsRequestLife == Life!Spec

\* Every connection ends, whatever its peer and its script do or leave undone:
\* the bytes that count as progress are limited, and a second timeout takes
\* what the first one has answered.
EveryConnectionEnds ==
  \A f \in Sockets : (f \in DOMAIN clients) ~> (f \notin DOMAIN clients)

=============================================================================
