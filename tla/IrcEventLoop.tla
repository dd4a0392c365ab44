---------------------------- MODULE IrcEventLoop ----------------------------
(***************************************************************************)
(* The poll loop of the IRC server (interface/ServerNetwork.cpp): what     *)
(* poll() reports, the scan over the snapshot of _pollFds, accept, recv,   *)
(* the lines of one recv, send, the deferred disconnections and the stop   *)
(* signal.  The process is one thread, but peers and signals act between   *)
(* any two of its steps.                                                   *)
(*                                                                         *)
(* Abstractions.  Input and output are counted in lines and messages; how  *)
(* bytes become lines is LineBuffer's subject, what a command does is      *)
(* IrcServer's: here it queues one message to any set of clients, or ends  *)
(* the connection.  Socket buffers are a count of unread lines and         *)
(* whether more can be written.  POLLERR stands for POLLHUP as well.       *)
(* POLLNVAL cannot be reported: entries go before close().                 *)
(***************************************************************************)
EXTENDS Naturals, Sequences, FiniteSets

CONSTANTS
  Fd,          \* descriptors the kernel may hand out, ordered
  Listen,      \* the listening descriptor
  MaxInput,    \* lines a peer may have sent ahead
  MaxOutput,   \* MAX_SEND_BUFFER, in messages
  MaxBacklog   \* connections waiting for accept()

ASSUME DescriptorsAreOrdered == Fd \subseteq Nat /\ Listen \notin Fd
ASSUME FinitelyMany == IsFiniteSet(Fd)
ASSUME BoundsArePositive ==
  MaxInput \in Nat \ {0} /\ MaxOutput \in Nat \ {0} /\ MaxBacklog \in Nat \ {0}

VARIABLES
  pc,            \* where eventLoop is
  stopRequested, \* g_stopRequested
  backlog,       \* connections the kernel has completed
  live,          \* keys of _clients
  fresh,         \* accepted in this scan
  pollFds,       \* _pollFds, in order
  pollout,       \* the entries whose events contain POLLOUT
  revents,       \* what poll() reported
  index,         \* the entry the scan is at
  snapshotSize,
  received,      \* lines of the last recv() not yet processed
  input,         \* lines sent by the peer and not yet received
  gone,          \* whether the peer has shut down or reset the connection
  writable,      \* whether the socket takes more output
  output,        \* messages in the send buffer
  pending,       \* _pendingDisconnects
  closing        \* what processPendingDisconnects has still to close

lifeVars == <<live, fresh, pending, closing>>
pollVars == <<pollFds, pollout, revents, index, snapshotSize, received>>
peerVars == <<backlog, input, gone, writable>>
vars == <<pc, stopRequested, lifeVars, pollVars, peerVars, output>>

\* Every variable holds what its C++ or kernel counterpart can hold.
TypeOK ==
  /\ pc \in {"check", "poll", "blocked", "scan", "recv", "line", "send",
             "close", "stopped"}
  /\ stopRequested \in BOOLEAN
  /\ backlog \in 0..MaxBacklog
  /\ live \subseteq Fd /\ fresh \subseteq Fd
  /\ pollFds \in Seq(Fd \cup {Listen})
  /\ pollout \subseteq Fd
  /\ revents \in [Fd \cup {Listen} -> SUBSET {"IN", "OUT", "ERR"}]
  /\ index \in Nat /\ snapshotSize \in Nat
  /\ received \in 0..MaxInput
  /\ input \in [Fd -> 0..MaxInput]
  /\ gone \in [Fd -> {"no", "eof", "reset"}]
  /\ writable \subseteq Fd
  /\ output \in [Fd -> 0..MaxOutput]
  /\ pending \subseteq Fd /\ closing \subseteq Fd

\* After setupListeningSocket.
Init ==
  /\ pc = "check"
  /\ stopRequested = FALSE
  /\ backlog = 0
  /\ live = {} /\ fresh = {}
  /\ pollFds = <<Listen>>
  /\ pollout = {}
  /\ revents = [f \in Fd \cup {Listen} |-> {}]
  /\ index = 0 /\ snapshotSize = 0 /\ received = 0
  /\ input = [f \in Fd |-> 0]
  /\ gone = [f \in Fd |-> "no"]
  /\ writable = {}
  /\ output = [f \in Fd |-> 0]
  /\ pending = {} /\ closing = {}

-----------------------------------------------------------------------------
(***************************************************************************)
(* The peers and the operator.                                             *)
(***************************************************************************)

Connect ==
  /\ pc # "stopped" /\ backlog < MaxBacklog
  /\ backlog' = backlog + 1
  /\ UNCHANGED <<pc, stopRequested, lifeVars, pollVars, input, gone, writable,
                 output>>

PeerSends(f) ==
  /\ pc # "stopped" /\ f \in live /\ gone[f] = "no" /\ input[f] < MaxInput
  /\ input' = [input EXCEPT ![f] = @ + 1]
  /\ UNCHANGED <<pc, stopRequested, lifeVars, pollVars, backlog, gone,
                 writable, output>>

PeerReads(f) ==
  /\ pc # "stopped" /\ f \in live \ writable /\ gone[f] = "no"
  /\ writable' = writable \cup {f}
  /\ UNCHANGED <<pc, stopRequested, lifeVars, pollVars, backlog, input, gone,
                 output>>

PeerLeaves(f) ==
  /\ pc # "stopped" /\ f \in live
  /\ \E how \in {"eof", "reset"} :
       /\ gone[f] # "reset" /\ gone[f] # how
       /\ gone' = [gone EXCEPT ![f] = how]
  /\ UNCHANGED <<pc, stopRequested, lifeVars, pollVars, backlog, input,
                 writable, output>>

\* handleStopSignal.  A poll() that is waiting returns -1 and the loop
\* breaks; at any other time only the flag is set.
Signal ==
  /\ pc # "stopped" /\ ~stopRequested
  /\ stopRequested' = TRUE
  /\ pc' = IF pc = "blocked" THEN "stopped" ELSE pc
  /\ UNCHANGED <<lifeVars, pollVars, peerVars, output>>

-----------------------------------------------------------------------------
(***************************************************************************)
(* eventLoop: the loop condition and poll().                               *)
(***************************************************************************)

CheckStop ==
  /\ pc = "check"
  /\ pc' = IF stopRequested THEN "stopped" ELSE "poll"
  /\ UNCHANGED <<stopRequested, lifeVars, pollVars, peerVars, output>>

\* What poll() finds for an entry.  A reset connection may be reported as
\* readable or not.
Readable(f) == input[f] > 0 \/ gone[f] = "eof"

Reported(f, resetsReadable) ==
  IF f = Listen THEN IF backlog > 0 THEN {"IN"} ELSE {}
  ELSE {e \in {"IN", "OUT", "ERR"} :
          \/ e = "IN"  /\ Readable(f) /\ gone[f] # "reset"
          \/ e = "IN"  /\ f \in resetsReadable
          \/ e = "OUT" /\ f \in pollout /\ (f \in writable \/ gone[f] = "reset")
          \/ e = "ERR" /\ gone[f] = "reset"}

Entries == {pollFds[i] : i \in 1..Len(pollFds)}

PollReturns ==
  /\ pc \in {"poll", "blocked"}
  /\ \E R \in SUBSET {f \in live : gone[f] = "reset"} :
       revents' = [f \in Fd \cup {Listen} |->
                     IF f \in Entries THEN Reported(f, R) ELSE {}]
  /\ \E f \in Entries : revents'[f] # {}
  /\ snapshotSize' = Len(pollFds)
  /\ index' = 1
  /\ pc' = "scan"
  /\ UNCHANGED <<stopRequested, lifeVars, pollFds, pollout, received, peerVars,
                 output>>

\* Nothing is ready, and the timeout is infinite.
PollWaits ==
  /\ pc = "poll"
  /\ \A f \in Entries : Reported(f, {}) = {}
  /\ pc' = "blocked"
  /\ UNCHANGED <<stopRequested, lifeVars, pollVars, peerVars, output>>

-----------------------------------------------------------------------------
(***************************************************************************)
(* The scan over the entries that existed when poll() returned.            *)
(***************************************************************************)

Current == pollFds[index]

\* Mutant: the scan ends after the first entry with an event.
NextEntryGivesUp ==
  /\ pc' = "scan"
  /\ index' = IF revents[Current] = {} THEN index + 1 ELSE snapshotSize + 1

NextEntry ==
  /\ pc' = "scan"
  /\ index' = index + 1

Scanning == pc = "scan" /\ index <= snapshotSize

SkipEntry ==
  /\ Scanning
  /\ revents[Current] = {}
  /\ NextEntry
  /\ UNCHANGED <<stopRequested, lifeVars, pollFds, pollout, revents,
                 snapshotSize, received, peerVars, output>>

\* handleListenEvent, acceptClient: one accept() per event; it fails when no
\* descriptor is left, and takes the lowest one otherwise.
AcceptClient ==
  /\ Scanning
  /\ Current = Listen /\ revents[Listen] # {}
  /\ IF live = Fd
     THEN UNCHANGED <<lifeVars, pollFds, pollout, revents, peerVars, output>>
     ELSE LET f == CHOOSE g \in Fd \ live : \A h \in Fd \ live : g <= h
          IN /\ backlog' = backlog - 1
             /\ live' = live \cup {f}
             /\ fresh' = {f}
             /\ pollFds' = Append(pollFds, f)
             /\ pollout' = pollout \ {f}
             /\ revents' = [revents EXCEPT ![f] = {}]
             /\ input' = [input EXCEPT ![f] = 0]
             /\ gone' = [gone EXCEPT ![f] = "no"]
             /\ writable' = writable \cup {f}
             /\ output' = [output EXCEPT ![f] = 0]
             /\ UNCHANGED <<pending, closing>>
  /\ NextEntry
  /\ UNCHANGED <<stopRequested, snapshotSize, received>>

\* handleClientEvent: input first, then output, then errors.
HandleClientEvent ==
  /\ Scanning
  /\ Current \in live /\ revents[Current] # {}
  /\ pc' = IF "IN" \in revents[Current] THEN "recv" ELSE "send"
  /\ UNCHANGED <<stopRequested, lifeVars, pollVars, peerVars, output>>

\* Mutant: recv() == 0 is taken for "nothing to read".
ReceiveNothingIgnored ==
  /\ pc = "recv"
  /\ gone[Current] = "reset" \/ input[Current] = 0
  /\ pending' = IF gone[Current] = "reset" THEN pending \cup {Current} ELSE pending
  /\ NextEntry
  /\ UNCHANGED <<stopRequested, live, fresh, closing, pollFds, pollout,
                 revents, snapshotSize, received, peerVars, output>>

\* receiveFromClient: recv() returns 0 or -1.
ReceiveNothing ==
  /\ pc = "recv"
  /\ gone[Current] = "reset" \/ input[Current] = 0
  /\ pending' = pending \cup {Current}
  /\ NextEntry
  /\ UNCHANGED <<stopRequested, live, fresh, closing, pollFds, pollout,
                 revents, snapshotSize, received, peerVars, output>>

\* receiveFromClient: recv() returns some of the lines.
ReceiveLines ==
  /\ pc = "recv"
  /\ gone[Current] # "reset"
  /\ \E n \in 1..input[Current] :
       /\ received' = n
       /\ input' = [input EXCEPT ![Current] = @ - n]
  /\ pc' = "line"
  /\ UNCHANGED <<stopRequested, lifeVars, pollFds, pollout, revents, index,
                 snapshotSize, backlog, gone, writable, output>>

\* queueToClient for every client of rcpt: the clients whose buffer is full
\* are scheduled, the others will be polled for POLLOUT (updatePollEvents).
Full(rcpt) == {f \in rcpt : output[f] = MaxOutput}

Queue(rcpt) ==
  /\ output' = [f \in Fd |-> IF f \in rcpt \ Full(rcpt) THEN output[f] + 1
                             ELSE output[f]]
  /\ pollout' = pollout \cup (rcpt \ Full(rcpt))

\* processLine.  A command queues messages, QUIT schedules, a line that is
\* too long does both; the loop goes on unless the client is now scheduled.
ProcessLine ==
  /\ pc = "line"
  /\ \/ \E rcpt \in SUBSET live :
          Queue(rcpt) /\ pending' = pending \cup Full(rcpt)
     \/ UNCHANGED <<output, pollout>> /\ pending' = pending \cup {Current}
     \/ Queue({Current}) /\ pending' = pending \cup {Current}
  /\ received' = IF Current \in pending' THEN 0 ELSE received - 1
  /\ IF Current \in pending' THEN NextEntry
     ELSE /\ pc' = IF received = 1 THEN "send" ELSE "line"
          /\ UNCHANGED index
  /\ UNCHANGED <<stopRequested, live, fresh, closing, pollFds, revents,
                 snapshotSize, peerVars>>

\* Mutant: flushSendBuffer leaves POLLOUT on.
FlushedPolloutKept(f) == pollout

\* updatePollEvents after a send().
FlushedPollout(f) == IF output'[f] = 0 THEN pollout \ {f} ELSE pollout

\* flushSendBuffer (when POLLOUT was reported), then POLLERR.
FlushSendBuffer ==
  /\ pc = "send"
  /\ LET f == Current
     IN \/ /\ "OUT" \in revents[f] /\ gone[f] # "reset"
           /\ \E n \in 0..output[f] :
                /\ n = 0 <=> output[f] = 0
                /\ output' = [output EXCEPT ![f] = @ - n]
           /\ \/ UNCHANGED writable \/ writable' = writable \ {f}
           /\ pollout' = FlushedPollout(f)
           /\ pending' = IF "ERR" \in revents[f] THEN pending \cup {f} ELSE pending
        \/ /\ "OUT" \notin revents[f] \/ gone[f] = "reset"
           /\ pending' = IF revents[f] \cap {"OUT", "ERR"} # {}
                         THEN pending \cup {f} ELSE pending
           /\ UNCHANGED <<output, pollout, writable>>
  /\ NextEntry
  /\ UNCHANGED <<stopRequested, live, fresh, closing, pollFds, revents,
                 snapshotSize, received, backlog, input, gone>>

-----------------------------------------------------------------------------
(***************************************************************************)
(* processPendingDisconnects.                                              *)
(***************************************************************************)

\* The set is copied and cleared.  What poll() reported is not read again
\* and forgotten.
EndScan ==
  /\ pc = "scan" /\ index > snapshotSize
  /\ closing' = pending
  /\ pending' = {}
  /\ fresh' = {}
  /\ pc' = "close"
  /\ revents' = [f \in Fd \cup {Listen} |-> {}]
  /\ index' = 0 /\ snapshotSize' = 0
  /\ UNCHANGED <<stopRequested, live, pollFds, pollout, received, peerVars,
                 output>>

\* Mutant: the set is walked from the highest descriptor.
HighestFirst(f) == \A g \in closing : g <= f

ClosesNext(f) == \A g \in closing : f <= g

\* Mutant: the poll entry is not removed.
EntriesAfterCloseKept(f) == pollFds

\* removeClientPollFd: the entry goes and those behind it move up.
EntriesAfterClose(f) ==
  LET place == CHOOSE i \in DOMAIN pollFds : pollFds[i] = f
  IN [i \in 1..Len(pollFds) - 1 |-> IF i < place THEN pollFds[i] ELSE pollFds[i + 1]]

\* disconnectClient: the QUIT notice to any of the other clients, the poll
\* entry, close(), the client.
DisconnectClient(f) ==
  /\ pc = "close" /\ f \in closing /\ ClosesNext(f)
  /\ closing' = closing \ {f}
  /\ IF f \in live
     THEN /\ \E rcpt \in SUBSET (live \ {f}) :
               /\ pending' = pending \cup Full(rcpt)
               /\ output' = [g \in Fd |->
                    IF g = f THEN 0
                    ELSE IF g \in rcpt \ Full(rcpt) THEN output[g] + 1
                    ELSE output[g]]
               /\ pollout' = (pollout \cup (rcpt \ Full(rcpt))) \ {f}
          /\ pollFds' = EntriesAfterClose(f)
          /\ live' = live \ {f}
          /\ input' = [input EXCEPT ![f] = 0]
          /\ gone' = [gone EXCEPT ![f] = "no"]
          /\ writable' = writable \ {f}
     ELSE UNCHANGED <<live, pending, pollFds, pollout, output, input, gone,
                      writable>>
  /\ UNCHANGED <<pc, stopRequested, fresh, revents, index, snapshotSize,
                 received, backlog>>

AllClosed ==
  /\ pc = "close" /\ closing = {}
  /\ pc' = "check"
  /\ UNCHANGED <<stopRequested, lifeVars, pollVars, peerVars, output>>

-----------------------------------------------------------------------------
ServerStep ==
  \/ CheckStop \/ PollReturns \/ PollWaits \/ SkipEntry \/ AcceptClient
  \/ HandleClientEvent \/ ReceiveNothing \/ ReceiveLines \/ ProcessLine
  \/ FlushSendBuffer \/ EndScan \/ AllClosed
  \/ \E f \in Fd : DisconnectClient(f)

Environment ==
  \/ Connect \/ Signal
  \/ \E f \in Fd : PeerSends(f) \/ PeerReads(f) \/ PeerLeaves(f)

\* The process has returned from eventLoop.
Stopped == pc = "stopped" /\ UNCHANGED vars

Next == ServerStep \/ Environment \/ Stopped

\* The process keeps running while it has something to do.  Nothing is
\* assumed of peers and signals.
Fairness == WF_vars(ServerStep)

Spec == Init /\ [][Next]_vars /\ Fairness

-----------------------------------------------------------------------------
(***************************************************************************)
(* Properties.                                                             *)
(***************************************************************************)

\* A client is polled for POLLOUT exactly while it has output: otherwise
\* poll() would spin on an idle socket or never flush a waiting message.
PolloutExact == \A f \in live : f \in pollout <=> output[f] > 0

\* _pollFds holds the listening socket first and every client once, and an
\* entry of the snapshot is still there when the scan reaches it.
PollEntriesExact ==
  /\ pollFds[1] = Listen
  /\ Entries = live \cup {Listen}
  /\ Cardinality(Entries) = Len(pollFds)
  /\ pc \in {"scan", "recv", "line", "send"} => snapshotSize <= Len(pollFds)

Lifecycle == INSTANCE DeferredClose

\* The loop keeps the promise of DeferredClose: nothing is closed during a
\* scan, one accept per scan, ascending order of closing.
ImplementsDeferredClose == Lifecycle!Spec

\* A peer that has left is disconnected, or the server stops.  So is a client
\* that is scheduled when a scan is under way: one that was scheduled while
\* others were being closed is met by the next scan, whenever that comes, as
\* poll() has no timeout.
GoneIsClosed ==
  \A f \in Fd :
    (f \in live /\ (gone[f] # "no" \/ (f \in pending /\ pc = "scan"))) ~>
      (f \notin live \/ pc = "stopped")

\* Nobody starves: a full socket is read, and a waiting connection is
\* accepted unless descriptors have run out, whatever the others send.
NobodyStarves ==
  /\ \A f \in Fd : (input[f] = MaxInput) ~>
                     (input[f] < MaxInput \/ pc = "stopped")
  /\ (backlog = MaxBacklog) ~>
       (backlog < MaxBacklog \/ live = Fd \/ pc = "stopped")

\* A scheduled client is not handed to a handler any more (the design's
\* invariant 9).
PendingIsNotHandled == pc = "line" => Current \notin pending
=============================================================================
