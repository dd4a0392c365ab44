---------------------------- MODULE LineBuffer ----------------------------
(***************************************************************************)
(* How the IRC server turns the bytes of one client into lines:            *)
(* receiveFromClient with BufferUtil::findLine and the receive buffer of   *)
(* Client.  recv() cuts the byte stream anywhere; what the client said     *)
(* must not depend on where.                                               *)
(*                                                                         *)
(* Bytes are the two terminators and members of Content; a line that       *)
(* consists of the byte Quit is a QUIT, every other line a command after   *)
(* which the client stays connected.  `delivered' is a history variable.   *)
(***************************************************************************)
EXTENDS Naturals, Sequences, FiniteSets

CONSTANTS
  CR, LF,
  Content,     \* the other bytes
  Quit,        \* a byte of Content
  MaxLine,     \* IRC_MAX_LINE, 512
  ChunkSize,   \* RECV_CHUNK_SIZE, 4096
  MaxReceive,  \* MAX_RECEIVE_BUFFER, 65536
  MaxStream    \* bound on the bytes a client sends

Byte == Content \cup {CR, LF}
MaxContent == MaxLine - 2 \* IRC_MAX_CONTENT

ASSUME BytesAreDistinct == CR # LF /\ Quit \in Content \ {CR, LF}
ASSUME SizesAreNumbers ==
  /\ MaxLine \in Nat /\ MaxLine > 2
  /\ ChunkSize \in Nat \ {0} /\ MaxReceive \in Nat /\ MaxStream \in Nat

VARIABLES
  buffer,     \* Client::_receiveBuffer
  running,    \* whether the loop of receiveFromClient runs
  lines,      \* what has been given to processLine
  scheduled,  \* why the client is in _pendingDisconnects, if it is
  delivered   \* every byte recv() has returned

vars == <<buffer, running, lines, scheduled, delivered>>

\* Every variable holds what its C++ counterpart can hold.
TypeOK ==
  /\ buffer \in Seq(Byte)
  /\ running \in BOOLEAN
  /\ lines \in Seq(Seq(Byte))
  /\ scheduled \in {"no", "quit", "too long", "overflow"}
  /\ delivered \in Seq(Byte)

Init ==
  /\ buffer = <<>> /\ running = FALSE /\ lines = <<>>
  /\ scheduled = "no" /\ delivered = <<>>

\* recv() returns at least one byte; they are appended and the buffer's
\* limit is checked.
Receive ==
  /\ ~running /\ scheduled = "no"
  /\ Len(delivered) < MaxStream
  /\ \E n \in 1..ChunkSize :
       /\ n <= MaxStream - Len(delivered)
       /\ \E bytes \in [1..n -> Byte] :
            /\ buffer' = buffer \o bytes
            /\ delivered' = delivered \o bytes
  /\ IF Len(buffer') > MaxReceive
     THEN scheduled' = "overflow" /\ running' = FALSE
     ELSE UNCHANGED scheduled /\ running' = TRUE
  /\ UNCHANGED lines

Terminators(s) == {i \in 1..Len(s) : s[i] = LF}

\* The line without its terminator: one CR before the LF goes too.
Stripped(raw) ==
  IF raw # <<>> /\ raw[Len(raw)] = CR THEN SubSeq(raw, 1, Len(raw) - 1)
  ELSE raw

Found(status, line, consumed) ==
  [status |-> status, line |-> line, consumed |-> consumed]

\* Mutants: an unterminated line is cut off one byte early, or late.
FindLineCutsEarly(s) ==
  IF Terminators(s) = {}
  THEN IF Len(s) >= MaxLine - 1 THEN Found("too long", <<>>, Len(s))
       ELSE Found("incomplete", <<>>, 0)
  ELSE LET pos == CHOOSE i \in Terminators(s) : \A j \in Terminators(s) : i <= j
           line == Stripped(SubSeq(s, 1, pos - 1))
       IN IF Len(line) > MaxContent THEN Found("too long", <<>>, pos)
          ELSE Found("extracted", line, pos)
FindLineWaitsLong(s) ==
  IF Terminators(s) = {}
  THEN IF Len(s) > MaxLine THEN Found("too long", <<>>, Len(s))
       ELSE Found("incomplete", <<>>, 0)
  ELSE LET pos == CHOOSE i \in Terminators(s) : \A j \in Terminators(s) : i <= j
           line == Stripped(SubSeq(s, 1, pos - 1))
       IN IF Len(line) > MaxContent THEN Found("too long", <<>>, pos)
          ELSE Found("extracted", line, pos)

\* BufferUtil::findLine
FindLine(s) ==
  IF Terminators(s) = {}
  THEN IF Len(s) >= MaxLine THEN Found("too long", <<>>, Len(s))
       ELSE Found("incomplete", <<>>, 0)
  ELSE LET pos == CHOOSE i \in Terminators(s) : \A j \in Terminators(s) : i <= j
           line == Stripped(SubSeq(s, 1, pos - 1))
       IN IF Len(line) > MaxContent THEN Found("too long", <<>>, pos)
          ELSE Found("extracted", line, pos)

\* Client::eraseReceivePrefix
EraseReceivePrefix(n) == buffer' = SubSeq(buffer, n + 1, Len(buffer))

\* An iteration that extracts a line and processes it; the loop ends when
\* the line has scheduled the client.
ExtractLine ==
  /\ running /\ FindLine(buffer).status = "extracted"
  /\ LET found == FindLine(buffer)
     IN /\ EraseReceivePrefix(found.consumed)
        /\ lines' = Append(lines, found.line)
        /\ IF found.line = <<Quit>>
           THEN scheduled' = "quit" /\ running' = FALSE
           ELSE UNCHANGED <<scheduled, running>>
  /\ UNCHANGED delivered

LineTooLong ==
  /\ running /\ FindLine(buffer).status = "too long"
  /\ EraseReceivePrefix(FindLine(buffer).consumed)
  /\ scheduled' = "too long"
  /\ running' = FALSE
  /\ UNCHANGED <<lines, delivered>>

WaitForMore ==
  /\ running /\ FindLine(buffer).status = "incomplete"
  /\ running' = FALSE
  /\ UNCHANGED <<buffer, lines, scheduled, delivered>>

\* The client is to be disconnected, or has said all it had to say.
Silent ==
  /\ ~running /\ (scheduled # "no" \/ Len(delivered) = MaxStream)
  /\ UNCHANGED vars

Next == Receive \/ ExtractLine \/ LineTooLong \/ WaitForMore \/ Silent

Spec == Init /\ [][Next]_vars

-----------------------------------------------------------------------------
(***************************************************************************)
(* Properties.                                                             *)
(***************************************************************************)

\* The reference: the line that ends at the LF at position e of the whole
\* stream, and the ones that end the connection.
LineAt(s, e) ==
  LET start == {i \in 0..(e - 1) : /\ i = 0 \/ s[i] = LF
                                   /\ \A j \in (i + 1)..(e - 1) : s[j] # LF}
  IN Stripped(SubSeq(s, 1 + CHOOSE i \in start : TRUE, e - 1))

Fatal(s, e) == Len(LineAt(s, e)) > MaxContent \/ LineAt(s, e) = <<Quit>>

Processed(s) ==
  {e \in Terminators(s) : /\ Len(LineAt(s, e)) <= MaxContent
                          /\ \A d \in Terminators(s) : d < e => ~Fatal(s, d)}

\* How many bytes of s follow its last LF.
Unfinished(s) ==
  Cardinality({i \in 1..Len(s) : \A j \in i..Len(s) : s[j] # LF})

\* What a client has said depends on its bytes alone, not on how recv() cut
\* them: once the loop is done, the processed lines are those of the whole
\* stream up to the first that ends the connection, and the connection ends
\* exactly when such a line, or an unfinished one of MaxLine bytes, is there.
SegmentationIndependent ==
  ~running =>
    /\ Len(lines) = Cardinality(Processed(delivered))
    /\ \A e \in Processed(delivered) :
         lines[Cardinality({d \in Terminators(delivered) : d <= e})]
           = LineAt(delivered, e)
    /\ scheduled # "no" <=>
         \/ \E e \in Terminators(delivered) : Fatal(delivered, e)
         \/ Unfinished(delivered) >= MaxLine

\* Between two recv() calls less than one maximal line is kept, so that the
\* limit MAX_RECEIVE_BUFFER is never reached: only one chunk can be added.
BufferIsShort ==
  /\ ~running /\ scheduled = "no" => Len(buffer) < MaxLine
  /\ MaxLine + ChunkSize <= MaxReceive => scheduled # "overflow"
=============================================================================
