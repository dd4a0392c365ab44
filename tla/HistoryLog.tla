----------------------------- MODULE HistoryLog -----------------------------
(***************************************************************************)
(* ChannelHistory under any sequence of messages.  The messages of a       *)
(* channel are numbered; `said' and `forgotten' are history variables, the *)
(* reference against which the kept lists are checked.                     *)
(***************************************************************************)
EXTENDS ChannelHistory

CONSTANTS
  Chan,
  MaxSaid  \* bound on the messages of a channel

ASSUME MaxSaidIsNumber == MaxSaid \in Nat

VARIABLES
  history,
  said,      \* how many messages each channel has had
  forgotten  \* how many of them were there when the channel was last evicted

logVars == <<history, said, forgotten>>

LogInit ==
  /\ history = NoHistory
  /\ said = [c \in Chan |-> 0]
  /\ forgotten = [c \in Chan |-> 0]

Say(c) ==
  /\ said[c] < MaxSaid
  /\ said' = [said EXCEPT ![c] = @ + 1]
  /\ history' = Add(history, c, said[c] + 1)
  /\ forgotten' = [d \in Chan |->
                     IF d \in Remembered(history) \ Remembered(history')
                     THEN said[d] ELSE forgotten[d]]

\* Nobody says anything more.
Quiet == (\A c \in Chan : said[c] = MaxSaid) /\ UNCHANGED logVars

LogNext == Quiet \/ \E c \in Chan : Say(c)

LogSpec == LogInit /\ [][LogNext]_logVars

-----------------------------------------------------------------------------
\* The memory is bounded whatever names are made up (history.js, the comment
\* in add): so many channels, each once, with so many messages.
MemoryIsBounded ==
  /\ Len(history) <= ChannelLimit
  /\ \A i, j \in DOMAIN history : history[i].name = history[j].name => i = j
  /\ \A i \in DOMAIN history : Len(history[i].messages) \in 1..Limit

\* A replay is the latest ReplayLimit messages of the channel, in order and
\* without a gap, as far as they were said since it was last evicted.
ReplayIsLatest ==
  \A c \in Chan :
    LET kept == said[c] - forgotten[c]
        n == IF kept < ReplayLimit THEN kept ELSE ReplayLimit
    IN Recent(history, c) = [k \in 1..n |-> said[c] - n + k]
=============================================================================
