--------------------------- MODULE ChannelHistory ---------------------------
(***************************************************************************)
(* The gateway's memory of what was said (services/gateway/src/history.js):*)
(* a Map from channel names to lists of messages.  A Map iterates in the   *)
(* order its keys were inserted, so it is a sequence of entries here, the  *)
(* oldest first.                                                           *)
(***************************************************************************)
EXTENDS Naturals, Sequences

CONSTANTS
  Limit,        \* messages kept per channel
  ReplayLimit,  \* messages replayed on a join
  ChannelLimit  \* channels remembered

\* What the constructor makes of its options.
ASSUME LimitsAreEffective ==
  /\ Limit \in Nat \ {0} /\ ChannelLimit \in Nat \ {0}
  /\ ReplayLimit \in 1..Limit

NoHistory == <<>>

Remembered(history) == {history[i].name : i \in DOMAIN history}

\* slice(-n), and what splice(0, length - n) leaves.
Latest(list, n) ==
  IF Len(list) <= n THEN list ELSE SubSeq(list, Len(list) - n + 1, Len(list))

\* Mutant: the newest messages go instead of the oldest.
TrimmedAtEnd(messages) ==
  IF Len(messages) <= Limit THEN messages ELSE SubSeq(messages, 1, Limit)

Trimmed(messages) == Latest(messages, Limit)

\* Mutant: room is made one channel too late.
RoomForTooMany(history) ==
  IF Len(history) > ChannelLimit THEN Tail(history) ELSE history

\* Room for one more channel: the one created first is forgotten.
RoomFor(history) ==
  IF Len(history) >= ChannelLimit THEN Tail(history) ELSE history

Add(history, channel, message) ==
  IF channel \in Remembered(history)
  THEN [i \in DOMAIN history |->
          IF history[i].name = channel
          THEN [name |-> channel,
                messages |-> Trimmed(Append(history[i].messages, message))]
          ELSE history[i]]
  ELSE Append(RoomFor(history), [name |-> channel, messages |-> <<message>>])

Recent(history, channel) ==
  IF channel \in Remembered(history)
  THEN LET i == CHOOSE j \in DOMAIN history : history[j].name = channel
       IN Latest(history[i].messages, ReplayLimit)
  ELSE <<>>
=============================================================================
