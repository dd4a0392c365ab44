------------------------------ MODULE IrcText ------------------------------
(***************************************************************************)
(* The text of an IRC line on its way from one user to another: the        *)
(* gateway writes it (services/gateway/src/irc.js), the IRC server parses  *)
(* it (util/Parser.cpp), splits and checks its words (util/IrcUtil.cpp),   *)
(* writes the line for the others (util/Reply.cpp) and their gateway       *)
(* parses that one.  Each function is small; what matters is that one      *)
(* undoes the other.                                                       *)
(*                                                                         *)
(* Text is a sequence of symbols: " ", ":", ",", "CR", "LF", "NUL" and     *)
(* symbols for the rest, where a command or a name is one symbol.          *)
(***************************************************************************)
EXTENDS Integers, Sequences, FiniteSetsExt

Has(text, symbol) == \E j \in DOMAIN text : text[j] = symbol

\* The first place from one on with a symbol, or the place behind the end:
\* find(), takeToken(); and the first with another symbol: skipSpaces().
NextOf(text, from, symbol) ==
  CHOOSE j \in from..Len(text) + 1 :
    /\ j = Len(text) + 1 \/ text[j] = symbol
    /\ \A earlier \in from..j - 1 : text[earlier] # symbol
NextSpace(text, from) == NextOf(text, from, " ")
NextWord(text, from) ==
  CHOOSE j \in from..Len(text) + 1 :
    /\ j = Len(text) + 1 \/ text[j] # " "
    /\ \A earlier \in from..j - 1 : text[earlier] = " "

From(text, place) == SubSeq(text, place, Len(text))

(***************************************************************************)
(* IrcUtil.cpp                                                             *)
(***************************************************************************)

\* splitCommaList(): an empty list has no members, the others at least one.
SplitCommaList(text) ==
  LET pieces[start \in 1..Len(text) + 1] ==
        LET pos == NextOf(text, start, ",")
        IN <<SubSeq(text, start, pos - 1)>> \o
             IF pos > Len(text) THEN <<>> ELSE pieces[pos + 1]
  IN IF text = <<>> THEN <<>> ELSE pieces[1]

\* sanitizeMessageText(): one character after the other.
\* Mutant: a CR is thought to be harmless alone.
Without(text, symbols) ==
  LET result[j \in 0..Len(text)] ==
        IF j = 0 THEN <<>>
        ELSE IF text[j] \in symbols THEN result[j - 1] ELSE Append(result[j - 1], text[j])
  IN result[Len(text)]
SanitizeKeepsCR(text) == Without(text, {"LF", "NUL"})
SanitizeMessageText(text) == Without(text, {"CR", "LF", "NUL"})

\* isSafeToken()
IsSafeToken(text) ==
  /\ text # <<>> /\ text[1] # ":"
  /\ \A c \in {" ", "CR", "LF", "NUL"} : ~Has(text, c)

\* ircCaseFold() on the code of a character: letters and [ \ ] ^ go to where
\* their counterparts and { | } ~ are.
\* Mutant: the last of them is swapped with its counterpart.
FoldBothWays(c) ==
  CASE c \in 65..93 -> c + 32
    [] c = 94 -> 126
    [] c = 126 -> 94
    [] OTHER -> c
Fold(c) ==
  CASE c \in 65..93 -> c + 32
    [] c = 94 -> 126
    [] OTHER -> c

\* isValidChannelName(), for a character behind the "#": no space, comma,
\* colon, BEL, CR, LF or NUL.
InChannelName(c) == c \notin {32, 44, 58, 7, 13, 10, 0}

\* isNicknameSpecial() and isValidNickname(): letters, digits, specials, "-".
NicknameSpecial == {91, 93, 92, 96, 95, 94, 123, 124, 125}
InNickname(c) == c \in (65..90) \cup (97..122) \cup (48..57) \cup NicknameSpecial \cup {45}

\* Names that are equal for the server (findChannel, findClientByNickname)
\* stay so when a stored key is folded again, as leaveChannel() does; a key is
\* still a name, and a letter of RFC 2812 has exactly one counterpart.
FoldIsStable ==
  \A c, d \in 0..127 :
    /\ Fold(Fold(c)) = Fold(c)
    /\ InChannelName(c) <=> InChannelName(Fold(c))
    /\ (InNickname(c) /\ InNickname(d) /\ c < d /\ Fold(c) = Fold(d)) =>
         d = c + 32 /\ c \in 65..93

\* parsePositiveSize(), for numbers written with the digits given and a
\* size_t whose greatest value is "maximum".  Mutant: the digit to come is
\* left out of the test for overflow.
TooLargeRoughly(parsed, digit, maximum) == parsed > maximum \div 10
TooLarge(parsed, digit, maximum) == parsed > (maximum - digit) \div 10

Digits == 0..9
ParsePositiveSize(text, maximum) ==
  LET rest[j \in 0..Len(text)] ==
        IF j = 0 THEN {0}
        ELSE {(10 * parsed + text[j]) % (maximum + 1) :
                parsed \in {p \in rest[j - 1] : /\ text[j] \in Digits
                                                /\ ~TooLarge(p, text[j], maximum)}}
  IN IF text = <<>> THEN {} ELSE rest[Len(text)] \ {0}

\* The number is the one that was written, or there is none: for every size
\* of size_t, the boundary of the overflow test included.
SizeIsExact(text, maximum) ==
  LET written[j \in 0..Len(text)] ==
        IF j = 0 THEN 0 ELSE 10 * written[j - 1] + text[j]
      value == written[Len(text)]
  IN ParsePositiveSize(text, maximum)
       = IF (\A j \in DOMAIN text : text[j] \in Digits) /\ value \in 1..maximum
         THEN {value} ELSE {}

(***************************************************************************)
(* Parser.cpp                                                              *)
(***************************************************************************)

\* The parameters from a place on: words, and the rest of the line behind ":".
Params(line, from) ==
  LET params[place \in 1..Len(line) + 1] ==
        LET start == NextWord(line, place)
            end == NextSpace(line, start)
        IN IF start > Len(line) THEN <<>>
           ELSE IF line[start] = ":" THEN <<From(line, start + 1)>>
           ELSE <<SubSeq(line, start, end - 1)>> \o params[end]
  IN params[from]

\* Parser::parse(): none or one message.
Parse(line, maxParams) ==
  LET first == NextWord(line, 1)
      prefixed == first <= Len(line) /\ line[first] = ":"
      prefixEnd == IF prefixed THEN NextSpace(line, first) ELSE first
      start == NextWord(line, prefixEnd)
      end == NextSpace(line, start)
      params == Params(line, end)
  IN IF \/ Has(line, "NUL")
        \/ prefixed /\ prefixEnd = first + 1
        \/ start > Len(line)
        \/ Len(params) > maxParams
     THEN {}
     ELSE {[prefix |-> IF prefixed THEN SubSeq(line, first + 1, prefixEnd - 1) ELSE <<>>,
            command |-> SubSeq(line, start, end - 1),
            params |-> params]}

(***************************************************************************)
(* Reply.cpp and the handlers that use it                                  *)
(***************************************************************************)

\* Reply::command(); an empty line is no line.
Command(prefix, command, parameters) ==
  LET safe == SanitizeMessageText(parameters)
  IN IF ~IsSafeToken(command) \/ ~IsSafeToken(prefix) THEN <<>>
     ELSE <<":">> \o prefix \o <<" ">> \o command
          \o (IF safe = <<>> THEN <<>> ELSE <<" ">> \o safe)

\* handlePrivmsg(): for one target after the other the line for its readers,
\* or none.  known[target] is the spelling of the channel or client that
\* findChannel() or findClientByNickname() finds by target.
Privmsg(message, known, from) ==
  IF Len(message.params) < 2 \/ message.params[2] = <<>> THEN <<>>
  ELSE LET targets == SplitCommaList(message.params[1])
       IN [j \in DOMAIN targets |->
             IF targets[j] \in DOMAIN known
             THEN Command(from, <<"PRIVMSG">>,
                          known[targets[j]] \o <<" ", ":">> \o message.params[2])
             ELSE <<>>]

\* A sender, whose address has colons in it.
Sender == <<"alice", ":", ":", "1">>

\* Whatever a client sends, a line of it that is passed on is one line, and
\* says the same to a reader with the server's own parser: one message to the
\* target, as the server spells it, with the text less CR, whether it came as
\* a word or behind ":".
RelayIsFaithful(line, known, maxParams) ==
  \A message \in Parse(line, maxParams) :
    message.command = <<"PRIVMSG">> =>
      LET relays == Privmsg(message, known, Sender)
          targets == SplitCommaList(message.params[1])
      IN \A j \in DOMAIN relays : targets[j] \in DOMAIN known =>
           /\ ~Has(relays[j], "CR") /\ ~Has(relays[j], "LF")
           /\ Parse(relays[j], maxParams) =
                {[prefix |-> Sender, command |-> <<"PRIVMSG">>,
                  params |-> <<known[targets[j]],
                               SanitizeMessageText(message.params[2])>>]}

\* ServerMode.cpp: isValidChannelKey().  Its length is left to the bounds.
\* Mutant: blanks are let through.
IsValidChannelKeyBlank(key) == key # <<>>
IsValidChannelKey(key) ==
  key # <<>> /\ \A c \in {" ", "NUL", "CR", "LF", "TAB"} : ~Has(key, c)

\* A key that MODE accepts can be presented by JOIN unless it has a comma, and
\* is announced as it is unless it begins with a colon: the key list and the
\* reply know nothing of what isValidChannelKey() lets through.
KeyIsUsable(key, maxParams) ==
  IsValidChannelKey(key) =>
    /\ \A message \in Parse(<<"JOIN", " ", "#c", " ", ":">> \o key, maxParams) :
         SplitCommaList(message.params[2])[1] = key <=> ~Has(key, ",")
    /\ \A message \in Parse(Command(Sender, <<"MODE">>, <<"#c", " ", "+k", " ">> \o key),
                            maxParams) :
         (Len(message.params) = 3 /\ message.params[3] = key) <=> key[1] # ":"

(***************************************************************************)
(* irc.js                                                                  *)
(***************************************************************************)

\* String.trim()
Trim(text) ==
  LET kept == {j \in DOMAIN text : text[j] \notin {" ", "CR", "LF"}}
  IN IF kept = {} THEN <<>> ELSE SubSeq(text, Min(kept), Max(kept))

Cleaned(text) == [j \in DOMAIN text |-> IF text[j] \in {"CR", "LF"} THEN " " ELSE text[j]]

\* privmsg() and send(): no text, no line.  Mutant: line ends are sent as they
\* are.
GatewayPrivmsgRaw(target, text) ==
  IF Trim(text) = <<>> THEN {}
  ELSE {<<"PRIVMSG", " ">> \o target \o <<" ", ":">> \o Trim(text)}
GatewayPrivmsg(target, text) ==
  IF Trim(text) = <<>> THEN {}
  ELSE {<<"PRIVMSG", " ">> \o target \o <<" ", ":">> \o Cleaned(Trim(text))}

\* The words of a text, between spaces.
Words(text) ==
  LET words[place \in 1..Len(text) + 1] ==
        LET start == NextWord(text, place)
            end == NextSpace(text, start)
        IN IF start > Len(text) THEN <<>>
           ELSE <<SubSeq(text, start, end - 1)>> \o words[end]
  IN words[1]

\* parseIrcLine(): the first blank with a colon behind it, or the place behind
\* the end; what is read behind the prefix; and the line.
IsMark(text, j) == j < Len(text) /\ text[j] = " " /\ text[j + 1] = ":"
TextMark(text) ==
  CHOOSE j \in 1..Len(text) + 1 :
    /\ j = Len(text) + 1 \/ IsMark(text, j)
    /\ \A earlier \in 1..j - 1 : ~IsMark(text, earlier)
ReadBehind(prefix, rest) ==
  LET mark == TextMark(rest)
      parts == Words(SubSeq(rest, 1, mark - 1))
  IN IF parts = <<>> THEN {}
     ELSE {[prefix |-> prefix, command |-> parts[1], params |-> Tail(parts),
            trailing |-> From(rest, mark + 2)]}
ParseIrcLine(line) ==
  LET end == NextSpace(line, 1)
  IN IF line = <<>> \/ line[1] # ":" THEN ReadBehind(<<>>, line)
     ELSE IF end > Len(line) THEN {}
     ELSE ReadBehind(SubSeq(line, 2, end - 1), From(line, end + 1))

\* What one user of the chat page types arrives at another: once, whole, with
\* a space for every line end, in the channel it was typed in, whose name is
\* spelt as its founder did.  A text with a NUL in it is the exception, the
\* server's parser drops its line.
TextArrives(target, text, known, maxParams) ==
  \A line \in GatewayPrivmsg(target, text) :
    /\ ~Has(line, "CR") /\ ~Has(line, "LF")
    /\ LET relays == {Privmsg(message, known, Sender) : message \in Parse(line, maxParams)}
           heard == [prefix |-> Sender, command |-> <<"PRIVMSG">>,
                     params |-> <<known[target]>>, trailing |-> Cleaned(Trim(text))]
       IN IF Has(text, "NUL") THEN relays = {}
          ELSE \E relayed \in UNION {Range(sent) : sent \in relays} :
                 relays = {<<relayed>>} /\ ParseIrcLine(relayed) = {heard}

=============================================================================
