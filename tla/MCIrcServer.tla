---------------------------- MODULE MCIrcServer ----------------------------
(***************************************************************************)
(* Small instances of IrcServer for TLC.                                   *)
(***************************************************************************)
EXTENDS IrcServerRefinement, TLC

MCFold == [w \in Word |-> IF w = "A" THEN "a" ELSE w]
MCUserLimit == [w \in Word |-> IF w = "1" THEN 1 ELSE 0]
\* Every client may ask for every word, or each has a nickname of its own.
MCAnyNick == [f \in Fd |-> Word]
MCOwnNick == [f \in Fd |-> IF f = 4 THEN {"a"} ELSE IF f = 5 THEN {"b"} ELSE {"c"}]
MCNone == {}

\* JOIN lists: one channel without or with a key; two names, the second of
\* which may be no channel name; as targets, the first one may come again.
MCKeyedJoins == {<<<<c, k>>>> : c \in Chan, k \in {NoWord, "1"}}
MCJoins ==
  {<<<<c, NoWord>>>> : c \in Chan} \cup
  {<<<<"#a", NoWord>>, <<"#b", NoWord>>>>, <<<<"#b", NoWord>>, <<"b", NoWord>>>>}
MCParts == {<<c>> : c \in Chan}
MCTargets == MCParts \cup {<<"#a", "#b">>, <<"#b", "#b">>}

\* Mode strings: rights taken and given in one line, an unsigned and an
\* unknown mode, parameters that are missing, refused or ignored.
MCModeLines ==
  {<<<<"-", "o", "+", "o">>, <<"a", "b">>>>,
   <<<<"+", "o">>, <<"b">>>>, <<<<"+", "o", "-", "o">>, <<"b", "A">>>>,
   <<<<"+", "t", "?", "k", "o">>, <<>>>>,
   <<<<"+", "i", "k", "l">>, <<"1", "1">>>>,
   <<<<"-", "i", "k", "l">>, <<>>>>,
   <<<<"+", "k", "l", "-", "t">>, <<"c", "b">>>>,
   <<<<"i", "+", "o">>, <<"1">>>>}

-----------------------------------------------------------------------------
(***************************************************************************)
(* A run examines two instances, which bound the same constants in two     *)
(* ways: the initial state decides which one a behaviour belongs to, and   *)
(* its steps keep within that one's bound.                                 *)
(***************************************************************************)
VARIABLE instance

Steps(name, bound) ==
  /\ instance = name
  /\ Next
  /\ bound
  /\ UNCHANGED instance

\* The usual order of a registration: the password, the nickname, the rest.
InOrder ==
  \A f \in live' : /\ f \in userGiven' => nick'[f] # NoWord
                   /\ nick'[f] # NoWord => f \in passed'

\* One QUIT in a scan; other clients may be lost in it.
OneQuits == Cardinality(reasons') <= 1

\* Either the clients fight for every nickname and leave modes and topics
\* alone, or each has nicknames of its own, they register in that order and
\* one quits in a scan.
WithoutModes == task'.cmd # "MODE" /\ topic' = topic
OwnNames ==
  /\ InOrder /\ OneQuits
  /\ \A f \in live' : nick'[f] \in MCOwnNick[f] \cup {NoWord}

ModesInit == Init /\ instance \in {"names", "modes"}
ModesNext == Steps("names", WithoutModes) \/ Steps("modes", OwnNames)
ModesSpec == ModesInit /\ [][ModesNext]_<<vars, instance>>

\* Either three clients use one channel, of which two leave in a scan, or
\* two use two channels, both in a command, and invite nobody; they register
\* in that order and one quits in a scan.
InACommand(n) ==
  Idle /\ task'.cmd \in {"JOIN", "PART", "PRIVMSG"} => Len(task'.todo) = n
OneChannel ==
  /\ Cardinality(pending') <= 2
  /\ InACommand(1)
  /\ \A i \in DOMAIN task'.todo : task'.todo[i][1] = "#a"
TwoClients ==
  InACommand(2) /\ 6 \notin live' /\ \A c \in Chan : invited'[c] = {}

RoomsInit == Init /\ instance \in {"rooms", "lists"}
RoomsNext ==
  \/ Steps("rooms", InOrder /\ OneQuits /\ OneChannel)
  \/ Steps("lists", InOrder /\ OneQuits /\ TwoClients)
RoomsSpec == RoomsInit /\ [][RoomsNext]_<<vars, instance>>
=============================================================================
