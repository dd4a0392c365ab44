------------------------------- MODULE MCText -------------------------------
(***************************************************************************)
(* What users see of one another, on small instances for TLC: the IRC      *)
(* server's line buffer and the gateway's channel history, the functions   *)
(* that write and read lines, the rate limit, and the page with its list   *)
(* of members.  The three machines have nothing in common: a behaviour is  *)
(* one of them running alone.                                              *)
(***************************************************************************)
EXTENDS LineBuffer, HistoryLog, IrcText, RateLimit, ChatPage, SequencesExt

MCInit == Init /\ LogInit /\ PageInit
MCNext ==
  \/ LogInit /\ PageInit /\ Next /\ UNCHANGED <<logVars, pageWorld>>
  \/ Init /\ PageInit /\ LogNext /\ UNCHANGED <<vars, pageWorld>>
  \/ Init /\ LogInit /\ PageNext /\ UNCHANGED <<vars, logVars>>
MCSpec == MCInit /\ [][MCNext]_<<vars, logVars, pageWorld>>

\* A channel, in two spellings.
MCChannels == [target \in {<<"#c">>, <<"#C">>} |-> <<"#c">>]
MCMaxParams == 3

(***************************************************************************)
(* What holds of every short text.  TLC evaluates the definitions without  *)
(* a parameter once; the invariants call for them where the text is used.  *)
(***************************************************************************)

EveryWord ==
  /\ FoldIsStable
  /\ \A maximum \in 95..130 : \A text \in BoundedSeq({0, 1, 2, 9, 10}, 4) :
       SizeIsExact(text, maximum)
EveryRelay ==
  \A rest \in BoundedSeq({" ", ":", ",", "CR", "#c", "x"}, 6) :
    RelayIsFaithful(<<"PRIVMSG", " ", "#C">> \o rest, MCChannels, MCMaxParams)
EveryKey ==
  \A key \in BoundedSeq({" ", ":", ",", "x", "TAB"}, 4) : KeyIsUsable(key, MCMaxParams)
EveryText ==
  \A text \in BoundedSeq({" ", ":", "CR", "LF", "NUL", "x"}, 5) :
    TextArrives(<<"#C">>, text, MCChannels, MCMaxParams)
MCTimes == UNION {[1..n -> 0..5] : n \in 0..5}
EveryRate ==
  \A times \in MCTimes, burst \in 1..2 :
    RateIsExact(times, burst, 2) /\ NobodyIsShutOut(times, burst, 2)

\* What the IRC server takes a word of a line for: ircCaseFold() makes names
\* equal once and for all, parsePositiveSize() reads the number that was
\* written or none, and of the keys that MODE +k accepts JOIN can present all
\* but those with a comma, and all but those with a colon in front are
\* announced as they are.  See FoldIsStable, SizeIsExact and KeyIsUsable.
WordsAreExact == lines # <<>> => EveryWord /\ EveryKey

\* Whatever line a client sends, handlePrivmsg() passes on one line that says
\* the same: see RelayIsFaithful.
RelaysAreFaithful == lines # <<>> => EveryRelay

\* A text typed in one browser is read in another, through both gateways and
\* the IRC server: see TextArrives.
TextsArrive == lines # <<>> => EveryText

\* The gateway's rate limit takes and refuses what it should, before anything
\* enters the history, and outlives a clock that is set back: see RateIsExact
\* and NobodyIsShutOut.
RatesAreExact == history # NoHistory => EveryRate

=============================================================================
