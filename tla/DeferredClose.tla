--------------------------- MODULE DeferredClose ---------------------------
(***************************************************************************)
(* What the IRC server promises about the life of a connection, without    *)
(* saying why connections end: nothing is closed while handlers run; they  *)
(* schedule connected clients, and at the end of a scan the scheduled ones *)
(* are closed in ascending order.  Closing one may schedule more of them,  *)
(* which wait for the next scan.  A scan accepts at most one client.       *)
(* IrcServer (the relations) and IrcEventLoop (the poll loop) both         *)
(* implement this specification.                                           *)
(***************************************************************************)
EXTENDS Naturals

CONSTANT Fd

VARIABLES
  live,     \* the connected clients
  fresh,    \* accepted in this scan
  pending,  \* scheduled
  closing   \* being closed

lifeVars == <<live, fresh, pending, closing>>

Init == live = {} /\ fresh = {} /\ pending = {} /\ closing = {}

Accept(f) ==
  /\ closing = {} /\ fresh = {}
  /\ f \notin live /\ \A g \in Fd \ live : f <= g
  /\ live' = live \cup {f}
  /\ fresh' = {f}
  /\ UNCHANGED <<pending, closing>>

Schedule ==
  /\ closing = {}
  /\ pending \subseteq pending' /\ pending' \subseteq pending \cup live
  /\ UNCHANGED <<live, fresh, closing>>

EndScan ==
  /\ closing = {}
  /\ closing' = pending
  /\ pending' = {}
  /\ fresh' = {}
  /\ UNCHANGED live

Close(f) ==
  /\ f \in closing /\ \A g \in closing : f <= g
  /\ closing' = closing \ {f}
  /\ live' = live \ {f}
  /\ pending \subseteq pending'
  /\ pending' \subseteq pending \cup (IF f \in live THEN live \ {f} ELSE {})
  /\ UNCHANGED fresh

Next == Schedule \/ EndScan \/ \E f \in Fd : Accept(f) \/ Close(f)

Spec == Init /\ [][Next]_lifeVars
=============================================================================
