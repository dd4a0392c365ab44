---------------------------- MODULE RequestLife ----------------------------
(***************************************************************************)
(* What the web server promises of a connection: it carries one request,   *)
(* which is read, given to a script or not, answered at most once, and     *)
(* then the connection is gone.  It never goes back, and the numbers of    *)
(* connections and of scripts are limited.                                 *)
(***************************************************************************)
EXTENDS Integers, FiniteSets

CONSTANTS
  Slot,            \* what a connection is known by
  MaxConnections,
  MaxCgiProcesses

VARIABLE conn      \* conn[s]: the state of the request of slot s

In(state) == {s \in Slot : conn[s] = state}
Open == Slot \ In("closed")

\* The requests of the slots in S move on to a state.
Move(S, state) == [s \in Slot |-> IF s \in S THEN state ELSE conn[s]]

Accept ==
  \E S \in SUBSET In("closed") :
    /\ Cardinality(Open \cup S) <= MaxConnections
    /\ conn' = Move(S, "reading")

\* A script is started for a request.
Start ==
  \E s \in In("reading") :
    /\ Cardinality(In("running")) < MaxCgiProcesses
    /\ conn' = Move({s}, "running")

\* Requests without an answer get theirs, other connections are closed.
Settle ==
  \E answered \in SUBSET (In("reading") \cup In("running")) :
    \E ended \in SUBSET (Open \ answered) :
      conn' = [s \in Slot |-> IF s \in ended THEN "closed"
                              ELSE IF s \in answered THEN "answering" ELSE conn[s]]

Init == conn = [s \in Slot |-> "closed"]
Next == Accept \/ Start \/ Settle
Spec == Init /\ [][Next]_conn

=============================================================================
