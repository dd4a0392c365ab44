----------------------------- MODULE ChatRooms -----------------------------
(***************************************************************************)
(* What the IRC server promises its users, in their own terms: people are  *)
(* their nicknames, and a room is a list of them.  There are no            *)
(* descriptors, no index and no two-sided relations here; a rename or a    *)
(* departure is one step in all the rooms at once.  IrcServer implements   *)
(* this specification.                                                     *)
(***************************************************************************)
CONSTANTS
  Room,
  Name,
  Same      \* Same[n] = Same[m]: the two spellings are one nickname

VARIABLES
  names,    \* the nicknames in use
  roster,   \* who is in each room
  chairs,   \* the operators of each room
  guests,   \* who is invited to each room
  closed    \* the rooms that need an invitation

roomVars == <<names, roster, chairs, guests, closed>>

Init ==
  /\ names = {}
  /\ roster = [r \in Room |-> {}]
  /\ chairs = [r \in Room |-> {}]
  /\ guests = [r \in Room |-> {}]
  /\ closed = {}

\* n is a nickname nobody but those of `except' uses in any spelling.
Free(n, except) == \A m \in names \ except : Same[m] # Same[n]

Take(n) ==
  /\ Free(n, {})
  /\ names' = names \cup {n}
  /\ UNCHANGED <<roster, chairs, guests, closed>>

Swap(S, old, new) == IF old \in S THEN (S \ {old}) \cup {new} ELSE S

Rename(old, new) ==
  /\ old \in names
  /\ Free(new, {old})
  /\ names' = Swap(names, old, new)
  /\ roster' = [r \in Room |-> Swap(roster[r], old, new)]
  /\ chairs' = [r \in Room |-> Swap(chairs[r], old, new)]
  /\ guests' = [r \in Room |-> Swap(guests[r], old, new)]
  /\ UNCHANGED closed

\* The first to enter presides; a closed room admits guests only, once.
Enter(n, r) ==
  /\ n \in names \ roster[r]
  /\ r \in closed => n \in guests[r]
  /\ roster' = [roster EXCEPT ![r] = @ \cup {n}]
  /\ chairs' = IF roster[r] = {} THEN [chairs EXCEPT ![r] = {n}] ELSE chairs
  /\ guests' = [guests EXCEPT ![r] = @ \ {n}]
  /\ UNCHANGED <<names, closed>>

\* n leaves the rooms of `from'; a room left empty forgets everything.
Out(n, from, uninvite) ==
  LET emptied == {r \in from : roster[r] \subseteq {n}}
  IN /\ roster' = [r \in Room |->
                     IF r \in from THEN roster[r] \ {n} ELSE roster[r]]
     /\ chairs' = [r \in Room |->
                     IF r \in from THEN chairs[r] \ {n} ELSE chairs[r]]
     /\ guests' = [r \in Room |-> IF r \in emptied THEN {}
                                  ELSE IF r \in uninvite THEN guests[r] \ {n}
                                  ELSE guests[r]]
     /\ closed' = closed \ emptied

Leave(n, r) ==
  /\ n \in roster[r]
  /\ Out(n, {r}, {r})
  /\ UNCHANGED names

Depart(n) ==
  /\ n \in names
  /\ Out(n, {r \in Room : n \in roster[r]}, Room)
  /\ names' = names \ {n}

Preside(n, r, on) ==
  /\ n \in roster[r]
  /\ chairs' = [chairs EXCEPT ![r] = IF on THEN @ \cup {n} ELSE @ \ {n}]
  /\ UNCHANGED <<names, roster, guests, closed>>

Invite(n, r) ==
  /\ n \in names \ roster[r]
  /\ chairs[r] # {}
  /\ guests' = [guests EXCEPT ![r] = @ \cup {n}]
  /\ UNCHANGED <<names, roster, chairs, closed>>

Close(r, on) ==
  /\ roster[r] # {}
  /\ closed' = IF on THEN closed \cup {r} ELSE closed \ {r}
  /\ UNCHANGED <<names, roster, chairs, guests>>

Next ==
  \/ \E n \in Name : Take(n) \/ Depart(n)
  \/ \E old, new \in Name : Rename(old, new)
  \/ \E r \in Room : \E n \in Name : Enter(n, r) \/ Leave(n, r) \/ Invite(n, r)
  \/ \E r \in Room : \E on \in BOOLEAN :
       Close(r, on) \/ \E n \in Name : Preside(n, r, on)

Spec == Init /\ [][Next]_roomVars
=============================================================================
