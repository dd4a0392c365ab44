------------------------ MODULE IrcServerRefinement ------------------------
(***************************************************************************)
(* IrcServer implements ChatRooms, where descriptors become the nicknames  *)
(* of the clients behind them, and DeferredClose.                          *)
(***************************************************************************)
EXTENDS IrcServer

Named == {f \in live : nick[f] # NoWord}

NamesInUse == Nicks(Named)
Roster == [c \in Chan |-> Nicks(members[c])]
Chairs == [c \in Chan |-> Nicks(operators[c])]
Guests == [c \in Chan |-> Nicks(invited[c])]

Rooms == INSTANCE ChatRooms WITH
  Room <- Chan, Name <- Word, Same <- Fold,
  names <- NamesInUse, roster <- Roster, chairs <- Chairs, guests <- Guests,
  closed <- inviteOnly

\* Whatever the handlers do to descriptors, index, relations and pending
\* disconnections, its users see rooms of people: names are unique in every
\* spelling, a rename or a quit takes effect in all rooms in one step, who
\* founds a room presides, an emptied room forgets its invitations and +i.
ImplementsChatRooms == Rooms!Spec

Lifecycle == INSTANCE DeferredClose

\* Handlers only schedule connected clients; scheduled ones are closed after
\* the scan, in ascending order, and a scan accepts at most once.
ImplementsDeferredClose == Lifecycle!Spec
=============================================================================
