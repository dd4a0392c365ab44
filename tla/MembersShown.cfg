SPECIFICATION PageSpec
CONSTANTS
  Nick = {me, other}
  NoNick = NoNick
  Channel = {ca, cb}
  Spelling = {"lower"}
  NoName = NoName
  Sockets = {1}
  MaxRequests = 2
  MaxEvents = 1
INVARIANT MembersAreShown
