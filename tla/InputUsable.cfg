SPECIFICATION PageSpec
CONSTANTS
  Nick = {me, other}
  NoNick = NoNick
  Channel = {ca}
  Spelling = {"lower"}
  NoName = NoName
  Sockets = {1, 2}
  MaxRequests = 2
  MaxEvents = 1
INVARIANT InputIsUsable
