SPECIFICATION Spec
CONSTANTS
  Limit = 1
  ReplayLimit = 1
  ChannelLimit = 1
  Ws = {s1}
  Talkers = {s1}
  Address = {a1}
  Chan = {ca, cb}
  NoChan = NoChan
  Nick = {na, nb}
  NoNick = NoNick
  MaxConnections = 2
  MaxPerIp = 1
  MaxActions = 3
INVARIANT OnlyJoinedIsRecorded
