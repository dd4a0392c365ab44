SPECIFICATION MCSpec
CONSTANTS
  CR = "r"
  LF = "n"
  Content = {"x", "q"}
  Quit = "q"
  MaxLine = 4
  ChunkSize = 5
  MaxReceive = 9
  MaxStream = 8
  Limit = 3
  ReplayLimit = 2
  ChannelLimit = 2
  Chan = {ca, cb, cc}
  MaxSaid = 5
  Nick = {me, other, third}
  NoNick = NoNick
  Channel = {ca, cb}
  Spelling = {"lower"}
  NoName = NoName
  Sockets = {1}
  MaxRequests = 2
  MaxEvents = 1
INVARIANTS SegmentationIndependent BufferIsShort MemoryIsBounded ReplayIsLatest
INVARIANTS WordsAreExact RelaysAreFaithful TextsArrive RatesAreExact
INVARIANT NobodyIsMissed
