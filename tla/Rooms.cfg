SPECIFICATION RoomsSpec
CONSTANTS
  Fd = {4, 5, 6}
  NoFd = NoFd
  Chan = {"#a", "#b"}
  NoChan = NoChan
  Word = {"a", "b", "c"}
  NoWord = NoWord
  Nickname = {"a", "b", "c"}
  ChannelKey = {}
  Fold <- MCFold
  UserLimit <- MCUserLimit
  Password = "a"
  Slow = {5}
  NickInputs <- MCOwnNick
  JoinLists <- MCJoins
  TargetLists <- MCTargets
  Topics = {}
  ModeLines <- MCNone
INVARIANTS RelationsAgree InviteIsSpent MembersSeenTruly
PROPERTIES ImplementsDeferredClose

