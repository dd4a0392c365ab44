SPECIFICATION ModesSpec
CONSTANTS
  Fd = {4, 5}
  NoFd = NoFd
  Chan = {"#a"}
  NoChan = NoChan
  Word = {"a", "A", "b", "c", "1"}
  NoWord = NoWord
  Nickname = {"a", "A", "b"}
  ChannelKey = {"a", "A", "b", "1"}
  Fold <- MCFold
  UserLimit <- MCUserLimit
  Password = "a"
  Slow = {5}
  NickInputs <- MCAnyNick
  JoinLists <- MCKeyedJoins
  TargetLists <- MCParts
  Topics = {"a", NoWord}
  ModeLines <- MCModeLines
INVARIANTS TypeOK NickIndexExact NothingOutlivesDisconnect OperatorsSeenTruly
PROPERTIES NoInheritedDisconnect ImplementsChatRooms AdmissionControl NoOperatorFromNowhere
