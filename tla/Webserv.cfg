SPECIFICATION Spec
CONSTANTS
  LastDescriptor = 6
  Pids = {1,2}
  MaxConnections = 2
  MaxCgiProcesses = 1
  MaxPending = 2
  RequestLimit = 1
  BodySizes = {0,2}
  OutputLimit = 1
  AnswerSize = 1
INVARIANTS TypeOK DescriptorsExact PollTableExact ChildrenExact
INVARIANTS RequestsAreDecidedOnce TargetsAreResolved
PROPERTIES OutputIsPassedOnWhole ImplementsRequestLife EveryConnectionEnds
