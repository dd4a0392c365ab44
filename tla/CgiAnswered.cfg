SPECIFICATION Spec
CONSTANTS
  LastDescriptor = 6
  Pids = {1}
  MaxConnections = 1
  MaxCgiProcesses = 1
  MaxPending = 2
  RequestLimit = 1
  BodySizes = {2}
  OutputLimit = 1
  AnswerSize = 1
PROPERTY AbnormalEndIsAnswered
