SPECIFICATION Spec
CONSTANTS
  LastDescriptor = 5
  Pids = {1}
  MaxConnections = 1
  MaxCgiProcesses = 1
  MaxPending = 1
  RequestLimit = 1
  BodySizes = {0}
  OutputLimit = 1
  AnswerSize = 1
PROPERTY OversizeIsRefused
