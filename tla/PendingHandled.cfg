SPECIFICATION Spec
CONSTANTS
  Fd = {4, 5}
  Listen = 3
  MaxInput = 1
  MaxOutput = 1
  MaxBacklog = 1
INVARIANT PendingIsNotHandled
