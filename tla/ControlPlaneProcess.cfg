SPECIFICATION Spec
CONSTANTS
  MaxRequests = 1
  MaxStreams = 1
INVARIANT DrainsBeforeExit
CHECK_DEADLOCK FALSE
