\* A streaming request whose function cannot be forked.
CONSTANTS
  Configs <- AllConfigs
  BodyLen = 2
  OutLen = 2
  PipeCap = 1
SPECIFICATION Spec
INVARIANT ForkFailureReported
CHECK_DEADLOCK FALSE
