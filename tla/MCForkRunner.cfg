\* Both modes, with and without exec_timeout; two bytes each way through pipes
\* that hold one, so that either side can block.
CONSTANTS
  Configs <- AllConfigs
  BodyLen = 2
  OutLen = 2
  PipeCap = 1
SPECIFICATION Spec
INVARIANTS TypeOK OutputIsWhole UnreapedOnlyAfterPipeError
PROPERTIES StdoutDrained DeadlineEndsInvocation RefinesInvocation
CHECK_DEADLOCK FALSE
