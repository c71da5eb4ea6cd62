\* Lines on both sides of every buffer size, through a pipe of three bytes.
CONSTANTS
  Outputs <- UpToThreeLines
  BufferSizes <- Sizes
  PipeCap = 3
SPECIFICATION Spec
INVARIANTS TypeOK LogIsFaithful StopsOnlyAtLongLine
PROPERTY FunctionNotBlocked
CHECK_DEADLOCK FALSE
