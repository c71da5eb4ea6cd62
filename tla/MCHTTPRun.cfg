\* Every path, timeout and body, with up to two idle connections to retry on.
CONSTANTS
  Requests <- AllRequests
  MaxIdle = 2
  MaxElapsed = 3
SPECIFICATION Spec
INVARIANTS TypeOK TimesOutWhenAsked
PROPERTIES HandlerFreed RefinesInvocation
CHECK_DEADLOCK FALSE
