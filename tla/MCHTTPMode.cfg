\* One client, the default configuration and one with a failing listener.
CONSTANTS
  c1 = c1
  Clients = {c1}
  Configs <- DefaultAndFault
  InitialLock = {FALSE}
SPECIFICATION HTTPSpec
INVARIANTS HTTPTypeOK
PROPERTIES FunctionToldToStop FailedFunctionEndsProcess RefinesGracefulServer
