\* Two clients, every configuration, with and without a stale lock file.
CONSTANTS
  c1 = c1
  c2 = c2
  Clients = {c1, c2}
  Configs <- AllConfigs
  InitialLock = {TRUE, FALSE}
SPECIFICATION Spec
INVARIANTS TypeOK DrainedBeforeReturn UnhealthyWhileDraining DoubleCloseNeedsFailedListener EndsOnlyForCause
PROPERTIES LockedServiceIsHealthy StopEndsProcess RefinesGracefulServer
