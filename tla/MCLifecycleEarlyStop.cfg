\* SIGTERM arrives while main is still writing the lock file.
CONSTANTS
  c1 = c1
  Clients = {c1}
  Configs <- DefaultOnly
  InitialLock = {FALSE}
SPECIFICATION Spec
INVARIANT StoppingIsUnhealthy
