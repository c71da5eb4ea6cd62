SPECIFICATION Spec
CONSTANTS
  Envs <- MCEnvs
  Modulus = 64
  Second = 4
  DefaultTimeout = 20
  DefaultPort = 30
  MaxTokenSize = 16
CHECK_DEADLOCK FALSE
INVARIANTS TypeOK NoLimitOnlyIfAsked ServesOnlyWhatItCan
