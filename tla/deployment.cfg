SPECIFICATION DeployFairSpec
CONSTANTS
  Servers = {"old", "new", "keyless"}
  Last = 2
  Files <- MCRolling
  MaxFaults = 2
  Callers = {"c1", "c2"}
  KeyOf <- MCKeys
  NoKey = NoKey
  NoSecret = NoSecret
  Grace = 1
  MaxSignals = 2
INVARIANTS AppliedOnceInOrder MigratedBeforeServing GraceGiven SecretOpens
PROPERTIES AllServe
CHECK_DEADLOCK FALSE
