SPECIFICATION AutoFairSpec
CONSTANTS
  Jobs = {1, 2}
  Commits = {"a", "b"}
  Builds <- MCBuilds
  Breaks = {}
  NoJob = NoJob
  DBFaults = {2}
  RunFaults = {1}
  MaxCrashes = 1
  KindOf <- MCKind
  HasConfig = {"a", "b"}
  Hooks = {"all", "pushes"}
  InitHooks = {"all"}
  Subscribed <- MCSubscribed
  MaxRetries = 2
CHECK_DEADLOCK FALSE
INVARIANTS AllSubscribersTried DeliveryLogTellsOutcome Isolated NoStrayContainer
PROPERTIES NoPostAfterAck EventsFinish
