SPECIFICATION FairSpec
CONSTANTS
  Repos = {"x"}
  Numbers = {1}
  Branches = {"main", "f1"}
  Reviewers = {u1}
  Source <- MCSource
  Target <- MCTarget
  InitRules <- MCOneApproval
  MaxApprovals = 1
  InitHistory <- MCHistory1
  InitCommits = 3
  MaxCommits = 4
  NoDir = NoDir
  Handlers = {h1, h2}
  Serves <- MCAny
  RuleChoices = {1}
  RuleBranches = {"main"}
  PushKinds = {"force", "delete"}
  PushBranches = {"main"}
  DBFaults = FALSE
  MaxMishaps = 0
INVARIANTS GateHeld
PROPERTIES Answered MergeAnnounced
