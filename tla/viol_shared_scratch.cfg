SPECIFICATION Spec
CONSTANTS
  Repos = {"x", "y"}
  Numbers = {1}
  Branches = {"main", "f1"}
  Reviewers = {}
  Source <- MCSource
  Target <- MCTarget
  InitRules <- MCNoRules
  MaxApprovals = 2
  InitHistory <- MCHistory2
  InitCommits = 4
  MaxCommits = 6
  NoDir = NoDir
  Handlers = {"x", "y"}
  Serves <- MCOwnRepo
  RuleChoices = {}
  RuleBranches = {}
  PushKinds = {}
  PushBranches = {}
  DBFaults = FALSE
  MaxMishaps = 0
INVARIANTS AlwaysLanded
