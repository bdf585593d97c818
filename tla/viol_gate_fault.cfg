SPECIFICATION Spec
CONSTANTS
  Repos = {"x"}
  Numbers = {1}
  Branches = {"main", "f1"}
  Reviewers = {u1}
  Source <- MCSource
  Target <- MCTarget
  InitRules <- MCOneApproval
  MaxApprovals = 2
  InitHistory <- MCHistory1
  InitCommits = 3
  MaxCommits = 4
  NoDir = NoDir
  Handlers = {h1}
  Serves <- MCAny
  RuleChoices = {}
  RuleBranches = {}
  PushKinds = {}
  PushBranches = {}
  DBFaults = TRUE
  MaxMishaps = 0
INVARIANTS GateHeld
