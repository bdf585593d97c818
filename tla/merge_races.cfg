SPECIFICATION Spec
CONSTANTS
  Repos = {"x"}
  Numbers = {1, 2}
  Branches = {"main", "f1", "f2"}
  Reviewers = {}
  Source <- MCSource
  Target <- MCTarget
  InitRules <- MCNoRules
  MaxApprovals = 0
  InitHistory <- MCHistory1
  InitCommits = 3
  MaxCommits = 5
  NoDir = NoDir
  Handlers = {h1, h2}
  Serves <- MCAny
  RuleChoices = {}
  RuleBranches = {}
  PushKinds = {"commit"}
  PushBranches = {"main", "f1"}
  DBFaults = TRUE
  MaxMishaps = 1
SYMMETRY HandlerSymmetry
INVARIANTS MergedIsLanded NoStrayDirs
PROPERTIES MergesWhatWasAsked NoLostCommits KeepsLifecycle
