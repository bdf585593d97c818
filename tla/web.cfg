SPECIFICATION Spec
CONSTANTS
  Keys = {"k1", "k2"}
  FirstKey = "k1"
  Files = {"k2"}
  OpenViews = {"home", "login", "code", "commits", "commit", "issues", "issue", "pulls", "pull"}
  MaxTokens = 2
  Slots = {n1, n2}
  MaxFaults = 1
SYMMETRY SameSlots
INVARIANTS SessionShown LoginsOnRecord GuardedShowsRoute ErrorIsOfThisSubject SettledIsCurrent
