SPECIFICATION FairSpec
CONSTANTS
  Conns = {"c"}
  Inputs <- MCInputs
  BodyLen = 2
  OutLen = 5
  HeaderLen = 2
  InCap = 1
  OutCap = 2
  Faults = TRUE
  Branches = {"main", "topic"}
  Commits = {"small", "big"}
  Head = "main"
  Size <- MCSize
  MaxSize = 2
  None = None
  InitBranch <- MCInitBranch
  Readers = {"r"}
  ReadFaults = TRUE
INVARIANTS NothingLeftBehind AnswerIsGits PagesAreTrue
PROPERTIES HandlerReturns
CHECK_DEADLOCK FALSE
