SPECIFICATION Spec
CONSTANTS
  Repos = {"x"}
  Clients = {c1, c2}
  Serves <- MCAnyRepo
  Size <- MCSize
  Inodes = {i1, i2, i3, i4}
  NoFile = NoFile
  MaxSecond = 2
  MaxCrashes = 1
SYMMETRY MCSymmetry
INVARIANTS ObjectsWhole AckedKept
CHECK_DEADLOCK FALSE
