SPECIFICATION NumberSpec
CONSTANTS
  Repos = {"x", "y"}
  Authors = {a1, a2}
  MaxNumber = 2
  MaxComments = 1
SYMMETRY AuthorSymmetry
INVARIANTS Dense
PROPERTIES NumbersAreKept
