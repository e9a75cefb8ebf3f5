\* Statements built from one or two pieces, with sessions that may throw.
SPECIFICATION Spec
CONSTANTS
  Objects = {o1, o2}
  NULL = NULL
  k = k
  x = x
  v = v
  Pieces <- MCPieces
  Keys <- MCKeys
  Values <- MCValues
  Habits = {"throw", "noKey"}
  MaxTokens = 8
  MaxUses = 3
  SizeLimit = 256
SYMMETRY Symmetry
INVARIANTS
  TypeOK
  TextAsMeant
  SqlAsMeant
  ReleasedUnlessThrown
\* into(Row&) of a result without rows can end the process, and every object
\* may have been lost.
CHECK_DEADLOCK FALSE
