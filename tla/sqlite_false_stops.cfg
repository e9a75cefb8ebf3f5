\* Rows that are still delivered after a callback returned false.
SPECIFICATION Spec
CONSTANTS
  Sessions = {s1}
  Conns = {c1, c2}
  Stmts = {h1, h2}
  NULL = NULL
  A = A
  B = B
  Blank = Blank
  Pieces <- MCPieces
  Scripts <- OneScript
  OpenArgs <- DefaultArgs
  MaxDepth = 1
  Habits = {}
INVARIANTS
  FalseStopsQuery
