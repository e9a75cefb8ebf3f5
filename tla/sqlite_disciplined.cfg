\* Two sessions whose application closes before it opens again, asks isOpen()
\* before exec(), and whose callbacks may query but neither throw nor close;
\* under fair scheduling.
SPECIFICATION FairSpec
CONSTANTS
  Sessions = {s1, s2}
  Conns = {c1, c2}
  Stmts = {h1, h2}
  NULL = NULL
  A = A
  B = B
  Blank = Blank
  Pieces <- MCPieces
  Scripts <- OneScript
  OpenArgs <- DefaultArgs
  MaxDepth = 2
  Habits = {"nest"}
INVARIANTS
  StatementsOwned
  NoOrphans
  NeverCrashes
PROPERTIES
  ContractSpec
  QueryReturns
