\* Two sessions whose application may do everything Session.h does not forbid.
SPECIFICATION Spec
CONSTANTS
  Sessions = {s1, s2}
  Conns = {c1, c2}
  Stmts = {h1, h2, h3}
  NULL = NULL
  A = A
  B = B
  Blank = Blank
  Pieces <- MCPieces
  Scripts <- MCScripts
  OpenArgs <- MCOpenArgs
  MaxDepth = 2
  Habits = {"nest", "throw", "closeInCallback", "retry", "reopen", "blind"}
SYMMETRY Symmetry
INVARIANTS
  TypeOK
  IsOpenHonest
  StatementsInUseAreLive
  TextAccounted
\* An exec() without a connection can end the process.
CHECK_DEADLOCK FALSE
