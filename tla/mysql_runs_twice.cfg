\* A text with white space after its last semicolon.
SPECIFICATION Spec
CONSTANTS
  Sessions = {s1}
  Structs = {c1}
  Socks = {k1}
  NULL = NULL
  Texts <- TrailingBlank
  Habits = {}
INVARIANTS
  EachStatementOnce
