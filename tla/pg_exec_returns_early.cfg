\* exec() returns when the statement is sent.
SPECIFICATION Spec
CONSTANTS
  Sessions = {s1}
  Conns = {c1}
  NULL = NULL
  Texts <- PlainTexts
  ExecCommands = {"other"}
  Habits = {}
INVARIANTS
  ExecExecutes
