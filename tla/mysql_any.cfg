\* Two sessions, every kind of text, every habit of the application and its data.
SPECIFICATION Spec
CONSTANTS
  Sessions = {s1, s2}
  Structs = {c1, c2}
  Socks = {k1, k2}
  NULL = NULL
  Texts <- SomeTexts
  Habits = {"throw", "convert", "nest", "execRows", "ping", "retry", "reopen",
            "unopened", "closeInside"}
SYMMETRY Symmetry
INVARIANTS
  TypeOK
  RowsHaveResult
  NotShared
  NumberedWhenAlone
  CrashHasCause
CHECK_DEADLOCK FALSE
