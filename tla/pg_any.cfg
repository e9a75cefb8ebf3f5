\* Two sessions, every kind of text, COPY included, every habit.
SPECIFICATION Spec
CONSTANTS
  Sessions = {s1, s2}
  Conns = {c1, c2}
  NULL = NULL
  Texts <- AllTexts
  ExecCommands = {"select", "other", "copy"}
  Habits = {"derived", "retry", "reopen"}
SYMMETRY Symmetry
INVARIANTS
  TypeOK
  SendNeverRefused
  EachSegmentOnce
PROPERTIES
  DerivedIsOpenHonest
