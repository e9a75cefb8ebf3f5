\* Two sessions that close before they open again and start no COPY, with
\* connections that may break at any time; under fair scheduling.
SPECIFICATION FairSpec
CONSTANTS
  Sessions = {s1, s2}
  Conns = {c1, c2}
  NULL = NULL
  Texts <- PlainTexts
  ExecCommands = {"select", "other"}
  Habits = {"derived"}
INVARIANTS
  NoOrphans
PROPERTIES
  ContractSpec
  CallsReturn
