\* Two sessions that close before they open again, with data that converts and
\* callbacks that do not throw, no stored procedures, a server that may go away
\* at any time; under fair scheduling.
SPECIFICATION FairSpec
CONSTANTS
  Sessions = {s1, s2}
  Structs = {c1, c2}
  Socks = {k1, k2}
  NULL = NULL
  Texts <- PlainTexts
  Habits = {"ping"}
INVARIANTS
  InSync
  StructsReachable
PROPERTIES
  ContractSpec
  QueryReturns
