\* One session of each kind: every argument set, table and target type below.
SPECIFICATION Spec
CONSTANTS
  CharSize = 4
  ShortSize = 8
  IntSize = 16
  LongLongSize = 32
  Garbage <- MCGarbage
  Environments <- MCEnvironments
  SQLiteArguments <- MCSQLiteArguments
  ServerArguments <- MCServerArguments
  Headers = {"A", "B"}
  SQLiteTables <- MCSQLiteTables
  MySQLTables <- MCMySQLTables
  TimeValues <- MCTimeValues
  Targets <- MCTargets
INVARIANTS
  TypeOK
  BackendFound
  OpensAsAsked
  ConnectsAsAsked
  ResultsFaithful
  IntegersSurvive
  TextMatchesNumber
  FieldsOfTheText
  StoredComesBack
  NullReadsEmpty
  UndefinedHasCause
CHECK_DEADLOCK FALSE
