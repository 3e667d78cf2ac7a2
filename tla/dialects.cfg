SPECIFICATION DialectsSpec
CHECK_DEADLOCK FALSE
CONSTANTS
  NoType = "notype"
  SpareCapacity = FALSE
  TableNames = {t, u}
  ColumnNames = {"a", "b"}
  KeyColumns = {"a"}
  IndexNames = {"i"}
  FkNames = {"f"}
  Type = "int"
  Creates <- OneOrTwo
  Alters <- SomeAlters
  Strays = FALSE
  MaxItems = 2
  MaxOptions = 1
  Dialects = {"mysql", "postgres", "sqlite"}
  Misread <- None
  FkPrefixed = {"f"}
  PgAlters <- OnePgCommand
  LiteAlters <- LiteStatements
SYMMETRY Symmetry
INVARIANT TypeOK
INVARIANT TablesFound
INVARIANT GoneTablesAreMarked
INVARIANT NoPositionWaits
PROPERTY OthersUntouched
