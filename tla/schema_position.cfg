SPECIFICATION Spec
CHECK_DEADLOCK FALSE
CONSTANTS
  NoType = "notype"
  SpareCapacity = FALSE
  TableNames = {t, u}
  ColumnNames = {"a", "b"}
  KeyColumns = {"a"}
  IndexNames = {"i"}
  FkNames = {"f"}
  Type = "int"
  Creates <- OneOrTwo
  Alters <- ColumnAlters
  Strays = TRUE
  MaxItems = 2
  MaxOptions = 1
INVARIANT TablesFound
