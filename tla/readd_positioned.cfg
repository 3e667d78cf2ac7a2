SPECIFICATION Spec
CHECK_DEADLOCK FALSE
CONSTANTS
  NoType = "notype"
  SpareCapacity = TRUE
  ColumnNames = {"a", "b", "c"}
  IndexNames = {}
  FkNames = {}
  Types = {"int"}
  OptionLists <- Bare
  IndexTypes = {"none"}
  References = {"r"}
  Operations = {"addColumn", "dropColumn", "renameColumn", "modifyColumn"}
  Reuse = "any"
  Cascades = FALSE
  ShedsOptions = FALSE
  MaxItems = 4
  MaxOptions = 2
INVARIANT ColumnSetAgrees
