SPECIFICATION SyncSpec
CHECK_DEADLOCK FALSE
CONSTANTS
  NoType = "notype"
  SpareCapacity = TRUE
  ColumnNames = {"a", "b"}
  IndexNames = {"i"}
  FkNames = {}
  Types = {"int"}
  OptionLists <- Bare
  IndexTypes = {"none"}
  References = {"r"}
  Operations = {"addColumn", "createIndex", "addForeignKey"}
  Reuse = "never"
  Cascades = FALSE
  ShedsOptions = FALSE
  MaxItems = 3
  MaxOptions = 2
  IgnoreFieldOrder = FALSE
  Models <- SimpleModels
  Reorders = FALSE
  RedefinesIndexes = FALSE
  RedefinesKeys = FALSE
  RedefinesOptions = "types"
  MovesIndexed = TRUE
  RereadsKeyDrops = FALSE
  MaxColumns = 2
INVARIANT NeverFails
