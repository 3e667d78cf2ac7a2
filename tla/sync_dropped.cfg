SPECIFICATION SyncSpec
CHECK_DEADLOCK FALSE
CONSTANTS
  NoType = "notype"
  SpareCapacity = FALSE
  ColumnNames = {"a", "b", "c"}
  IndexNames = {}
  FkNames = {}
  Types = {"int"}
  OptionLists <- Bare
  IndexTypes = {"none"}
  References = {"r"}
  Operations = {"addColumn", "dropColumn"}
  Reuse = "never"
  Cascades = FALSE
  ShedsOptions = FALSE
  MaxItems = 3
  MaxOptions = 2
  IgnoreFieldOrder = FALSE
  Models <- SimpleModels
  Reorders = FALSE
  RedefinesIndexes = FALSE
  RedefinesKeys = FALSE
  RedefinesOptions = "types"
  MovesIndexed = FALSE
  RereadsKeyDrops = FALSE
  MaxColumns = 3
INVARIANT UpReachesModels
