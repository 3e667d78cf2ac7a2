SPECIFICATION SyncSpec
CHECK_DEADLOCK FALSE
CONSTANTS
  NoType = "notype"
  SpareCapacity = FALSE
  ColumnNames = {"a", "b", "c"}
  IndexNames = {"i", "j"}
  FkNames = {"f"}
  Types = {"int", "text"}
  OptionLists <- Definitions
  IndexTypes = {"none", "unique"}
  References = {"r"}
  Operations = {"addColumn", "createIndex", "addForeignKey"}
  Reuse = "never"
  Cascades = FALSE
  ShedsOptions = FALSE
  MaxItems = 3
  MaxOptions = 2
  IgnoreFieldOrder = FALSE
  Models <- SimpleModels
  Reorders = FALSE
  RedefinesIndexes = FALSE
  RedefinesKeys = FALSE
  RedefinesOptions = "types"
  MovesIndexed = FALSE
  RereadsKeyDrops = FALSE
  MaxColumns = 3
CONSTRAINT OneRespect
INVARIANT DiffNeverPanics
INVARIANT NeverFails
INVARIANT UpReachesModels
INVARIANT DownReturns
INVARIANT SecondDiffIsHarmless
INVARIANT SecondDiffOnlyRepeats
