SPECIFICATION Spec
CHECK_DEADLOCK FALSE
CONSTANTS
  NoType = "notype"
  SpareCapacity = FALSE
  ColumnNames = {"a", "b", "c", "d"}
  IndexNames = {}
  FkNames = {"f"}
  Types = {"int"}
  OptionLists <- PlainAndNotNull
  IndexTypes = {"none"}
  References = {"r"}
  Operations = {"addColumn", "dropColumn", "renameColumn", "modifyColumn", "addForeignKey"}
  Reuse = "never"
  Cascades = FALSE
  ShedsOptions = FALSE
  MaxItems = 4
  MaxOptions = 1
INVARIANT TypeOK
INVARIANT ColumnsCoherent
INVARIANT ColumnOrderAgrees
INVARIANT PrintingIsHarmless
PROPERTY ImplementsDbTable
