SPECIFICATION Spec
CHECK_DEADLOCK FALSE
CONSTANTS
  NoType = "notype"
  SpareCapacity = FALSE
  ColumnNames = {"a", "b", "c"}
  IndexNames = {i, j}
  FkNames = {"f"}
  Types = {"int"}
  OptionLists <- Bare
  IndexTypes = {"unique"}
  References = {"r", "t"}
  Operations <- AllOperations
  Reuse = "last"
  Cascades = FALSE
  ShedsOptions = FALSE
  MaxItems = 4
  MaxOptions = 2
SYMMETRY Symmetry
CONSTRAINT ColumnsOrKeys
INVARIANT ColumnsCoherent
INVARIANT ColumnSetAgrees
INVARIANT IndexesCoherent
INVARIANT ForeignKeysCoherent
INVARIANT IndexesAgree
INVARIANT ForeignKeysKnown
PROPERTY OnlyKeyDropsPanic
