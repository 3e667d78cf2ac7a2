SPECIFICATION Spec
CHECK_DEADLOCK FALSE
CONSTANTS
  NoType = "notype"
  SpareCapacity = FALSE
  Models <- AllModels
  Table = "t"
  Type = "int"
  Quirks = {}
INVARIANT ModelIsAccepted
INVARIANT ColumnsOfModel
INVARIANT IndexesOfModel
INVARIANT ParserReadsModel
