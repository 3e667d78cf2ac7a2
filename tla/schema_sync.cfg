SPECIFICATION SyncSpec
CHECK_DEADLOCK FALSE
CONSTANTS
  NoType = "notype"
  SpareCapacity = FALSE
  TableNames = {t, u, schema_migrations}
  OwnTables = {t, u}
  ColumnNames = {"a", "b"}
  KeyColumns = {"a"}
  IndexNames = {"i"}
  FkNames = {"f"}
  Type = "int"
  Creates <- OnlyA
  Alters <- Alters1
  Strays = FALSE
  MaxItems = 3
  MaxOptions = 1
  IgnoreFieldOrder = FALSE
  DefaultMigrationTable = schema_migrations
  MigrationTable = schema_migrations
  Models <- SomeModels
  Recreates = FALSE
  Relates = FALSE
  ManyKeys = FALSE
  RereadsKeyDrops = FALSE
SYMMETRY Symmetry
CONSTRAINT SmallHistory
INVARIANT SchemaNeverFails
INVARIANT SchemaReachesModels
INVARIANT SchemaReturns
INVARIANT OnlyRepeatsLeft
INVARIANT VersionTableKept
