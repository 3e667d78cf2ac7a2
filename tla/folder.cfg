SPECIFICATION FairSpec
CONSTANTS
  Things = {"x", "y"}
  Runs = {"v", "w"}
  WithVersion <- Versions
  PairedSuffixes = TRUE
  Together = FALSE
  SameSecond = FALSE
  TornIsRun = FALSE
  MaxEdits = 2
  MaxCrashes = 1
  MaxSpare = 1
INVARIANT TypeOK
INVARIANT FolderReachesModels
INVARIANT MigrationsRun
INVARIANT DbFollowsFolder
INVARIANT VersionFollows
PROPERTY WholeFilesStay
PROPERTY Converges
