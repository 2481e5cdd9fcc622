SPECIFICATION FairSpec
CONSTANTS
  r1 = r1
  r2 = r2
  Runners = {r1}
  Tables <- MCTables
  Features <- MCFeatures
  Settings = "settings"
  Files <- Shipped
  Build <- SingleBuild
  Commands = {"run","repair"}
  LockModes = {TRUE}
  StartVersions = {5}
  NoRunner = NoRunner
  NoBookmark = NoBookmark
  MaxFaults = 1
  MaxLost = 0
  PROPERTY EventuallyMigrated
