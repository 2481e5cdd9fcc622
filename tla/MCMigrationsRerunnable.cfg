SPECIFICATION FairSpec
CONSTANTS
  r1 = r1
  r2 = r2
  Runners = {r1, r2}
  Tables <- MCTables
  Features <- MCFeatures
  Settings = "settings"
  Files <- Rerunnable
  Build <- RerunnableBuild
  Commands = {"run"}
  LockModes = {TRUE, FALSE}
  StartVersions = {0}
  NoRunner = NoRunner
  NoBookmark = NoBookmark
  MaxFaults = 1
  MaxLost = 1
PROPERTIES
  EndsMigrated
