SPECIFICATION Spec
CONSTANTS
  r1 = r1
  r2 = r2
  Runners = {r1, r2}
  Tables <- MCTables
  Features <- MCFeatures
  Settings = "settings"
  Files <- Shipped
  Build <- ShippedBuild
  Commands = {"run", "repair"}
  LockModes = {TRUE}
  StartVersions = {0, 1, 2, 3, 4, 5, 6}
  NoRunner = NoRunner
  NoBookmark = NoBookmark
  MaxFaults = 3
  MaxLost = 0
INVARIANTS
  TypeOK
  NothingSkipped
  FreshPlan
  SchemaMatchesVersion
PROPERTIES
  InOrder
  VersionOnlyAdvances
