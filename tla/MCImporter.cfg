SPECIFICATION Spec
CONSTANTS
  ann = ann
  ben = ben
  Clients <- MCClients
  Values = {"old", "new"}
  NoValue = "zero"
  NoId = NoId
  Bad = "bad"
  Files <- MCFiles
  StartAssets <- MCStartAssets
  StartEntries <- MCStartEntries
  OtherMonths <- MCOtherMonths
  PageSize = 2
  MaxEntries = 2
  MaxRows = 5
  MaxCalls = 3
  MaxEdits = 1
  MaxFaults = 1
SYMMETRY MCSymmetry
INVARIANTS
  TypeOK
PROPERTIES
  PreviewIsExact
  CommitWritesItsRows
  CommitDoesWhatWasShown
  RepeatIsHarmless
  GridKeepsTheRest
