SPECIFICATION Spec
CONSTANTS
  r1 = r1
  r2 = r2
  r3 = r3
  Ids <- MCIds
  Offsets <- MCOffsets
  Clocks <- MCClocks
  Dates <- MCDates
  FirstDay <- MCFirstDay
  NoForm = NoForm
  NoPreview = NoPreview
INVARIANT DateStaysPicked
