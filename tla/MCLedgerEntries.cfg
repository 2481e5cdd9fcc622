SPECIFICATION Spec
CONSTANTS
  c1 = c1
  c2 = c2
  Clients = {c1, c2}
  Requests <- HistoryRequests
  StartDb <- MCStartDb
  Names <- MCNames
  Months <- MCMonths
  Values <- MCValues
  NoRequest = NoRequest
  MaxRequests = 2
INVARIANTS
  OneEntryPerAssetPerMonth
