SPECIFICATION FairSpec
CONSTANTS
  c1 = c1
  c2 = c2
  Clients = {c1, c2}
  Requests <- AllRequests
  StartDb <- MCStartDb
  Names <- MCNames
  Months <- MCMonths
  Values <- MCValues
  NoRequest = NoRequest
  MaxRequests = 3
INVARIANTS
  TypeOK
  KeysAreUnique
  NoOrphans
PROPERTIES
  PatchKeepsTheRest
  BatchIsAtomic
  HistoryKept
  KeepsPromise
  EveryRequestAnswered
