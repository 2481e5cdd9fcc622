SPECIFICATION Spec
CONSTANTS
  c1 = c1
  c2 = c2
  s1 = s1
  s2 = s2
  Servers = {s1, s2}
  Clients = {c1, c2}
  Keys <- MCKeys
  Amounts <- MCAmounts
  Default <- MCDefault
  Requests <- AllRequests
  StartStore <- MCStartStore
  NoRequest = NoRequest
  MaxRequests = 3
SYMMETRY Symmetry
INVARIANTS
  TypeOK
  CacheAgrees
PROPERTIES
  CardEditsWhatIsStored
  RowsAppearAsAsked
