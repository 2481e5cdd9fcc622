SPECIFICATION Spec
CONSTANTS
  bank = bank
  broker = broker
  pension = pension
  Assets <- MCAssets
  Classes <- MCClasses
  ClassOf <- MCClassOf
  NameOf <- MCNameOf
  Months <- MCMonths
  Now = 25
  Places <- MCPlaces
  Entries <- MCEntries
  Receipts <- MCReceipts
  StartLogs <- MCStartLogs
  Requests <- MCRequests
  NoScope = NoScope
  NoMonth = NoMonth
  StaleAfter = 1
  MaxWrites = 2
INVARIANTS
  TypeOK
  SeriesExplained
  PartsAddUp
  NumbersAgree
  RiskByDefinition
PROPERTIES
  PastIsStable
