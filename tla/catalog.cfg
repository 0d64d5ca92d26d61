SPECIFICATION Spec
CONSTANTS
  c1 = c1
  c2 = c2
  c3 = c3
  mug = mug
  NoEntry = NoEntry
  Failed = Failed
  Clients = {c1, c2, c3}
  Skus = {mug}
  MaxVersion = 3
INVARIANTS
  StaleIsExplained
PROPERTIES
  FoundOnceCreated
  CoherentInTheEnd
