SPECIFICATION Spec
CONSTANTS
  Items <- MCItems
  Cadences <- MCCadences
  MaxPages = 3
  MaxOcrPages = 3
  MaxRows = 8
  SparsePercent = 20
  Bindings <- MCBindings
  Pairs <- MCPairs
  Aliases <- MCAliases
  Expected <- MCExpected
  MinObservations = 3
  MinSegments = 3
  MaxAliases = 2
  Selections <- MCSelections
  Slots = {s1, s2}
  MinFiles = 2
  MaxFiles = 4
  MaxSize = 5
  MaxSelected = 2
  MaxRuns = 2
INVARIANTS WithheldStaysLocal SecretsStop NothingMissing OfferedIsWhole
PROPERTIES RetainedUnlessRemoved
SYMMETRY SlotSymmetry
CHECK_DEADLOCK FALSE
