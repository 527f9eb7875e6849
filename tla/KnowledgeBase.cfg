\* Three blobs, two to a listing; one change of the store, two faults, one page.
SPECIFICATION KnowledgeSpec
CONSTANTS
  Paths <- MCPaths
  PathKey <- MCPathKey
  ExpectedKeys <- MCExpectedKeys
  Contents <- MCContents
  MaxBlobs = 2
  MaxIndex = 4
  MaxSection = 5
  MaxPacket = 10
  Pages = {g1}
  MaxChanges = 1
  MaxFaults = 2
INVARIANTS ReadyWhole
PROPERTIES HealthyKept ServesCurrent
