\* Two cleaners racing, a checkpoint request, two faults.
SPECIFICATION FairSpec
CONSTANTS
  Packets = {p1}
  Checkpoints = {k1}
  Cleaners = {c1, c2}
  MaxClaims = 3
  MaxFaults = 2
INVARIANTS EvidenceMatches VerifiedErased SavedRecoverable
PROPERTIES KeepsContract EndedErased DeadlineEnds
