SPECIFICATION Spec
CONSTANTS
  Domains = {"A", "B"}
  Corpora <- MCCorpora
  Terms <- MCTerms
  TargetChars = 6
  HardChars = 8
  FirstChunks = 1
  MaxSelections = 2
  MinimumGain = 25
  Attempts = 2
  Passes = 2
INVARIANTS DirectEvidenceKept ShownIsTraceable
PROPERTIES RunEnds
CHECK_DEADLOCK FALSE
