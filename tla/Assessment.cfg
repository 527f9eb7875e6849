\* One criterion of either stream, two rescans, in nine companies.
SPECIFICATION AssessmentSpec
CONSTANTS
  None = None
  Passes = 2
  p1 = p1  p2 = p2  p3 = p3  p4 = p4  p5 = p5  q1 = q1
  Pairs <- MCPairs
  DomainOf <- MCDomainOf
  Strength <- MCStrength
  Self = p1
  Companies <- MCCompanies
  FewSilent = 2  ManySilent = 3  ManyGaps = 3  ManyFound = 1
CHECK_DEADLOCK FALSE
INVARIANTS ScoreEarned RecordFollows CoverageNests UnverifiedNotActionable BetterNeverHarms
PROPERTIES Assembled
