\* One unsupported claim a check.
SPECIFICATION Spec
CONSTANTS
  plain = plain  miscited = miscited  first = first  second = second
  unfounded = unfounded  wrong = wrong  bare = bare
  t1 = t1  t2 = t2
  Statements <- MCStatements
  Actions <- MCActions
  Offered <- MCOffered
  Bare = bare
  Withheld <- MCWithheld
  Required <- MCRequired
  Tactics <- MCTactics
  Unknown = Unknown
  None = None
  Cites <- MCCites
  MaxRegens = 1
  MaxRetries = 2
  MaxClaims = 1
INVARIANTS RequiredSettled DecisionBounded SummaryChecked ReportTraces
PROPERTIES LineageKept NeverWorse
