\* One attempt, one worker, under the fairness of the loops.
SPECIFICATION FairSpec
CONSTANTS
  e1 = e1
  Attempts = {a1}
  Executions = {e1}
  ExecutionOf <- OneExecution
  Workers = {w1}
  None = None
  MaxClaims = 3
  MaxFaults = 1
  PromptRead = TRUE
PROPERTIES EverySettles ResultRecovered
