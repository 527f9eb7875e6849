\* One attempt, two workers racing for it, one fault.
SPECIFICATION Spec
CONSTANTS
  e1 = e1
  Attempts = {a1}
  Executions = {e1}
  ExecutionOf <- OneExecution
  Workers = {w1, w2}
  None = None
  MaxClaims = 3
  MaxFaults = 1
  PromptRead = TRUE
SYMMETRY WorkerSymmetry
INVARIANTS AtMostOnce ReleasedUnsent TombstoneHolds
PROPERTIES ImplementsLedger
