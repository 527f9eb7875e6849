\* One attempt, two workers, and a getAttempt that may answer after its lease.
SPECIFICATION Spec
CONSTANTS
  e1 = e1
  Attempts = {a1}
  Executions = {e1}
  ExecutionOf <- OneExecution
  Workers = {w1, w2}
  None = None
  MaxClaims = 3
  MaxFaults = 1
  PromptRead = FALSE
SYMMETRY WorkerSymmetry
INVARIANTS ReleasedUnsent
