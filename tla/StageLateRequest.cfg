\* Two profiles, no fault: a request that reaches the ledger after the browser
\* has concluded that it never will.
SPECIFICATION StageSpec
CONSTANTS
  Chain = 2
  MaxFaults = 0
CHECK_DEADLOCK FALSE
INVARIANTS AbsentIsPreSend
