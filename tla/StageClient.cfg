\* A chain of three profiles, two faults.
SPECIFICATION StageSpec
CONSTANTS
  Chain = 3
  MaxFaults = 2
CHECK_DEADLOCK FALSE
INVARIANTS OneAtATime AnswerIsAccepted
