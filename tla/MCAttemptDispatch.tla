------------------------- MODULE MCAttemptDispatch --------------------------
(* Finite instances of AttemptDispatch for TLC. *)
EXTENDS AttemptDispatch, TLC

CONSTANTS e1

OneExecution == [a \in Attempts |-> e1]

WorkerSymmetry == Permutations(Workers)
=============================================================================
