----------------------------- MODULE RunContract -----------------------------
(***************************************************************************)
(* What the server promises a browser about one run: the states a run goes *)
(* through, when the checkpoints saved in it can be read back, and when its *)
(* data is gone.  Claims, cleaners, packets, requests in progress and       *)
(* failing calls are RunLifecycle's, which implements this module;          *)
(* ReportDelivery is a browser that relies on no more than this.            *)
(***************************************************************************)
EXTENDS Naturals

CONSTANT Items    \* the checkpoints that may be saved

VARIABLES
  state,    \* the run's state, "none" before it is created
  erased,   \* its cleanup is verified
  late,     \* its deadline has passed
  kept      \* the checkpoints a reader gets back

vars == <<state, erased, late, kept>>

Working == {"active", "recovery_required"}
Open    == Working \cup {"ready_for_delivery"}
Ended   == {"completed", "failed", "deletion_requested", "deleted", "expired"}

Init ==
  /\ state \in {"none", "active"}
  /\ erased = FALSE
  /\ late = FALSE
  /\ kept = {}

Move(from, to) ==
  /\ state \in from
  /\ state' = to
  /\ UNCHANGED <<erased, late, kept>>

Create      == Move({"none"}, "active")
Suspend     == ~late /\ Move(Working, "recovery_required")
Resume      == ~late /\ Move({"recovery_required"}, "active")
Ready       == Move({"active"}, "ready_for_delivery")
Acknowledge == Move({"ready_for_delivery"}, "completed")
Complete    == Move({"active"}, "completed")
Fail        == Move(Working, "failed")
Expire      == Move(Open, "expired")

Delete ==
  /\ state # "none"
  /\ state' = IF erased THEN "deleted" ELSE "deletion_requested"
  /\ UNCHANGED <<erased, late, kept>>

Save ==
  /\ state \in Working /\ ~late
  /\ kept' \in {kept \cup {k} : k \in Items}
  /\ UNCHANGED <<state, erased, late>>

\* Checkpoints go when their run has ended or is past its deadline.
Forget ==
  /\ state \in Ended \/ late
  /\ kept' \in SUBSET kept
  /\ UNCHANGED <<state, erased, late>>

Erase ==
  /\ state \in Ended /\ ~erased
  /\ erased' = TRUE
  /\ kept' = {}
  /\ state' = IF state = "deletion_requested" THEN "deleted" ELSE state
  /\ UNCHANGED late

DeadlinePasses ==
  /\ late' = TRUE
  /\ UNCHANGED <<state, erased, kept>>

Next ==
  \/ Create \/ Suspend \/ Resume \/ Ready \/ Acknowledge \/ Complete \/ Fail
  \/ Expire \/ Delete \/ Save \/ Forget \/ Erase \/ DeadlinePasses

Spec == Init /\ [][Next]_vars
=============================================================================
