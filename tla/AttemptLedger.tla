---------------------------- MODULE AttemptLedger ----------------------------
(***************************************************************************)
(* What the control plane promises about one provider call per attempt,    *)
(* seen from the ledger and the provider only: no queue, no leases, no     *)
(* workers and no crashes.  AttemptDispatch is shown to implement it.      *)
(***************************************************************************)
CONSTANT Attempts

VARIABLES
  ledger,   \* the state model_attempts records
  call      \* the provider call: "none", "cleared" to leave, then what came of it

vars == <<ledger, call>>

Init ==
  /\ ledger = [a \in Attempts |-> "none"]
  /\ call = [a \in Attempts |-> "none"]

Move(a, from, target) ==
  /\ ledger[a] \in from
  /\ ledger' = [ledger EXCEPT ![a] = target]

Reserve(a) == Move(a, {"none"}, "queued") /\ UNCHANGED call

Prepare(a) == Move(a, {"queued"}, "dispatch_intent") /\ UNCHANGED call

\* The one step that clears a call, taken from a state nothing returns to.
Authorize(a) ==
  /\ Move(a, {"dispatch_intent"}, "send_authorized")
  /\ call[a] = "none"
  /\ call' = [call EXCEPT ![a] = "cleared"]

Send(a) ==
  /\ call[a] = "cleared"
  /\ call' = [call EXCEPT ![a] = "inflight"]
  /\ UNCHANGED ledger

\* The sender dies with the call still in hand: it is not made.
Abandon(a) ==
  /\ call[a] = "cleared"
  /\ call' = [call EXCEPT ![a] = "none"]
  /\ UNCHANGED ledger

Answer(a) ==
  /\ call[a] = "inflight"
  /\ \E outcome \in {"text", "rejected", "uncertain"} :
       call' = [call EXCEPT ![a] = outcome]
  /\ UNCHANGED ledger

\* Another attempt may be made: nothing left the process, or the provider
\* refused.
Release(a) ==
  /\ \/ Move(a, {"queued", "dispatch_intent"}, "cancelled")
     \/ Move(a, {"queued", "dispatch_intent"}, "fallback_allowed")
     \/ call[a] = "rejected" /\ Move(a, {"send_authorized"}, "fallback_allowed")
  /\ UNCHANGED call

Doubt(a) ==
  /\ Move(a, {"queued", "dispatch_intent", "send_authorized"}, "outcome_unknown")
  /\ UNCHANGED call

Accept(a) ==
  /\ call[a] = "text"
  /\ Move(a, {"send_authorized", "outcome_unknown"}, "succeeded")
  /\ UNCHANGED call

Lose(a) ==
  /\ call[a] = "text"
  /\ Move(a, {"send_authorized"}, "result_unavailable")
  /\ UNCHANGED call

Next ==
  \E a \in Attempts :
    \/ Reserve(a) \/ Prepare(a) \/ Authorize(a) \/ Send(a) \/ Abandon(a)
    \/ Answer(a) \/ Release(a) \/ Doubt(a) \/ Accept(a) \/ Lose(a)

Spec == Init /\ [][Next]_vars
=============================================================================
