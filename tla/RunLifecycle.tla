----------------------------- MODULE RunLifecycle -----------------------------
(***************************************************************************)
(* What a client of the engineering API is promised about one run, nodes   *)
(* and batches left out: the run works, stops to ask for a decision, and   *)
(* ends; it is not completed unless the decisions that its completion      *)
(* requires were taken for the current plan; nothing but a replan takes it *)
(* out of an end or withdraws a decision.                                  *)
(***************************************************************************)
EXTENDS Naturals

CONSTANTS
  Gates,        \* what a run can ask a decision on
  Mandatory,    \* those of them that every completed run has passed
  NoGate        \* no gate: not waiting for any of them

VARIABLES
  stage,        \* "absent", or the status of the run
  plan,         \* its plan version
  gate,         \* the gate it waits for
  approved      \* the gates approved for this plan

vars == <<stage, plan, gate, approved>>

Init == stage = "absent" /\ plan = 0 /\ gate = NoGate /\ approved = {}

Start ==
  /\ stage = "absent"
  /\ stage' = "RUNNING" /\ plan' = 1
  /\ UNCHANGED <<gate, approved>>

Ask(g) ==
  /\ stage = "RUNNING" /\ g \notin approved
  /\ stage' = "WAITING_APPROVAL" /\ gate' = g
  /\ UNCHANGED <<plan, approved>>

Approve ==
  /\ stage = "WAITING_APPROVAL"
  /\ stage' = "RUNNING" /\ gate' = NoGate
  /\ approved' = approved \cup {gate}
  /\ UNCHANGED plan

Reject ==
  /\ stage = "WAITING_APPROVAL"
  /\ stage' = "SAFE_STOP" /\ gate' = NoGate
  /\ UNCHANGED <<plan, approved>>

Complete ==
  /\ stage = "RUNNING" /\ Mandatory \subseteq approved
  /\ stage' = "COMPLETED"
  /\ UNCHANGED <<plan, gate, approved>>

Abort ==
  /\ stage = "RUNNING"
  /\ stage' \in {"FAILED", "SAFE_STOP"}
  /\ UNCHANGED <<plan, gate, approved>>

Replan ==
  /\ stage # "absent"
  /\ stage' = "RUNNING" /\ plan' = plan + 1
  /\ gate' = NoGate /\ approved' = {}

Next ==
  \/ Start \/ (\E g \in Gates : Ask(g)) \/ Approve \/ Reject
  \/ Complete \/ Abort \/ Replan

Spec == Init /\ [][Next]_vars

=============================================================================
