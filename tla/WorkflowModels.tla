---------------------------- MODULE WorkflowModels ----------------------------
(***************************************************************************)
(* The persisted classes of orchestration/workflow_models.py.              *)
(*                                                                         *)
(* What the control flow never looks at is left out: ids, texts, notes,    *)
(* reviewers, the audit trail and the write-only `context'.  A text or a   *)
(* dictionary the code does look into is the set of what it finds there.   *)
(* A time stamp is kept when the code tests it, as whether it is set.      *)
(* Artifacts, approvals and decisions carry the plan version they were     *)
(* made for: the code does not store it, the properties tell by it whether *)
(* something outlived its plan.  Dictionaries are total functions with a   *)
(* null value for a missing key.                                           *)
(***************************************************************************)
EXTENDS WorkflowGraph

\* What the code looks for in a requirement's text.
RequirementTraits == {"ambiguous_term", "high_impact_marker", "secret_material"}

ScenarioTypes == {"greenfield", "brownfield", "ambiguous"}

\* The metadata keys that are read; a key is in the set when it is truthy.
MetadataFlags ==
  {"high_impact", "simulate_transient_failure", "simulate_permanent_failure",
   "simulate_fallback_failure"}

NodeStatus == {"PENDING", "RUNNING", "SUCCESS", "FAILED", "SKIPPED",
               "WAITING_APPROVAL", "ROLLED_BACK", "SAFE_STOP"}

RunStatus == {"RUNNING", "WAITING_APPROVAL", "COMPLETED", "FAILED", "SAFE_STOP"}

Terminal == {"COMPLETED", "FAILED", "SAFE_STOP"}

NoNode == "no node"

ASSUME NoNodeIsNone == NoNode \notin Nodes

NodeExecution ==
  [status : NodeStatus, attempts : Nat, used_fallback : BOOLEAN]

NewExecution ==
  [status |-> "PENDING", attempts |-> 0, used_fallback |-> FALSE]

\* `critical' says that the policy scan finds a secret in the artifact.
Artifact == [plan : Nat, critical : BOOLEAN, open_questions : BOOLEAN]
NoArtifact == [plan |-> 0, critical |-> FALSE, open_questions |-> FALSE]

ApprovalDecision == [plan : Nat, approved : BOOLEAN]
NoApproval == [plan |-> 0, approved |-> FALSE]

\* first_failure_at keeps the node whose failure set it.
WorkflowRun ==
  [requirement      : SUBSET RequirementTraits,
   scenario_type    : ScenarioTypes,
   metadata         : SUBSET MetadataFlags,
   status           : RunStatus,
   plan_version     : Nat,
   completed_at     : BOOLEAN,
   first_failure_at : Nodes \cup {NoNode},
   recovered_at     : BOOLEAN,
   nodes            : [Nodes -> NodeExecution],
   artifacts        : [Nodes -> Artifact],
   approvals        : [Nodes -> ApprovalDecision],
   decisions        : SUBSET (Nodes \X Nat),
   retry_count      : Nat,
   rollback_count   : Nat]

NewRun(requirement, scenario_type, metadata) ==
  [requirement      |-> requirement,
   scenario_type    |-> scenario_type,
   metadata         |-> metadata,
   status           |-> "RUNNING",
   plan_version     |-> 1,
   completed_at     |-> FALSE,
   first_failure_at |-> NoNode,
   recovered_at     |-> FALSE,
   nodes            |-> [n \in Nodes |-> NewExecution],
   artifacts        |-> [n \in Nodes |-> NoArtifact],
   approvals        |-> [n \in Nodes |-> NoApproval],
   decisions        |-> {},
   retry_count      |-> 0,
   rollback_count   |-> 0]

=============================================================================
