------------------------------- MODULE RunSteps -------------------------------
(***************************************************************************)
(* What the scheduler of orchestration/orchestrator.py does to a run, one  *)
(* operator per effect: run |-> changed run.  When each effect happens is  *)
(* the business of the module Orchestrator.                                *)
(***************************************************************************)
EXTENDS WorkflowModels

CONSTANT Deciders   \* the agents whose results carry decisions

ASSUME DecidersType == Deciders \subseteq Nodes

HasOpenQuestions(run) == run.artifacts[RU].open_questions

IsBrownfield(run) == run.scenario_type = "brownfield"

IsHighImpact(run) ==
  "high_impact" \in run.metadata \/ "high_impact_marker" \in run.requirement

ConditionHolds(run, n) ==
  CASE NODE_MAP[n].condition = "has_open_questions" -> HasOpenQuestions(run)
    [] NODE_MAP[n].condition = "is_brownfield"      -> IsBrownfield(run)
    [] NODE_MAP[n].condition = "is_high_impact"     -> IsHighImpact(run)
    [] NODE_MAP[n].condition = "none"               -> TRUE

Status(run, n) == run.nodes[n].status

Acceptable == {"SUCCESS", "SKIPPED"}

DependenciesSatisfied(run, n) ==
  \A d \in NODE_MAP[n].dependencies : Status(run, d) \in Acceptable

\* Faulty variant of Ready: having run is taken for success.
ReadyOnceRun(run, n) ==
  /\ Status(run, n) = "PENDING"
  /\ \A d \in NODE_MAP[n].dependencies : Status(run, d) # "PENDING"

\* The two `continue's at the head of the scan.
Ready(run, n) == Status(run, n) = "PENDING" /\ DependenciesSatisfied(run, n)

SetNode(run, n, execution) == [run EXCEPT !.nodes[n] = execution]

SetStatus(run, n, status) ==
  SetNode(run, n, [run.nodes[n] EXCEPT !.status = status])

-----------------------------------------------------------------------------
\* The scan of _drive.

SkipNode(run, n) == SetStatus(run, n, "SKIPPED")

SetRunStatus(run, status) == [run EXCEPT !.status = status]

RequestApproval(run, n) ==
  SetRunStatus(SetStatus(run, n, "WAITING_APPROVAL"), "WAITING_APPROVAL")

-----------------------------------------------------------------------------
\* _execute_node.

\* The node starts with its first attempt.
StartNode(run, n) ==
  SetNode(run, n, [run.nodes[n] EXCEPT !.status = "RUNNING", !.attempts = 1])

NextAttempt(run, n) ==
  SetNode(run, n, [run.nodes[n] EXCEPT !.attempts = @ + 1])

OpenQuestions(run, n) ==
  /\ n = RU
  /\ run.scenario_type = "ambiguous" \/ "ambiguous_term" \in run.requirement

\* The artifact and the decisions of a result enter the run.
StoreResult(run, n, isCritical) ==
  [run EXCEPT
     !.artifacts[n] = [plan           |-> run.plan_version,
                       critical       |-> isCritical,
                       open_questions |-> OpenQuestions(run, n)],
     !.decisions = IF n \in Deciders
                   THEN @ \cup {<<n, run.plan_version>>} ELSE @]

\* A success ends the outage that an earlier failure opened.
NoteRecovery(run) ==
  [run EXCEPT !.recovered_at = @ \/ run.first_failure_at # NoNode]

AcceptResult(run, n) ==
  NoteRecovery(SetStatus(StoreResult(run, n, FALSE), n, "SUCCESS"))

\* Success of the fallback agent: no policy scan, no recovery time stamp.
AcceptFallback(run, n, isCritical) ==
  SetNode(StoreResult(run, n, isCritical), n,
          [run.nodes[n] EXCEPT !.status = "SUCCESS", !.used_fallback = TRUE])

\* A failed attempt of the agent, seen by the except clause.
NoteFailure(run, n) ==
  [run EXCEPT !.first_failure_at = IF @ = NoNode THEN n ELSE @]

CountRetry(run) == [run EXCEPT !.retry_count = @ + 1]

\* Faulty variant of RestoreSnapshot: the rollback is not counted.
RestoreUncounted(run, n, artifacts) ==
  IF n \in Mutating THEN [run EXCEPT !.artifacts = artifacts] ELSE run

\* The artifacts go back to the snapshot when the node is mutating.
RestoreSnapshot(run, n, artifacts) ==
  IF n \in Mutating
    THEN [run EXCEPT !.artifacts = artifacts, !.rollback_count = @ + 1]
    ELSE run

PolicyStop(run, n, artifacts) ==
  RestoreSnapshot(SetStatus(run, n, "SAFE_STOP"), n, artifacts)

GiveUpStatus(n) == IF n \in Mutating THEN "ROLLED_BACK" ELSE "FAILED"

GiveUp(run, n, artifacts) ==
  RestoreSnapshot(SetStatus(run, n, GiveUpStatus(n)), n, artifacts)

-----------------------------------------------------------------------------
\* The end of a pass of _drive.

SomeNode(run, statuses) == \E n \in Nodes : Status(run, n) \in statuses

\* Faulty variants of EndWith: completed_at is forgotten; the status is one of
\* the other enumeration.
EndWithoutTime(run, status) == [run EXCEPT !.status = status]

EndWithNodeStatus(run, status) ==
  [run EXCEPT !.status = IF status = "COMPLETED" THEN "SUCCESS" ELSE status,
              !.completed_at = TRUE]

EndWith(run, status) == [run EXCEPT !.status = status, !.completed_at = TRUE]

SettleFailure(run) ==
  EndWith(run, IF SomeNode(run, {"SAFE_STOP"}) THEN "SAFE_STOP" ELSE "FAILED")

-----------------------------------------------------------------------------
\* approve and replan.

RecordApproval(run, g, isApproved) ==
  [run EXCEPT !.approvals[g] = [plan     |-> run.plan_version,
                                approved |-> isApproved]]

ApproveGate(run, g) ==
  SetRunStatus(SetStatus(RecordApproval(run, g, TRUE), g, "SUCCESS"), "RUNNING")

\* Faulty variant of RejectGate: the gate itself goes on waiting.
RejectRunOnly(run, g) == EndWith(RecordApproval(run, g, FALSE), "SAFE_STOP")

RejectGate(run, g) ==
  EndWith(SetStatus(RecordApproval(run, g, FALSE), g, "SAFE_STOP"), "SAFE_STOP")

\* Faulty variant of Affected: the direct dependents only.
AffectedDirectly == {RU} \cup Children(Deps, {RU})

Affected == {RU} \cup Descendants[RU]

\* A new plan that forgets what these nodes did, produced and were told.
NewPlan(run, requirement, executions, products, answers) ==
  [run EXCEPT
     !.requirement  = requirement,
     !.plan_version = @ + 1,
     !.status       = "RUNNING",
     !.completed_at = FALSE,
     !.nodes     = [n \in Nodes |-> IF n \in executions THEN NewExecution ELSE @[n]],
     !.artifacts = [n \in Nodes |-> IF n \in products THEN NoArtifact ELSE @[n]],
     !.approvals = [n \in Nodes |-> IF n \in answers THEN NoApproval ELSE @[n]]]

\* Faulty variants of ReplanRun: decided gates are kept; artifacts are kept;
\* approvals are kept; the counters are not.
ReplanKeepsGates(run, requirement) ==
  NewPlan(run, requirement, Affected \ Gates, Affected, Affected \ Gates)

ReplanKeepsArtifacts(run, requirement) ==
  NewPlan(run, requirement, Affected, {}, Affected)

ReplanKeepsApprovals(run, requirement) ==
  NewPlan(run, requirement, Affected, Affected, {})

ReplanAnew(run, requirement) ==
  [NewPlan(run, requirement, Affected, Affected, Affected)
     EXCEPT !.retry_count = 0, !.rollback_count = 0]

ReplanRun(run, requirement) ==
  NewPlan(run, requirement, Affected, Affected, Affected)

=============================================================================
