---------------------------- MODULE RunProperties ----------------------------
(***************************************************************************)
(* What holds of a single copy of a run, in the store or in a task's hands.*)
(***************************************************************************)
EXTENDS RunSteps, FiniteSets, Functions

Started(run, n) == Status(run, n) # "PENDING"

OrderRespected(run) ==
  \A n \in Nodes : Started(run, n) => DependenciesSatisfied(run, n)

GateOpen(run, g) ==
  \/ /\ Status(run, g) = "SUCCESS"
     /\ run.approvals[g] = [plan |-> run.plan_version, approved |-> TRUE]
  \/ Status(run, g) = "SKIPPED" /\ ~ConditionHolds(run, g)

GatesRespected(run) ==
  \A g \in Gates : \A n \in Descendants[g] : Started(run, n) => GateOpen(run, g)

ArtifactsMatch(run) ==
  \A n \in Nodes :
    IF n \in Agents /\ Status(run, n) = "SUCCESS"
    THEN run.artifacts[n].plan = run.plan_version
    ELSE run.artifacts[n] = NoArtifact

EndExplained(run) ==
  /\ run.completed_at <=> run.status \in Terminal
  /\ run.status = "COMPLETED" =>
       \A n \in Nodes : Status(run, n) \in Acceptable
  /\ run.status = "FAILED" =>
       /\ SomeNode(run, {"FAILED", "ROLLED_BACK"})
       /\ ~SomeNode(run, {"SAFE_STOP"})
  /\ run.status = "SAFE_STOP" => SomeNode(run, {"SAFE_STOP"})

WaitsForOneGate(run) ==
  LET waiting == {n \in Nodes : Status(run, n) = "WAITING_APPROVAL"}
  IN  /\ Cardinality(waiting) <= 1
      /\ waiting # {} <=> run.status = "WAITING_APPROVAL"
      /\ waiting \subseteq Gates

\* The retries that the attempts of the nodes add up to.
Retries(run) ==
  LET retries == [n \in Nodes |-> IF run.nodes[n].attempts = 0 THEN 0
                                  ELSE run.nodes[n].attempts - 1]
  IN  SumFunctionOnSet(retries, Nodes)

WithinBudget(run) ==
  \A n \in Nodes :
    /\ run.nodes[n].attempts <= NODE_MAP[n].max_attempts
    /\ run.nodes[n].used_fallback =>
         /\ Status(run, n) = "SUCCESS"
         /\ run.nodes[n].attempts = NODE_MAP[n].max_attempts
         /\ run.first_failure_at # NoNode

\* The nodes that were rolled back: only a mutating one has a snapshot.
RolledBack(run) == {m \in Mutating : Status(run, m) \in {"ROLLED_BACK", "SAFE_STOP"}}

Counted(run) == [retries |-> run.retry_count, rollbacks |-> run.rollback_count]

\* What the counters hold that the nodes do not show.
CarriedOver(run) ==
  [retries   |-> run.retry_count - Retries(run),
   rollbacks |-> run.rollback_count - Cardinality(RolledBack(run))]

=============================================================================
