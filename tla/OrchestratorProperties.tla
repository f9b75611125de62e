------------------------ MODULE OrchestratorProperties ------------------------
(***************************************************************************)
(* What the orchestrator promises, over every copy of every run: the ones  *)
(* in the store and the ones tasks are working on.                         *)
(***************************************************************************)
EXTENDS Orchestrator, RunProperties

Stored == {store[r] : r \in {s \in Runs : store[s] # NoRun}}

Copies == Stored \cup {obj[t] : t \in {u \in Tasks : pc[u] # "idle"}}

-----------------------------------------------------------------------------
\* Invariants.

\* No node leaves PENDING before each of its dependencies has succeeded or was
\* skipped, and none of those is undone afterwards, in any copy of a run.
DependencyOrder == \A run \in Copies : OrderRespected(run)

\* Nothing downstream of an approval gate has started unless that gate was
\* approved for the current plan, or its condition does not hold: no agent
\* outruns the human decision, across replans and restarts.
GateHonoured == \A run \in Copies : GatesRespected(run)

\* A run holds an artifact of a node exactly when the node's agent succeeded,
\* and it is one of the current plan: a rollback to the snapshot takes no
\* other node's artifact with it, and a replan leaves none behind.
ArtifactProvenance == \A run \in Copies : ArtifactsMatch(run)

\* How a run ended tells why.  In particular the "blocked graph" end of _drive
\* is reached only after a rollback, COMPLETED only when every node is done,
\* and completed_at is set exactly while the run is over.
EndsForCause == \A run \in Copies : EndExplained(run)

\* What the store shows between requests: a run that waits has one gate to
\* decide on, no other run has any, and no node is left RUNNING, wherever the
\* process died.
StoreAnswersRequests ==
  \A run \in Stored : WaitsForOneGate(run) /\ ~SomeNode(run, {"RUNNING"})

\* Attempts stay in their budget, and a fallback has the last word only after
\* all of them were made and the failure was noted, in any copy of a run.
BudgetsKept == \A run \in Copies : WithinBudget(run)

\* While a mutating node executes it is alone in its batch, and the artifacts
\* are the ones its snapshot holds: restoring it loses nobody's work.
MutationIsolated ==
  \A t \in Tasks : \A m \in Mutating :
    phase[t][m] \in Active =>
      Batch(t) = {m} /\ snapshot[t][m] = obj[t].artifacts

\* Two requests never work on the same run at once, unless one of them works on
\* a new plan of it: a second approval of a gate finds the gate decided.
ExclusiveUnlessReplanned ==
  \A t, u \in Tasks :
    t # u /\ held[t] = held[u] /\ held[t] # NoRun =>
      obj[t].plan_version > 1 \/ obj[u].plan_version > 1

-----------------------------------------------------------------------------
\* Action properties of the store.

Known(r) == store[r] # NoRun

\* The plan of a stored run never goes back to an earlier version.
PlanNeverRegresses ==
  [][\A r \in Runs :
       Known(r) => store'[r] # NoRun /\ store'[r].plan_version >= store[r].plan_version
    ]_vars

SamePlan(r) == Known(r) /\ store'[r].plan_version = store[r].plan_version

\* Within one plan a result that is stored stays: a node that is done keeps its
\* status and artifact, a decision on a gate is never changed, and a run that
\* is over stays over.
ResultsStay ==
  [][\A r \in Runs : SamePlan(r) =>
       /\ store[r].status \in Terminal => store'[r] = store[r]
       /\ \A n \in Nodes :
            /\ Status(store[r], n) \in Acceptable =>
                 /\ store'[r].nodes[n] = store[r].nodes[n]
                 /\ store'[r].artifacts[n] = store[r].artifacts[n]
            /\ store[r].approvals[n] # NoApproval =>
                 store'[r].approvals[n] = store[r].approvals[n]
    ]_vars

\* The counters that metrics() adds up miss nothing and count nothing twice:
\* from one save of a run to the next they grow by the retries and rollbacks
\* that its nodes show and did not show before, whatever crash or failed save
\* came between; and a new plan, whose nodes show nothing yet, carries over
\* exactly what was counted before it.
CountersKept ==
  [][\A r \in Runs :
       /\ ~Known(r) /\ store'[r] # NoRun =>
            CarriedOver(store'[r]) = [retries |-> 0, rollbacks |-> 0]
       /\ SamePlan(r) => CarriedOver(store'[r]) = CarriedOver(store[r])
       /\ Known(r) /\ ~SamePlan(r) => CarriedOver(store'[r]) = Counted(store[r])
    ]_store

\* metrics, over what `all' returns.  Of the latencies and recovery times only
\* how many they are; the rates divide the sums by runs_total.
Metrics ==
  LET runs        == {r \in Runs : Known(r)}
      Count(P(_)) == Cardinality({r \in runs : P(store[r])})
      Total(f)    == SumFunctionOnSet(f, runs)
  IN  [runs_total             |-> Cardinality(runs),
       completed              |-> Count(LAMBDA run : run.status = "COMPLETED"),
       failed_or_safe_stopped |->
         Count(LAMBDA run : run.status \in {"FAILED", "SAFE_STOP"}),
       retry_count            |-> Total([r \in runs |-> store[r].retry_count]),
       rollback_count         |-> Total([r \in runs |-> store[r].rollback_count]),
       latencies              |-> Count(LAMBDA run : run.completed_at),
       recovery_times         |->
         Count(LAMBDA run : run.recovered_at /\ run.first_failure_at # NoNode)]

\* While requests come one at a time, what metrics counts is never taken back,
\* by a replan, a failed save or a crash; and there is a latency for each run
\* that is counted as completed, failed or stopped, and for no other.
MetricsKept ==
  [][LET new == Metrics'
     IN  /\ new.latencies = new.completed + new.failed_or_safe_stopped
         /\ \A counter \in {"runs_total", "retry_count", "rollback_count", "recovery_times"} :
              new[counter] >= Metrics[counter]
    ]_vars

-----------------------------------------------------------------------------
\* How much is left of a request, in three numbers of falling weight.

Taken(batch) == {n \in Nodes : batch[n] # "none"}

Untaken(run, batch) == {n \in Nodes : Status(run, n) = "PENDING"} \ Taken(batch)

\* The nodes that no pass has taken up, and whether this pass has taken any.
NodesLeft(run, batch, moved) ==
  2 * Cardinality(Untaken(run, batch)) + (IF moved \/ Taken(batch) # {} THEN 1 ELSE 0)

\* The stages of this pass; a pass that got somewhere is followed by another.
StagesLeft(label, moved) ==
  CASE label = "top"    -> IF moved THEN 0 ELSE 5
    [] label = "scan"   -> 4
    [] label = "gather" -> 3
    [] label = "settle" -> 2
    [] OTHER            -> 1

\* The awaits of _execute_node for a node of the batch, and its first step.
AwaitsOf(run, n, p) ==
  LET attempts == NODE_MAP[n].max_attempts - run.nodes[n].attempts
  IN  CASE p \in {"queued", "sleep"} -> 2 * attempts + 1
        [] p = "agent"               -> 2 * attempts + 2
        [] p = "fallback"            -> 1
        [] OTHER                     -> 0

AwaitsLeft(run, batch) ==
  SumFunctionOnSet([n \in Nodes |-> AwaitsOf(run, n, batch[n])], Nodes)

\* What is left of the stage: nodes to scan, or awaits of the batch.
StageLeft(label, run, batch, i) ==
  CASE label = "scan"   -> Len(NODES) + 1 - i
    [] label = "gather" -> AwaitsLeft(run, batch)
    [] OTHER            -> 0

Left(t) ==
  <<NodesLeft(obj[t], phase[t], progress[t]),
    StagesLeft(pc[t], progress[t]),
    StageLeft(pc[t], obj[t], phase[t], index[t])>>

Shorter(a, b) ==
  /\ a \in Nat \X Nat \X Nat
  /\ \E i \in 1..3 : a[i] < b[i] /\ \A j \in 1..(i - 1) : a[j] = b[j]

\* Every step of a request brings it nearer to its return, and no step of
\* another one sets it back: _drive makes a next pass only after one that took
\* up a node, and _execute_node awaits no more than the attempts allow.
RequestsShorten ==
  [][\A t \in Tasks : pc[t] # "idle" /\ pc'[t] # "idle" =>
       /\ TaskStep(t) => Shorter(Left(t)', Left(t))
       /\ Shorter(Left(t)', Left(t)) \/ Left(t)' = Left(t)
    ]_vars

-----------------------------------------------------------------------------
\* Refinement: what the store holds of run r, as RunLifecycle sees it.

WaitedFor(r) == {g \in Gates : Known(r) /\ Status(store[r], g) = "WAITING_APPROVAL"}

Stage(r)    == IF Known(r) THEN store[r].status ELSE "absent"
Plan(r)     == IF Known(r) THEN store[r].plan_version ELSE 0
Gate(r)     == IF WaitedFor(r) = {} THEN NoNode ELSE CHOOSE g \in WaitedFor(r) : TRUE
Approved(r) == {g \in Gates : Known(r) /\ store[r].approvals[g].approved}

Unconditional == {g \in Gates : NODE_MAP[g].condition = "none"}

Lifecycle(r) == INSTANCE RunLifecycle WITH
  Mandatory <- Unconditional,
  NoGate    <- NoNode,
  stage     <- Stage(r),
  plan      <- Plan(r),
  gate      <- Gate(r),
  approved  <- Approved(r)

\* The store shows each run going through its promised life: it asks, is told,
\* and completes only with every unconditional gate approved for this plan.
FollowsLifecycle ==
  /\ \A r \in Runs : Lifecycle(r)!Init
  /\ [][\A r \in Runs :
          Lifecycle(r)!Next \/ UNCHANGED Lifecycle(r)!vars]_vars

-----------------------------------------------------------------------------
\* Liveness.

\* Every request that is being served returns: the loop of _drive ends,
\* whatever the agents answer.
RequestsReturn == \A t \in Tasks : pc[t] # "idle" ~> pc[t] = "idle"

Settled(r) == Known(r) /\ store[r].status # "RUNNING"

\* A stored run that is RUNNING comes to wait for a decision or to an end.
RunsSettle == \A r \in Runs : Known(r) ~> Settled(r)

-----------------------------------------------------------------------------
\* Claims of the documentation that the code does not keep.

\* "Replanning invalidates downstream decisions and approvals"
DecisionsOfCurrentPlan ==
  \A run \in Stored : \A d \in run.decisions : d[2] = run.plan_version

\* "Policy scanning runs before the artifact is accepted"
AcceptedArtifactsClean ==
  \A run \in Stored : \A n \in Nodes : ~run.artifacts[n].critical

\* "Mean time to recovery when a failed attempt later succeeds"
RecoveryIsSuccess ==
  \A run \in Stored :
    run.recovered_at => Status(run, run.first_failure_at) = "SUCCESS"

=============================================================================
