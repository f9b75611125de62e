----------------------------- MODULE SdlcWorkflow -----------------------------
(***************************************************************************)
(* The orchestrator with the graph and the agents of the repository.       *)
(***************************************************************************)
EXTENDS OrchestratorProperties, SdlcGraph, SdlcAgents

\* The agents, when the repository's files can be read.
ReadableOutcomes(run, n) == SdlcAgentOutcomes(run, n) \ {"escape"}

\* When an agent is called, every artifact of another node that it looks into
\* is there and was made for the current plan.
InputsCurrent ==
  \A t \in Tasks : \A n \in Nodes :
    phase[t][n] = "agent" =>
      \A m \in ArtifactsRead(obj[t], n) :
        obj[t].artifacts[m].plan = obj[t].plan_version

\* With these agents a run fails only if its metadata makes both the agent and
\* the fallback of implementation fail; it is stopped only for a secret in the
\* requirement or a rejected gate; and any other failure is recovered from.
EndsOnlyAsInjected ==
  \A run \in Stored :
    /\ run.status = "FAILED" =>
         {"simulate_permanent_failure", "simulate_fallback_failure"}
           \subseteq run.metadata
    /\ run.status = "SAFE_STOP" =>
         \/ "secret_material" \in run.requirement
         \/ \E g \in Gates : /\ run.approvals[g].plan = run.plan_version
                             /\ ~run.approvals[g].approved
    /\ run.status = "COMPLETED" =>
         (run.recovered_at <=> run.first_failure_at # NoNode)

-----------------------------------------------------------------------------

\* The client of scripts/run_scenarios.py: it starts a run and approves two of
\* the three gates as they come to wait.
ScriptApproves(t) ==
  \E r \in Runs, g \in {"clarification_gate", "release_approval"} : Approve(t, r, g)

OverOrLeft(r) ==
  /\ Known(r)
  /\ \/ store[r].status \in Terminal
     \/ Status(store[r], "change_approval") = "WAITING_APPROVAL"

\* With a client that goes on approving like the script, whoever else replans
\* or rejects, every run ends, unless a high impact change waits for the
\* approval that the script does not give.
ScriptedRunsEnd ==
  (\A t \in Tasks : WF_vars(ScriptApproves(t))) =>
    \A r \in Runs : Known(r) ~> OverOrLeft(r)

=============================================================================
