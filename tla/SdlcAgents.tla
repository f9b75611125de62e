------------------------------ MODULE SdlcAgents ------------------------------
(***************************************************************************)
(* The agents of orchestration/agents.py as the orchestrator sees them,    *)
(* with the policy of orchestration/policies.py and the exit contract of   *)
(* _validate_result applied to what they return.                           *)
(***************************************************************************)

\* inspect_artifact finds a secret in one artifact only: that of
\* RequirementAgent, which quotes the requirement.
RequirementOutcomes(run) ==
  IF "secret_material" \in run.requirement THEN {"critical"} ELSE {"ok"}

\* CodebaseReasoningAgent reads the source files; an OSError is not caught.
CodebaseOutcomes == {"ok", "escape"}

ImplementationOutcomes(run) ==
  IF \/ "simulate_permanent_failure" \in run.metadata
     \/ /\ "simulate_transient_failure" \in run.metadata
        /\ run.nodes["implementation"].attempts = 1
  THEN {"fail"} ELSE {"ok"}

\* Every other agent returns constant texts that meet its contract.
SdlcAgentOutcomes(run, n) ==
  CASE n = "requirement_understanding" -> RequirementOutcomes(run)
    [] n = "codebase_reasoning"        -> CodebaseOutcomes
    [] n = "implementation"            -> ImplementationOutcomes(run)
    [] OTHER                           -> {"ok"}

\* ImplementationFallbackAgent and ArchitectureFallbackAgent.
SdlcFallbackOutcomes(run, n) ==
  IF n = "implementation" /\ "simulate_fallback_failure" \in run.metadata
  THEN {"fail"} ELSE {"ok"}

\* The agents that return decisions.
SdlcDeciders ==
  {"requirement_understanding", "codebase_reasoning", "task_decomposition",
   "architecture_design", "risk_analysis", "implementation"}

\* The artifacts of other nodes an agent looks into.
ArtifactsRead(run, n) ==
  CASE n = "implementation" ->
         IF run.scenario_type = "brownfield" THEN {"codebase_reasoning"} ELSE {}
    [] n = "release_readiness" ->
         {"unit_testing", "integration_testing", "documentation", "security_review"}
    [] n = "final_summary" ->
         {"risk_analysis", "unit_testing", "integration_testing",
          "security_review", "requirement_understanding"}
    [] OTHER -> {}

=============================================================================
