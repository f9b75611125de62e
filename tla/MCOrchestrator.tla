---------------------------- MODULE MCOrchestrator ----------------------------
(***************************************************************************)
(* The orchestrator on the cut of the graph, with agents that may answer   *)
(* anything.                                                               *)
(***************************************************************************)
EXTENDS OrchestratorProperties, SdlcGraph, TLC

AnyOutcome(run, n) == Outcomes

\* Agents that never raise anything unexpected.
CaughtOutcomes(run, n) == {"ok", "critical", "fail"}

\* Agents that succeed, but for the mutating one.
MostlyOk(run, n) == IF n \in Mutating THEN {"ok", "fail"} ELSE {"ok"}

\* What lets the condition of the cut graph hold or not.
CutRequirements == {{}, {"ambiguous_term"}}
PlainRequirement == {{}}
CutScenarios    == {"greenfield"}
NoMetadata      == {{}}
CutDeciders     == {"requirement_understanding"}

AnyTask == Permutations(Tasks)

=============================================================================
