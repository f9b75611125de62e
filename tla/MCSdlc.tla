-------------------------------- MODULE MCSdlc --------------------------------
(***************************************************************************)
(* The workflow of the repository on chosen inputs: each condition of the  *)
(* graph holds for some of them and fails for others, and each failure the *)
(* agents can be made to show is among them.                               *)
(***************************************************************************)
EXTENDS SdlcWorkflow

SdlcRequirements ==
  {{}, {"ambiguous_term", "high_impact_marker"}, {"secret_material"}}

SdlcScenarios == {"greenfield", "brownfield"}

SdlcMetadata ==
  {{"simulate_transient_failure"},
   {"simulate_permanent_failure"},
   {"simulate_permanent_failure", "simulate_fallback_failure"}}

=============================================================================
