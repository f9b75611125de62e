\* A fallback agent whose artifact holds a secret.
SPECIFICATION Spec
CONSTANT Tasks = {t1}
CONSTANT Runs = {r1}
CONSTANT NoRun = NoRun
CONSTANT Nodes <- CutNodes
CONSTANT NODES <- CUT_NODES
CONSTANT NODE_MAP <- CUT_NODE_MAP
CONSTANT Deciders <- CutDeciders
CONSTANT Requirements <- CutRequirements
CONSTANT Scenarios <- CutScenarios
CONSTANT Metadata <- NoMetadata
CONSTANT MaxPlanVersion = 1
CONSTANT FaultsEnabled = FALSE
CONSTANT AgentOutcomes <- CaughtOutcomes
CONSTANT FallbackOutcomes <- AnyOutcome
\* A server without requests has nothing to do.
CHECK_DEADLOCK FALSE
INVARIANT AcceptedArtifactsClean
