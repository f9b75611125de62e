\* The repository's graph and agents: a replan after a failure that nothing cured.
SPECIFICATION Spec
CONSTANT Tasks = {t1}
CONSTANT Runs = {r1}
CONSTANT NoRun = NoRun
CONSTANT Nodes <- SdlcNodes
CONSTANT NODES <- SDLC_NODES
CONSTANT NODE_MAP <- SDLC_NODE_MAP
CONSTANT Deciders <- SdlcDeciders
CONSTANT Requirements <- SdlcRequirements
CONSTANT Scenarios <- SdlcScenarios
CONSTANT Metadata <- SdlcMetadata
CONSTANT MaxPlanVersion = 2
CONSTANT FaultsEnabled = FALSE
CONSTANT AgentOutcomes <- ReadableOutcomes
CONSTANT FallbackOutcomes <- SdlcFallbackOutcomes
\* A server without requests has nothing to do.
CHECK_DEADLOCK FALSE
INVARIANT RecoveryIsSuccess
