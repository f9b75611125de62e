\* The repository's graph and agents; one run, replanned once at most.
SPECIFICATION FairSpec
CONSTANT Tasks = {t1}
CONSTANT Runs = {r1}
CONSTANT NoRun = NoRun
CONSTANT Nodes <- SdlcNodes
CONSTANT NODES <- SDLC_NODES
CONSTANT NODE_MAP <- SDLC_NODE_MAP
CONSTANT Deciders <- SdlcDeciders
CONSTANT Requirements <- SdlcRequirements
CONSTANT Scenarios <- SdlcScenarios
CONSTANT Metadata <- SdlcMetadata
CONSTANT MaxPlanVersion = 2
CONSTANT FaultsEnabled = FALSE
CONSTANT AgentOutcomes <- ReadableOutcomes
CONSTANT FallbackOutcomes <- SdlcFallbackOutcomes
\* A server without requests has nothing to do.
CHECK_DEADLOCK FALSE
INVARIANT InputsCurrent
INVARIANT EndsOnlyAsInjected
PROPERTY RequestsReturn
PROPERTY RunsSettle
PROPERTY ScriptedRunsEnd
