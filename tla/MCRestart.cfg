\* The process dies while a run is worked on.
SPECIFICATION FairSpec
CONSTANT Tasks = {t1}
CONSTANT Runs = {r1}
CONSTANT NoRun = NoRun
CONSTANT Nodes <- CutNodes
CONSTANT NODES <- CUT_NODES
CONSTANT NODE_MAP <- CUT_NODE_MAP
CONSTANT Deciders <- CutDeciders
CONSTANT Requirements <- CutRequirements
CONSTANT Scenarios <- CutScenarios
CONSTANT Metadata <- NoMetadata
CONSTANT MaxPlanVersion = 1
CONSTANT FaultsEnabled = TRUE
CONSTANT AgentOutcomes <- MostlyOk
CONSTANT FallbackOutcomes <- MostlyOk
\* A server without requests has nothing to do.
CHECK_DEADLOCK FALSE
PROPERTY RunsSettle
