\* A replan, and the decisions of the plan before it.
SPECIFICATION Spec
CONSTANT Tasks = {t1}
CONSTANT Runs = {r1}
CONSTANT NoRun = NoRun
CONSTANT Nodes <- CutNodes
CONSTANT NODES <- CUT_NODES
CONSTANT NODE_MAP <- CUT_NODE_MAP
CONSTANT Deciders <- CutDeciders
CONSTANT Requirements <- CutRequirements
CONSTANT Scenarios <- CutScenarios
CONSTANT Metadata <- NoMetadata
CONSTANT MaxPlanVersion = 2
CONSTANT FaultsEnabled = FALSE
CONSTANT AgentOutcomes <- MostlyOk
CONSTANT FallbackOutcomes <- MostlyOk
\* A server without requests has nothing to do.
CHECK_DEADLOCK FALSE
INVARIANT DecisionsOfCurrentPlan
