\* Two requests at once on one run: a replan is overwritten.
SPECIFICATION Spec
CONSTANT Tasks = {t1, t2}
CONSTANT Runs = {r1}
CONSTANT NoRun = NoRun
CONSTANT Nodes <- CutNodes
CONSTANT NODES <- CUT_NODES
CONSTANT NODE_MAP <- CUT_NODE_MAP
CONSTANT Deciders <- CutDeciders
CONSTANT Requirements <- PlainRequirement
CONSTANT Scenarios <- CutScenarios
CONSTANT Metadata <- NoMetadata
CONSTANT MaxPlanVersion = 2
CONSTANT FaultsEnabled = FALSE
CONSTANT AgentOutcomes <- MostlyOk
CONSTANT FallbackOutcomes <- MostlyOk
\* A server without requests has nothing to do.
CHECK_DEADLOCK FALSE
PROPERTY PlanNeverRegresses
