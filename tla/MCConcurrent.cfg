\* Two requests at once on one run, replans among them.
SPECIFICATION Spec
CONSTANT Tasks = {t1, t2}
CONSTANT Runs = {r1}
CONSTANT NoRun = NoRun
CONSTANT Nodes <- CutNodes
CONSTANT NODES <- CUT_NODES
CONSTANT NODE_MAP <- CUT_NODE_MAP
CONSTANT Deciders <- CutDeciders
CONSTANT Requirements <- CutRequirements
CONSTANT Scenarios <- CutScenarios
CONSTANT Metadata <- NoMetadata
CONSTANT MaxPlanVersion = 2
CONSTANT FaultsEnabled = TRUE
CONSTANT AgentOutcomes <- MostlyOk
CONSTANT FallbackOutcomes <- MostlyOk
\* A server without requests has nothing to do.
CHECK_DEADLOCK FALSE
INVARIANT StoreAnswersRequests
INVARIANT ExclusiveUnlessReplanned
PROPERTY RequestsShorten
SYMMETRY AnyTask
