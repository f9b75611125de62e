\* One run, every answer of every agent, the process dying anywhere.
SPECIFICATION Spec
CONSTANT Tasks = {t1}
CONSTANT Runs = {r1}
CONSTANT NoRun = NoRun
CONSTANT Nodes <- CutNodes
CONSTANT NODES <- CUT_NODES
CONSTANT NODE_MAP <- CUT_NODE_MAP
CONSTANT Deciders <- CutDeciders
CONSTANT Requirements <- CutRequirements
CONSTANT Scenarios <- CutScenarios
CONSTANT Metadata <- NoMetadata
CONSTANT MaxPlanVersion = 2
CONSTANT FaultsEnabled = TRUE
CONSTANT AgentOutcomes <- AnyOutcome
CONSTANT FallbackOutcomes <- AnyOutcome
\* A server without requests has nothing to do.
CHECK_DEADLOCK FALSE
INVARIANT TypeOK
INVARIANT DependencyOrder
INVARIANT GateHonoured
INVARIANT ArtifactProvenance
INVARIANT EndsForCause
INVARIANT StoreAnswersRequests
INVARIANT BudgetsKept
INVARIANT MutationIsolated
PROPERTY CountersKept
PROPERTY PlanNeverRegresses
PROPERTY ResultsStay
PROPERTY MetricsKept
PROPERTY FollowsLifecycle
