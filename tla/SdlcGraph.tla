------------------------------ MODULE SdlcGraph ------------------------------
(***************************************************************************)
(* The NODES table of orchestration/graph.py and the defaults of its       *)
(* WorkflowNode class, as values for the constants of WorkflowGraph.       *)
(***************************************************************************)
EXTENDS Naturals, Sequences

\* The defaults of the dataclass, given the dependencies of a node.
NodeWith(dependencies) ==
  [dependencies   |-> dependencies,
   max_attempts   |-> 2,
   mutating       |-> FALSE,
   approval_gate  |-> FALSE,
   condition      |-> "none",
   fallback_agent |-> FALSE]

GateWith(dependencies) ==
  [NodeWith(dependencies) EXCEPT !.approval_gate = TRUE]

SDLC_NODES ==
  <<"requirement_understanding", "clarification_gate", "codebase_reasoning",
    "task_decomposition", "architecture_design", "risk_analysis",
    "change_approval", "implementation", "unit_testing",
    "integration_testing", "documentation", "security_review",
    "release_readiness", "release_approval", "final_summary">>

SdlcNodes == {SDLC_NODES[i] : i \in 1..Len(SDLC_NODES)}

SdlcNode(id) ==
  CASE id = "requirement_understanding" -> NodeWith({})
    [] id = "clarification_gate" ->
         [GateWith({"requirement_understanding"})
            EXCEPT !.condition = "has_open_questions"]
    [] id = "codebase_reasoning" ->
         [NodeWith({"requirement_understanding", "clarification_gate"})
            EXCEPT !.condition = "is_brownfield"]
    [] id = "task_decomposition" ->
         NodeWith({"requirement_understanding", "clarification_gate"})
    [] id = "architecture_design" ->
         [NodeWith({"task_decomposition", "codebase_reasoning"})
            EXCEPT !.fallback_agent = TRUE]
    [] id = "risk_analysis" -> NodeWith({"task_decomposition"})
    [] id = "change_approval" ->
         [GateWith({"architecture_design", "risk_analysis"})
            EXCEPT !.condition = "is_high_impact"]
    [] id = "implementation" ->
         [NodeWith({"architecture_design", "risk_analysis", "change_approval"})
            EXCEPT !.mutating = TRUE, !.max_attempts = 3, !.fallback_agent = TRUE]
    [] id \in {"unit_testing", "integration_testing", "documentation",
               "security_review"} -> NodeWith({"implementation"})
    [] id = "release_readiness" ->
         NodeWith({"unit_testing", "integration_testing", "documentation",
                   "security_review"})
    [] id = "release_approval" -> GateWith({"release_readiness"})
    [] id = "final_summary" -> NodeWith({"release_approval"})

SDLC_NODE_MAP == [id \in SdlcNodes |-> SdlcNode(id)]

-----------------------------------------------------------------------------

(***************************************************************************)
(* A cut of the same table for the runs in which every agent may fail in   *)
(* every way: one node of each kind, with the attributes it has above.     *)
(* What is left out between two kept nodes is bridged by a dependency.     *)
(***************************************************************************)
CUT_NODES ==
  <<"requirement_understanding", "clarification_gate", "architecture_design",
    "risk_analysis", "implementation", "release_approval", "final_summary">>

CutNodes == {CUT_NODES[i] : i \in 1..Len(CUT_NODES)}

CutDependencies(id) ==
  CASE id \in {"requirement_understanding", "clarification_gate",
               "final_summary"} -> SdlcNode(id).dependencies
    [] id \in {"architecture_design", "risk_analysis"} -> {"clarification_gate"}
    [] id = "implementation" -> {"architecture_design", "risk_analysis"}
    [] id = "release_approval" -> {"implementation"}

CUT_NODE_MAP ==
  [id \in CutNodes |->
     [SdlcNode(id) EXCEPT !.dependencies = CutDependencies(id)]]

=============================================================================
