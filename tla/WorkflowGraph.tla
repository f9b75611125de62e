---------------------------- MODULE WorkflowGraph ----------------------------
(***************************************************************************)
(* The dependency graph of orchestration/graph.py, as a parameter: node    *)
(* ids, the order in which the scheduler scans them and the attributes of  *)
(* each.  The fifteen nodes of the repository are in the module SdlcGraph. *)
(*                                                                         *)
(* A condition is named, not passed as a function: RunSteps gives each     *)
(* name its meaning.  Of a fallback agent only its presence matters here.  *)
(***************************************************************************)
EXTENDS Reachability, Naturals, Sequences

CONSTANTS
  Nodes,            \* the node ids
  NODES,            \* the ids in declaration order, which is the scan order
  NODE_MAP          \* [Nodes -> WorkflowNode]

Conditions == {"none", "has_open_questions", "is_brownfield", "is_high_impact"}

WorkflowNode ==
  [dependencies   : SUBSET Nodes,
   max_attempts   : Nat \ {0},
   mutating       : BOOLEAN,
   approval_gate  : BOOLEAN,
   condition      : Conditions,
   fallback_agent : BOOLEAN]

RU    == "requirement_understanding"
Final == "final_summary"

Deps == [n \in Nodes |-> NODE_MAP[n].dependencies]

Gates    == {n \in Nodes : NODE_MAP[n].approval_gate}
Agents   == Nodes \ Gates
Mutating == {n \in Nodes : NODE_MAP[n].mutating}

Descendants == [n \in Nodes |-> DescendantsIn(Deps, n)]

-----------------------------------------------------------------------------

\* Well-formedness: what graph.py declares is a table of such records, each
\* id appearing exactly once.
ASSUME GraphType ==
  /\ {RU, Final} \subseteq Nodes
  /\ NODES \in Seq(Nodes)
  /\ \A n \in Nodes : \E i \in 1..Len(NODES) : NODES[i] = n
  /\ \A i, j \in 1..Len(NODES) : NODES[i] = NODES[j] => i = j
  /\ NODE_MAP \in [Nodes -> WorkflowNode]
  /\ ~NODE_MAP[RU].approval_gate /\ NODE_MAP[RU].condition = "none"
  /\ ~NODE_MAP[Final].approval_gate /\ NODE_MAP[Final].condition = "none"

\* Nothing depends on itself, directly or not: of any nodes, one depends on
\* none of them.
ASSUME Acyclic ==
  \A S \in (SUBSET Nodes) \ {{}} : \E n \in S : Deps[n] \cap S = {}

\* The root is upstream of everything, so a replan resets every node.
ASSUME RootCovers == Nodes = {RU} \cup Descendants[RU]

\* The last node is downstream of everything, so its success ends the run.
ASSUME FinalCovers == \A n \in Nodes \ {Final} : Final \in Descendants[n]

\* A mutating node shares no batch with another node: every other node is
\* upstream or downstream of it.  The artifact snapshot relies on this.
ASSUME MutatingIsolated ==
  \A m \in Mutating : \A n \in Nodes \ {m} :
    n \in Descendants[m] \/ m \in Descendants[n]

\* Only agents mutate, and neither the first nor the last of them.
ASSUME MutatingAgents == Mutating \subseteq Agents \ {RU, Final}

=============================================================================
