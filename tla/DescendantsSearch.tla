-------------------------- MODULE DescendantsSearch --------------------------
(***************************************************************************)
(* The worklist loop of descendants() in orchestration/graph.py, which     *)
(* replan() uses to decide which nodes lose their status, artifact and     *)
(* approval.  A node missed here would keep a stale result; a node too     *)
(* many would be run again for nothing.                                    *)
(*                                                                         *)
(* The loop runs without suspension, so one iteration (pop a node, scan    *)
(* NODES for its dependents) is one step.  The Python list `frontier' is a *)
(* set here: a node enters it only on entering `result', and the order in  *)
(* which nodes are popped is left open.                                    *)
(***************************************************************************)
EXTENDS Reachability

CONSTANT Nodes      \* the ids of the graph

VARIABLES
  deps,             \* the graph, chosen initially and never changed
  start,            \* the argument of descendants()
  frontier,         \* nodes found whose dependents have not been looked for
  result            \* nodes found

vars == <<deps, start, frontier, result>>

TypeOK ==
  /\ deps \in [Nodes -> SUBSET Nodes]
  /\ start \in Nodes
  /\ frontier \subseteq Nodes
  /\ result \subseteq Nodes

Init ==
  /\ deps \in [Nodes -> SUBSET Nodes]
  /\ start \in Nodes
  /\ frontier = {start}
  /\ result = {}

\* Faulty variant of Expand: the found nodes are recorded but their own
\* dependents are never looked for (frontier.append dropped).
ExpandForgetsFrontier(current) ==
  LET found == Children(deps, {current}) \ result
  IN  /\ current \in frontier
      /\ result' = result \cup found
      /\ frontier' = frontier \ {current}
      /\ UNCHANGED <<deps, start>>

\* Faulty variant of Expand: the `not in result' test is dropped, so a node on
\* a cycle is queued again for ever.
ExpandForgetsResult(current) ==
  LET found == Children(deps, {current})
  IN  /\ current \in frontier
      /\ result' = result \cup found
      /\ frontier' = (frontier \ {current}) \cup found
      /\ UNCHANGED <<deps, start>>

\* Faulty variant of Expand: what is added to the result is the node's
\* dependency tuple instead of its id.
ExpandAddsTuples(current) ==
  LET found == Children(deps, {current}) \ result
  IN  /\ current \in frontier
      /\ result' = result \cup {deps[n] : n \in found}
      /\ frontier' = (frontier \ {current}) \cup found
      /\ UNCHANGED <<deps, start>>

\* One iteration of the while loop: the dependents of the popped node that
\* are new go to both collections.
Expand(current) ==
  LET found == Children(deps, {current}) \ result
  IN  /\ current \in frontier
      /\ result' = result \cup found
      /\ frontier' = (frontier \ {current}) \cup found
      /\ UNCHANGED <<deps, start>>

Finished == frontier = {} /\ UNCHANGED vars

Next == (\E current \in frontier : Expand(current)) \/ Finished

Spec == Init /\ [][Next]_vars

FairSpec == Spec /\ WF_vars(\E current \in frontier : Expand(current))

-----------------------------------------------------------------------------

(***************************************************************************)
(* The invariant of the loop: everything found is downstream of the start, *)
(* and a dependent that is still missing is a dependent of a node that     *)
(* waits in the frontier.                                                  *)
(***************************************************************************)
FoundOnlyDescendants ==
  /\ result \subseteq DescendantsIn(deps, start)
  /\ frontier \subseteq result \cup {start}

NothingForgotten ==
  \A n \in (result \cup {start}) \ frontier : Children(deps, {n}) \subseteq result

LoopInvariant == FoundOnlyDescendants /\ NothingForgotten

\* When the loop ends, its result is exactly the set of nodes downstream of
\* the start, on every graph, cyclic ones included.
ReturnsDescendants == frontier = {} => result = DescendantsIn(deps, start)

\* The loop ends on every graph: the `not in result' test is what keeps a
\* diamond or a cycle from being walked for ever.
Terminates == <>(frontier = {})

=============================================================================
