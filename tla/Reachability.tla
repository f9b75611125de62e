---------------------------- MODULE Reachability ----------------------------
(***************************************************************************)
(* What it means to be downstream of a node in a dependency graph.  A      *)
(* graph is the function deps that gives each node the set of nodes it     *)
(* depends on, which is how orchestration/graph.py stores it; an edge      *)
(* therefore points from a dependency to its dependents ("children").      *)
(*                                                                         *)
(* DescendantsIn is the reference definition: the least set that holds the *)
(* children of the start node and is closed under taking children.  It is  *)
(* stated without recursion, so that facts about it need no induction; the *)
(* module DescendantsSearch shows that the worklist of graph.py computes   *)
(* this very set.                                                          *)
(***************************************************************************)

\* The nodes that list a member of S among their dependencies.
Children(deps, S) == {n \in DOMAIN deps : deps[n] \cap S # {}}

\* The sets of nodes that hold the children of start and every dependent of
\* their own members.
ClosedSets(deps, start) ==
  {S \in SUBSET (DOMAIN deps) : Children(deps, S \cup {start}) \subseteq S}

\* Every node that depends on start, directly or through other nodes.
DescendantsIn(deps, start) ==
  LET closed == ClosedSets(deps, start)
  IN  {n \in DOMAIN deps : \A S \in closed : n \in S}

=============================================================================
