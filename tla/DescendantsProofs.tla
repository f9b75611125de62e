-------------------------- MODULE DescendantsProofs --------------------------
(***************************************************************************)
(* The worklist of descendants() is right on every graph: whenever it      *)
(* ends, it returns the nodes downstream of the start, no more, no fewer.  *)
(***************************************************************************)
EXTENDS DescendantsSearch, TLAPS

\* A child of the start, or of a node downstream of it, is downstream of it.
LEMMA ChildOfDescendant ==
  ASSUME NEW G, NEW s, NEW p \in DescendantsIn(G, s) \cup {s},
         NEW n \in Children(G, {p})
  PROVE  n \in DescendantsIn(G, s)
<1>1. ASSUME NEW S \in ClosedSets(G, s)
      PROVE  n \in S
  <2>1. p \in S \cup {s}
    BY DEF DescendantsIn
  <2>2. n \in Children(G, S \cup {s})
    BY <2>1 DEF Children
  <2> QED
    BY <2>2 DEF ClosedSets
<1> QED
  BY <1>1 DEF DescendantsIn, Children

\* A set that holds the children of the start and those of its own members
\* holds everything downstream of the start.
LEMMA DescendantsLeast ==
  ASSUME NEW G, NEW s, NEW S \in SUBSET (DOMAIN G),
         Children(G, S \cup {s}) \subseteq S
  PROVE  DescendantsIn(G, s) \subseteq S
BY DEF DescendantsIn, ClosedSets

\* The collections of the loop only ever hold node ids.
THEOREM TypeCorrect == Spec => []TypeOK
<1>1. Init => TypeOK
  BY DEF Init, TypeOK
<1>2. TypeOK /\ [Next]_vars => TypeOK'
  BY DEF TypeOK, Next, vars, Expand, Finished, Children
<1> QED
  BY <1>1, <1>2, PTL DEF Spec

\* The invariant of the loop: what is found is downstream of the start, and
\* what is still missing hangs on a node that waits in the frontier.
THEOREM LoopInvariantHolds == Spec => []LoopInvariant
<1>1. Init => LoopInvariant
  BY DEF Init, LoopInvariant, FoundOnlyDescendants, NothingForgotten
<1>2. LoopInvariant /\ [Next]_vars => LoopInvariant'
  <2> SUFFICES ASSUME LoopInvariant, [Next]_vars
               PROVE  LoopInvariant'
    OBVIOUS
  <2> USE DEF LoopInvariant
  <2>1. ASSUME NEW current \in frontier, Expand(current)
        PROVE  LoopInvariant'
    <3> DEFINE found == Children(deps, {current}) \ result
    <3>1. current \in DescendantsIn(deps, start) \cup {start}
      BY DEF FoundOnlyDescendants
    <3>2. found \subseteq DescendantsIn(deps, start)
      BY <3>1, ChildOfDescendant
    <3>3. FoundOnlyDescendants'
      BY <2>1, <3>2 DEF FoundOnlyDescendants, Expand
    <3>4. NothingForgotten'
      BY <2>1 DEF NothingForgotten, Expand, Children
    <3> QED
      BY <3>3, <3>4
  <2>2. CASE Finished \/ UNCHANGED vars
    BY <2>2 DEF Finished, vars, FoundOnlyDescendants, NothingForgotten
  <2> QED
    BY <2>1, <2>2 DEF Next
<1> QED
  BY <1>1, <1>2, PTL DEF Spec

\* descendants() returns exactly the nodes downstream of its argument, so a
\* replan resets all of them and nothing else.
THEOREM Correct == Spec => []ReturnsDescendants
<1>1. TypeOK /\ LoopInvariant => ReturnsDescendants
  <2> SUFFICES ASSUME TypeOK, LoopInvariant, frontier = {}
               PROVE  result = DescendantsIn(deps, start)
    BY DEF ReturnsDescendants
  <2>1. result \subseteq DescendantsIn(deps, start)
    BY DEF LoopInvariant, FoundOnlyDescendants
  <2>2. Children(deps, result \cup {start}) \subseteq result
    BY DEF LoopInvariant, NothingForgotten, Children
  <2>3. DescendantsIn(deps, start) \subseteq result
    BY <2>2, DescendantsLeast DEF TypeOK
  <2> QED
    BY <2>1, <2>3
<1> QED
  BY <1>1, TypeCorrect, LoopInvariantHolds, PTL

=============================================================================
