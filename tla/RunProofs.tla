------------------------------ MODULE RunProofs ------------------------------
(***************************************************************************)
(* Lemmas about the operators of RunSteps, for every graph: what each of   *)
(* them does to a run, and that each keeps a run sound.                    *)
(***************************************************************************)
EXTENDS RunProperties, FiniteSetTheorems, TLAPS

-----------------------------------------------------------------------------
(***************************************************************************)
(* Sums over finite sets, which counters are compared with.  The fold of   *)
(* the library is the value of a function that adds one chosen element to  *)
(* the sum of the rest; what is said of it for every finite set is shown   *)
(* by taking a smallest set of which it does not hold.                     *)
(***************************************************************************)
\* Of some numbers one is least; of some finite sets one holds no other.
LEMMA SmallestNumber ==
  ASSUME NEW T \in SUBSET Nat, T # {}
  PROVE  \E m \in T : \A k \in T : m <= k
<1> DEFINE less == OpToRel(<, Nat)
<1>1. IsWellFoundedOn(less, Nat)
  BY Zenon, NatLessThanWellFounded
<1>2. \A k, m \in Nat : k < m => <<k, m>> \in less
  BY DEF OpToRel
<1> HIDE DEF less
<1>3. PICK m \in T : \A k \in T : ~(<<k, m>> \in less)
  BY <1>1, WFMin
<1>4. \A k \in T : ~(k < m)
  BY <1>2, <1>3
<1> QED
  BY <1>4

LEMMA SmallestSet ==
  ASSUME NEW S, IsFiniteSet(S), NEW T \in SUBSET (SUBSET S), T # {}
  PROVE  \E s \in T : \A u \in T : u \subseteq s => u = s
<1>1. IsWellFoundedOn(StrictSubsetOrdering(S), SUBSET S)
  BY FS_StrictSubsetOrderingWellFounded, FS_FiniteSubsetsOfFinite
<1>2. \E s \in T : \A u \in T : ~(<<u, s>> \in StrictSubsetOrdering(S))
  BY <1>1, WFMin
<1> QED BY <1>2 DEF StrictSubsetOrdering

\* One element of a sum, and the rest of it, as the fold takes them.
Pick(s) == CHOOSE x \in s : TRUE

PickOne(f, g, s) == IF s = {} THEN 0 ELSE f[Pick(s)] + g[s \ {Pick(s)}]

SumsUp(f, g, S) == g = [s \in SUBSET S |-> PickOne(f, g, s)]

Small(S, k) == {s \in SUBSET S : Cardinality(s) <= k}

SumsUpTo(f, g, S, k) == g = [s \in Small(S, k) |-> PickOne(f, g, s)]

LEMMA PickIn == ASSUME NEW s, s # {} PROVE Pick(s) \in s
BY DEF Pick

\* Such a function is there: for the empty set first, and from sets of so many
\* elements for those with one more.
LEMMA SumsUpToExists ==
  ASSUME NEW f, NEW S, IsFiniteSet(S), NEW k \in Nat
  PROVE  \E g : SumsUpTo(f, g, S, k)
<1> DEFINE T == {m \in Nat : ~\E g : SumsUpTo(f, g, S, m)}
<1> SUFFICES ASSUME T # {}
             PROVE  FALSE
  OBVIOUS
<1>1. PICK m \in T : \A j \in T : m <= j
  <2> HIDE DEF T
  <2>1. T \in SUBSET Nat
    BY DEF T
  <2> QED
    BY <2>1, SmallestNumber
<1>2. ASSUME NEW g, \A s \in Small(S, m) \ {{}} : g[s \ {Pick(s)}] = PickOne(f, g, s \ {Pick(s)})
      PROVE FALSE
  <2> DEFINE h == [s \in Small(S, m) |-> PickOne(f, g, s)]
  <2>1. ASSUME NEW s \in Small(S, m)
        PROVE  PickOne(f, g, s) = PickOne(f, h, s)
    <3>1. CASE s = {}
      BY <3>1 DEF PickOne
    <3>2. CASE s # {}
      <4>1. s \ {Pick(s)} \in Small(S, m)
        <5>1. IsFiniteSet(s) /\ s \in SUBSET S
          BY FS_Subset DEF Small
        <5>2. s \ {Pick(s)} \in SUBSET S /\ Cardinality(s \ {Pick(s)}) <= Cardinality(s)
          BY <5>1, FS_Subset
        <5>3. Cardinality(s) \in Nat /\ Cardinality(s) <= m /\ Cardinality(s \ {Pick(s)}) \in Nat
          BY <5>1, FS_CardinalityType, FS_Subset DEF Small
        <5> QED
          BY <5>2, <5>3 DEF Small
      <4>2. h[s \ {Pick(s)}] = PickOne(f, g, s \ {Pick(s)})
        BY <4>1
      <4>3. g[s \ {Pick(s)}] = h[s \ {Pick(s)}]
        BY <1>2, <3>2, <4>2
      <4> QED
        BY <4>3 DEF PickOne
    <3> QED
      BY <3>1, <3>2
  <2>2. h = [s \in Small(S, m) |-> PickOne(f, h, s)]
    <3>1. h = [s \in Small(S, m) |-> PickOne(f, g, s)]
      OBVIOUS
    <3> HIDE DEF h
    <3> QED
      BY <2>1, <3>1
  <2> HIDE DEF h
  <2>3. SumsUpTo(f, h, S, m)
    BY <2>2 DEF SumsUpTo
  <2> QED
    BY <2>3
<1>3. CASE m = 0
  <2>1. Small(S, 0) = {{}}
    <3>1. ASSUME NEW s \in SUBSET S PROVE Cardinality(s) <= 0 <=> s = {}
      <4>1. IsFiniteSet(s)
        BY FS_Subset
      <4> QED
        BY <4>1, FS_EmptySet, FS_CardinalityType
    <3> QED
      BY <3>1 DEF Small
  <2> QED
    BY <1>2, <1>3, <2>1
<1>4. CASE m # 0
  <2>1. m - 1 \in Nat /\ m - 1 \notin T
    BY <1>1, <1>4
  <2>2. PICK g : SumsUpTo(f, g, S, m - 1)
    BY <2>1
  <2>3. ASSUME NEW s \in Small(S, m), s # {}
        PROVE  s \ {Pick(s)} \in Small(S, m - 1)
    <3>1. IsFiniteSet(s) /\ s \in SUBSET S /\ Pick(s) \in s
      BY <2>3, FS_Subset, PickIn DEF Small
    <3>2. Cardinality(s \ {Pick(s)}) = Cardinality(s) - 1 /\ Cardinality(s) \in Nat
      BY <3>1, FS_RemoveElement, FS_CardinalityType
    <3> QED
      BY <3>1, <3>2 DEF Small
  <2>4. \A s \in Small(S, m) \ {{}} : g[s \ {Pick(s)}] = PickOne(f, g, s \ {Pick(s)})
    <3>1. \A u \in Small(S, m - 1) : g[u] = PickOne(f, g, u)
      BY <2>2 DEF SumsUpTo
    <3> QED
      BY <2>3, <3>1
  <2> QED
    BY <1>2, <2>4
<1> QED
  BY <1>3, <1>4

LEMMA SumsUpExists ==
  ASSUME NEW f, NEW S, IsFiniteSet(S)
  PROVE  \E g : SumsUp(f, g, S)
<1>1. Cardinality(S) \in Nat /\ Small(S, Cardinality(S)) = SUBSET S
  BY FS_Subset, FS_CardinalityType DEF Small
<1>2. PICK g : SumsUpTo(f, g, S, Cardinality(S))
  BY <1>1, SumsUpToExists
<1> QED
  BY <1>1, <1>2 DEF SumsUp, SumsUpTo

\* The fold of the library, as the value of such a function.
LEMMA SumIsFold ==
  ASSUME NEW f, NEW S, IsFiniteSet(S)
  PROVE  \E g : SumsUp(f, g, S) /\ SumFunctionOnSet(f, S) = g[S]
<1> DEFINE g == CHOOSE h : SumsUp(f, h, S)
<1>1. SumFunctionOnSet(f, S) = g[S]
  BY Zenon DEF SumFunctionOnSet, FoldFunctionOnSet, MapThenFoldSet, SumsUp, PickOne, Pick
<1>2. SumsUp(f, g, S)
  BY SumsUpExists
<1> QED
  BY <1>1, <1>2

LEMMA SumsUpSame ==
  ASSUME NEW f, NEW e, NEW g, NEW h, NEW S, NEW T, IsFiniteSet(S),
         SumsUp(f, g, S), SumsUp(e, h, T), S \subseteq T,
         \A x \in S : f[x] = e[x]
  PROVE  g[S] = h[S]
<1> DEFINE B == {s \in SUBSET S : g[s] # h[s]}
<1> SUFFICES ASSUME B # {}
             PROVE  FALSE
  OBVIOUS
<1>1. PICK s \in B : \A u \in B : u \subseteq s => u = s
  <2> HIDE DEF B
  <2>1. B \in SUBSET (SUBSET S)
    BY DEF B
  <2> QED
    BY <2>1, SmallestSet
<1>2. g[s] = PickOne(f, g, s) /\ h[s] = PickOne(e, h, s)
  BY DEF SumsUp
<1>3. s # {} 
  BY <1>2 DEF PickOne
<1>4. Pick(s) \in s /\ s \ {Pick(s)} \in SUBSET S /\ s \ {Pick(s)} # s
  BY <1>3, PickIn
<1>5. g[s \ {Pick(s)}] = h[s \ {Pick(s)}]
  BY <1>1, <1>4
<1> QED
  BY <1>2, <1>4, <1>5 DEF PickOne

LEMMA SumsUpNat ==
  ASSUME NEW f, NEW g, NEW S, IsFiniteSet(S), SumsUp(f, g, S),
         \A x \in S : f[x] \in Nat, NEW s \in SUBSET S
  PROVE  g[s] \in Nat
<1> DEFINE B == {u \in SUBSET S : g[u] \notin Nat}
<1> SUFFICES ASSUME B # {}
             PROVE  FALSE
  OBVIOUS
<1>1. PICK b \in B : \A u \in B : u \subseteq b => u = b
  <2> HIDE DEF B
  <2>1. B \in SUBSET (SUBSET S)
    BY DEF B
  <2> QED
    BY <2>1, SmallestSet
<1>2. g[b] = PickOne(f, g, b)
  BY DEF SumsUp
<1>3. b # {}
  BY <1>2 DEF PickOne
<1>4. Pick(b) \in b /\ b \ {Pick(b)} \in SUBSET S /\ b \ {Pick(b)} # b
  BY <1>3, PickIn
<1>5. g[b \ {Pick(b)}] \in Nat
  BY <1>1, <1>4
<1>6. f[Pick(b)] \in Nat
  BY <1>4
<1> QED
  BY <1>2, <1>3, <1>5, <1>6 DEF PickOne

\* The order in which the elements are picked does not matter.
LEMMA SumsUpAny ==
  ASSUME NEW f, NEW g, NEW S, IsFiniteSet(S), SumsUp(f, g, S),
         \A x \in S : f[x] \in Nat, NEW x \in S
  PROVE  g[S] = f[x] + g[S \ {x}]
<1> DEFINE B == {u \in SUBSET S : \E y \in u : g[u] # f[y] + g[u \ {y}]}
<1> SUFFICES ASSUME B # {}
             PROVE  FALSE
  OBVIOUS
<1>1. PICK b \in B : \A u \in B : u \subseteq b => u = b
  <2> HIDE DEF B
  <2>1. B \in SUBSET (SUBSET S)
    BY DEF B
  <2> QED
    BY <2>1, SmallestSet
<1>2. PICK y \in b : g[b] # f[y] + g[b \ {y}]
  OBVIOUS
<1> DEFINE p == Pick(b)
<1>3. p \in b /\ b \in SUBSET S
  BY PickIn
<1>4. \A u \in SUBSET S : u # {} => g[u] = f[Pick(u)] + g[u \ {Pick(u)}]
  BY DEF SumsUp, PickOne
<1>5. g[b] = f[p] + g[b \ {p}]
  BY <1>3, <1>4
<1> HIDE DEF p
<1>6. p # y
  BY <1>2, <1>5
<1>7. b \ {p} \notin B /\ b \ {y} \notin B
  BY <1>1, <1>3
<1> DEFINE rest == g[(b \ {p}) \ {y}]
<1>8. g[b \ {p}] = f[y] + rest
  BY <1>3, <1>6, <1>7
<1>9. g[b \ {y}] = f[p] + rest
  <2>1. (b \ {y}) \ {p} = (b \ {p}) \ {y}
    OBVIOUS
  <2>2. g[b \ {y}] = f[p] + g[(b \ {y}) \ {p}]
    BY <1>3, <1>6, <1>7
  <2> QED
    BY <2>1, <2>2
<1>10. f[p] \in Nat /\ f[y] \in Nat /\ rest \in Nat
  BY <1>3, SumsUpNat
<1> HIDE DEF rest
<1> QED
  BY <1>2, <1>5, <1>8, <1>9, <1>10

\* What is used of sums.
LEMMA SumNat ==
  ASSUME NEW f, NEW S, IsFiniteSet(S), \A x \in S : f[x] \in Nat
  PROVE  SumFunctionOnSet(f, S) \in Nat
BY SumIsFold, SumsUpNat

LEMMA SumSame ==
  ASSUME NEW f, NEW e, NEW S, IsFiniteSet(S), \A x \in S : f[x] = e[x]
  PROVE  SumFunctionOnSet(f, S) = SumFunctionOnSet(e, S)
BY SumIsFold, SumsUpSame

LEMMA SumZero ==
  ASSUME NEW f, NEW S, IsFiniteSet(S), \A x \in S : f[x] = 0
  PROVE  SumFunctionOnSet(f, S) = 0
<1>1. PICK g : SumsUp(f, g, S) /\ SumFunctionOnSet(f, S) = g[S]
  BY SumIsFold
<1> DEFINE B == {u \in SUBSET S : g[u] # 0}
<1> SUFFICES ASSUME B # {}
             PROVE  FALSE
  BY <1>1
<1>2. PICK b \in B : \A u \in B : u \subseteq b => u = b
  <2> HIDE DEF B
  <2>1. B \in SUBSET (SUBSET S)
    BY DEF B
  <2> QED
    BY <2>1, SmallestSet
<1>3. g[b] = PickOne(f, g, b)
  BY <1>1 DEF SumsUp
<1>4. b # {}
  BY <1>3 DEF PickOne
<1>5. Pick(b) \in b /\ b \ {Pick(b)} \in SUBSET S /\ b \ {Pick(b)} # b
  BY <1>4, PickIn
<1>6. g[b \ {Pick(b)}] = 0 /\ f[Pick(b)] = 0
  BY <1>2, <1>5
<1> QED
  BY <1>3, <1>4, <1>6 DEF PickOne

LEMMA SumElement ==
  ASSUME NEW f, NEW S, IsFiniteSet(S), \A x \in S : f[x] \in Nat, NEW x \in S
  PROVE  SumFunctionOnSet(f, S) = f[x] + SumFunctionOnSet(f, S \ {x})
<1>1. PICK g : SumsUp(f, g, S) /\ SumFunctionOnSet(f, S) = g[S]
  BY SumIsFold
<1>2. IsFiniteSet(S \ {x})
  BY FS_Subset
<1>3. PICK h : SumsUp(f, h, S \ {x}) /\ SumFunctionOnSet(f, S \ {x}) = h[S \ {x}]
  BY <1>2, SumIsFold
<1>4. h[S \ {x}] = g[S \ {x}]
  BY <1>1, <1>2, <1>3, SumsUpSame
<1> QED
  BY <1>1, <1>3, <1>4, SumsUpAny

LEMMA SumChange ==
  ASSUME NEW f, NEW e, NEW S, IsFiniteSet(S), NEW x \in S,
         \A y \in S : f[y] \in Nat /\ e[y] \in Nat,
         \A y \in S \ {x} : f[y] = e[y]
  PROVE  SumFunctionOnSet(e, S) + f[x] = SumFunctionOnSet(f, S) + e[x]
<1>1. IsFiniteSet(S \ {x})
  BY FS_Subset
<1>2. SumFunctionOnSet(f, S \ {x}) = SumFunctionOnSet(e, S \ {x})
  BY <1>1, SumSame
<1>3. /\ SumFunctionOnSet(f, S) = f[x] + SumFunctionOnSet(f, S \ {x})
      /\ SumFunctionOnSet(e, S) = e[x] + SumFunctionOnSet(e, S \ {x})
  BY SumElement
<1>4. SumFunctionOnSet(f, S \ {x}) \in Nat
  BY <1>1, SumNat
<1>5. f[x] \in Nat /\ e[x] \in Nat
  OBVIOUS
<1> QED
  BY <1>2, <1>3, <1>4, <1>5

\* One number grows, or is new: the sum does not go down.
LEMMA SumGrows ==
  ASSUME NEW f, NEW e, NEW S, IsFiniteSet(S), NEW x, NEW T,
         S \subseteq T, T \subseteq S \cup {x},
         \A y \in S : f[y] \in Nat /\ e[y] >= f[y],
         \A y \in T : e[y] \in Nat,
         \A y \in S \ {x} : f[y] = e[y]
  PROVE  SumFunctionOnSet(e, T) >= SumFunctionOnSet(f, S)
<1>1. SumFunctionOnSet(f, S) \in Nat /\ SumFunctionOnSet(e, S) \in Nat
  BY SumNat
<1>2. CASE x \in S
  <2>1. T = S
    BY <1>2
  <2>2. SumFunctionOnSet(e, S) + f[x] = SumFunctionOnSet(f, S) + e[x]
    BY <1>2, SumChange
  <2>3. e[x] \in Nat /\ f[x] \in Nat /\ e[x] >= f[x]
    BY <1>2
  <2> QED
    BY <1>1, <2>1, <2>2, <2>3
<1>3. CASE x \notin S
  <2>1. SumFunctionOnSet(f, S) = SumFunctionOnSet(e, S)
    BY <1>3, SumSame
  <2>2. CASE T = S
    BY <1>1, <2>1, <2>2
  <2>3. CASE T # S
    <3>1. x \in T /\ T \ {x} = S
      BY <1>3, <2>3
    <3>2. IsFiniteSet(T)
      BY <3>1, FS_AddElement
    <3>3. SumFunctionOnSet(e, T) = e[x] + SumFunctionOnSet(e, S)
      BY <3>1, <3>2, SumElement
    <3>4. e[x] \in Nat
      BY <3>1
    <3> QED
      BY <1>1, <2>1, <3>3, <3>4
  <2> QED
    BY <2>2, <2>3
<1> QED
  BY <1>2, <1>3

-----------------------------------------------------------------------------
\* Lemmas about the graph and the names.

LEMMA NodeFacts ==
  ASSUME NEW n \in Nodes
  PROVE  /\ NODE_MAP[n].dependencies \in SUBSET Nodes
         /\ NODE_MAP[n].condition \in Conditions
         /\ NODE_MAP[n].approval_gate \in BOOLEAN
         /\ NODE_MAP[n].mutating \in BOOLEAN
BY GraphType DEF GraphType, WorkflowNode

LEMMA StatusNames ==
  {"PENDING", "RUNNING", "SUCCESS", "SKIPPED", "SAFE_STOP", "WAITING_APPROVAL",
   "ROLLED_BACK", "FAILED"} \subseteq NodeStatus
BY DEF NodeStatus

\* What a step on node n leaves alone: the inputs, the plan and the approvals
\* of the run, and the status of every other node.
Local(run, new, n) ==
  /\ new \in WorkflowRun
  /\ new.requirement   = run.requirement
  /\ new.scenario_type = run.scenario_type
  /\ new.metadata      = run.metadata
  /\ new.plan_version  = run.plan_version
  /\ \A m \in Nodes \ {n} : /\ Status(new, m) = Status(run, m)
                            /\ new.approvals[m] = run.approvals[m]

\* What a step leaves alone that only keeps the books of the run.
Untouched(run, new) ==
  /\ new \in WorkflowRun
  /\ new.requirement   = run.requirement
  /\ new.scenario_type = run.scenario_type
  /\ new.metadata      = run.metadata
  /\ new.plan_version  = run.plan_version
  /\ new.nodes         = run.nodes
  /\ new.artifacts     = run.artifacts
  /\ new.approvals     = run.approvals

-----------------------------------------------------------------------------
\* Effects of the operators.

LEMMA SetNodeEffect ==
  ASSUME NEW run \in WorkflowRun, NEW n \in Nodes, NEW e \in NodeExecution
  PROVE  /\ Local(run, SetNode(run, n, e), n)
         /\ Status(SetNode(run, n, e), n) = e.status
         /\ SetNode(run, n, e).artifacts = run.artifacts
         /\ SetNode(run, n, e).approvals = run.approvals
BY DEF SetNode, Local, Status, WorkflowRun

LEMMA SetStatusEffect ==
  ASSUME NEW run \in WorkflowRun, NEW n \in Nodes, NEW s \in NodeStatus
  PROVE  /\ Local(run, SetStatus(run, n, s), n)
         /\ Status(SetStatus(run, n, s), n) = s
         /\ SetStatus(run, n, s).artifacts = run.artifacts
         /\ SetStatus(run, n, s).approvals = run.approvals
<1> DEFINE e == [run.nodes[n] EXCEPT !.status = s]
<1>1. e \in NodeExecution /\ e.status = s
  BY DEF WorkflowRun, NodeExecution
<1> HIDE DEF e
<1>2. SetStatus(run, n, s) = SetNode(run, n, e)
  BY DEF e, SetStatus
<1> QED
  BY <1>1, <1>2, SetNodeEffect

LEMMA StartNodeEffect ==
  ASSUME NEW run \in WorkflowRun, NEW n \in Nodes
  PROVE  /\ Local(run, StartNode(run, n), n)
         /\ Status(StartNode(run, n), n) = "RUNNING"
         /\ StartNode(run, n).artifacts = run.artifacts
         /\ StartNode(run, n).approvals = run.approvals
<1> DEFINE e == [run.nodes[n] EXCEPT !.status = "RUNNING", !.attempts = 1]
<1>1. e \in NodeExecution /\ e.status = "RUNNING"
  BY DEF WorkflowRun, NodeExecution, NodeStatus
<1> HIDE DEF e
<1>2. StartNode(run, n) = SetNode(run, n, e)
  BY DEF e, StartNode
<1> QED
  BY <1>1, <1>2, SetNodeEffect

LEMMA NextAttemptEffect ==
  ASSUME NEW run \in WorkflowRun, NEW n \in Nodes
  PROVE  /\ Local(run, NextAttempt(run, n), n)
         /\ Status(NextAttempt(run, n), n) = Status(run, n)
         /\ NextAttempt(run, n).artifacts = run.artifacts
         /\ NextAttempt(run, n).approvals = run.approvals
<1> DEFINE e == [run.nodes[n] EXCEPT !.attempts = @ + 1]
<1>1. e \in NodeExecution /\ e.status = Status(run, n)
  BY DEF WorkflowRun, NodeExecution, Status
<1> HIDE DEF e
<1>2. NextAttempt(run, n) = SetNode(run, n, e)
  BY DEF e, NextAttempt
<1> QED
  BY <1>1, <1>2, SetNodeEffect

LEMMA StoreResultEffect ==
  ASSUME NEW run \in WorkflowRun, NEW n \in Nodes, NEW c \in BOOLEAN
  PROVE  LET new == StoreResult(run, n, c)
         IN  /\ Local(run, new, n)
             /\ new.nodes = run.nodes
             /\ new.approvals = run.approvals
             /\ new.artifacts[n].plan = run.plan_version
             /\ \A m \in Nodes \ {n} : new.artifacts[m] = run.artifacts[m]
<1> DEFINE x == [plan           |-> run.plan_version,
                 critical       |-> c,
                 open_questions |-> OpenQuestions(run, n)]
           d == IF n \in Deciders
                THEN run.decisions \cup {<<n, run.plan_version>>} ELSE run.decisions
<1>1. OpenQuestions(run, n) \in BOOLEAN /\ run.plan_version \in Nat
  BY DEF OpenQuestions, WorkflowRun
<1>2. x \in Artifact /\ x.plan = run.plan_version
  BY <1>1 DEF Artifact
<1>3. d \in SUBSET (Nodes \X Nat)
  BY <1>1 DEF WorkflowRun
<1>4. StoreResult(run, n, c) = [run EXCEPT !.artifacts[n] = x, !.decisions = d]
  BY DEF StoreResult
<1> HIDE DEF x, d
<1> DEFINE as == [run.artifacts EXCEPT ![n] = x]
           a  == [run EXCEPT !.artifacts = as]
<1>5. /\ as \in [Nodes -> Artifact]
      /\ as[n] = x
      /\ \A m \in Nodes \ {n} : as[m] = run.artifacts[m]
  BY <1>2 DEF WorkflowRun
<1>6. StoreResult(run, n, c) = [a EXCEPT !.decisions = d]
  BY <1>4 DEF WorkflowRun
<1> HIDE DEF as
<1>7. a \in WorkflowRun /\ a.artifacts = as
  BY <1>5 DEF WorkflowRun
<1>8. Local(run, a, n) /\ a.nodes = run.nodes /\ a.approvals = run.approvals
  BY <1>5 DEF Local, Status, WorkflowRun
<1> HIDE DEF a
<1>9. Untouched(a, [a EXCEPT !.decisions = d])
  BY <1>3, <1>7 DEF Untouched, WorkflowRun
<1> QED
  BY <1>2, <1>5, <1>6, <1>7, <1>8, <1>9 DEF Local, Untouched, Status

LEMMA AcceptResultEffect ==
  ASSUME NEW run \in WorkflowRun, NEW n \in Nodes
  PROVE  LET new == AcceptResult(run, n)
         IN  /\ Local(run, new, n)
             /\ Status(new, n) = "SUCCESS"
             /\ new.approvals = run.approvals
             /\ new.artifacts[n].plan = run.plan_version
             /\ \A m \in Nodes \ {n} : new.artifacts[m] = run.artifacts[m]
<1> DEFINE a == StoreResult(run, n, FALSE)
           b == SetStatus(a, n, "SUCCESS")
<1>1. /\ Local(run, a, n)
      /\ a.approvals = run.approvals
      /\ a.artifacts[n].plan = run.plan_version
      /\ \A m \in Nodes \ {n} : a.artifacts[m] = run.artifacts[m]
  BY StoreResultEffect
<1>2. a \in WorkflowRun
  BY <1>1 DEF Local
<1>3. /\ Local(a, b, n)
      /\ Status(b, n) = "SUCCESS"
      /\ b.artifacts = a.artifacts
      /\ b.approvals = a.approvals
  <2> HIDE DEF a
  <2> QED
    BY <1>2, SetStatusEffect, StatusNames
<1>4. AcceptResult(run, n) = NoteRecovery(b)
  BY DEF AcceptResult
<1> HIDE DEF a, b
<1>5. /\ NoteRecovery(b) \in WorkflowRun
      /\ NoteRecovery(b) = [b EXCEPT !.recovered_at = @ \/ b.first_failure_at # NoNode]
  BY <1>3 DEF Local, NoteRecovery, WorkflowRun
<1> QED
  BY <1>1, <1>3, <1>4, <1>5 DEF Local, Status, WorkflowRun

LEMMA AcceptFallbackEffect ==
  ASSUME NEW run \in WorkflowRun, NEW n \in Nodes, NEW c \in BOOLEAN
  PROVE  LET new == AcceptFallback(run, n, c)
         IN  /\ Local(run, new, n)
             /\ Status(new, n) = "SUCCESS"
             /\ new.approvals = run.approvals
             /\ new.artifacts[n].plan = run.plan_version
             /\ \A m \in Nodes \ {n} : new.artifacts[m] = run.artifacts[m]
<1> DEFINE a == StoreResult(run, n, c)
           e == [run.nodes[n] EXCEPT !.status = "SUCCESS", !.used_fallback = TRUE]
<1>1. /\ Local(run, a, n)
      /\ a.approvals = run.approvals
      /\ a.artifacts[n].plan = run.plan_version
      /\ \A m \in Nodes \ {n} : a.artifacts[m] = run.artifacts[m]
  BY StoreResultEffect
<1>2. a \in WorkflowRun
  BY <1>1 DEF Local
<1>3. e \in NodeExecution /\ e.status = "SUCCESS"
  BY DEF WorkflowRun, NodeExecution, NodeStatus
<1>4. AcceptFallback(run, n, c) = SetNode(a, n, e)
  BY DEF AcceptFallback
<1> HIDE DEF a, e
<1> QED
  BY <1>1, <1>2, <1>3, <1>4, SetNodeEffect DEF Local

LEMMA BookkeepingEffect ==
  ASSUME NEW run \in WorkflowRun
  PROVE  /\ \A n \in Nodes : Untouched(run, NoteFailure(run, n))
         /\ Untouched(run, CountRetry(run))
         /\ \A s \in RunStatus : /\ Untouched(run, SetRunStatus(run, s))
                                /\ Untouched(run, EndWith(run, s))
<1>1. ASSUME NEW n \in Nodes
      PROVE  Untouched(run, NoteFailure(run, n))
  <2>1. (IF run.first_failure_at = NoNode THEN n ELSE run.first_failure_at)
          \in Nodes \cup {NoNode}
    BY DEF WorkflowRun
  <2> QED
    BY <2>1 DEF Untouched, NoteFailure, WorkflowRun
<1>2. Untouched(run, CountRetry(run))
  BY DEF Untouched, CountRetry, WorkflowRun
<1>3. ASSUME NEW s \in RunStatus
      PROVE  Untouched(run, SetRunStatus(run, s)) /\ Untouched(run, EndWith(run, s))
  BY DEF Untouched, SetRunStatus, EndWith, WorkflowRun
<1> QED
  BY <1>1, <1>2, <1>3

\* A failed attempt that will be repeated.
LEMMA RetryEffect ==
  ASSUME NEW run \in WorkflowRun, NEW n \in Nodes
  PROVE  Untouched(run, CountRetry(NoteFailure(run, n)))
BY BookkeepingEffect DEF Untouched

\* Giving a node up, and stopping it, change no artifact when the artifacts
\* are those of the snapshot.
LEMMA RestoreSnapshotEffect ==
  ASSUME NEW run \in WorkflowRun, NEW n \in Nodes, NEW artifacts,
         n \in Mutating => artifacts = run.artifacts
  PROVE  Untouched(run, RestoreSnapshot(run, n, artifacts))
<1>1. CASE n \in Mutating
  <2>1. run.rollback_count + 1 \in Nat
    BY DEF WorkflowRun
  <2>2. RestoreSnapshot(run, n, artifacts)
          = [run EXCEPT !.rollback_count = run.rollback_count + 1]
    BY <1>1 DEF RestoreSnapshot, WorkflowRun
  <2> QED
    BY <2>1, <2>2 DEF Untouched, WorkflowRun
<1>2. CASE n \notin Mutating
  BY <1>2 DEF RestoreSnapshot, Untouched
<1> QED
  BY <1>1, <1>2

LEMMA PolicyStopEffect ==
  ASSUME NEW run \in WorkflowRun, NEW n \in Nodes, NEW artifacts,
         n \in Mutating => artifacts = run.artifacts
  PROVE  LET new == PolicyStop(run, n, artifacts)
         IN  /\ Local(run, new, n)
             /\ Status(new, n) = "SAFE_STOP"
             /\ new.artifacts = run.artifacts
             /\ new.approvals = run.approvals
<1> DEFINE a == SetStatus(run, n, "SAFE_STOP")
<1>1. /\ Local(run, a, n)
      /\ Status(a, n) = "SAFE_STOP"
      /\ a.artifacts = run.artifacts
      /\ a.approvals = run.approvals
  BY SetStatusEffect DEF NodeStatus
<1>2. Untouched(a, RestoreSnapshot(a, n, artifacts))
  BY <1>1, RestoreSnapshotEffect DEF Local
<1>3. PolicyStop(run, n, artifacts) = RestoreSnapshot(a, n, artifacts)
  BY DEF PolicyStop
<1> HIDE DEF a
<1> QED
  BY <1>1, <1>2, <1>3 DEF Local, Untouched, Status

LEMMA GiveUpEffect ==
  ASSUME NEW run \in WorkflowRun, NEW n \in Nodes, NEW artifacts,
         n \in Mutating => artifacts = run.artifacts
  PROVE  LET new == GiveUp(run, n, artifacts)
         IN  /\ Local(run, new, n)
             /\ Status(new, n) = GiveUpStatus(n)
             /\ Status(new, n) \in {"ROLLED_BACK", "FAILED"}
             /\ new.artifacts = run.artifacts
             /\ new.approvals = run.approvals
<1> DEFINE a == SetStatus(run, n, GiveUpStatus(n))
<1>1. GiveUpStatus(n) \in {"ROLLED_BACK", "FAILED"} \cap NodeStatus
  BY DEF GiveUpStatus, NodeStatus
<1>2. /\ Local(run, a, n)
      /\ Status(a, n) = GiveUpStatus(n)
      /\ a.artifacts = run.artifacts
      /\ a.approvals = run.approvals
  BY <1>1, SetStatusEffect
<1>3. Untouched(a, RestoreSnapshot(a, n, artifacts))
  BY <1>2, RestoreSnapshotEffect DEF Local
<1>4. GiveUp(run, n, artifacts) = RestoreSnapshot(a, n, artifacts)
  BY DEF GiveUp
<1> HIDE DEF a
<1> QED
  BY <1>1, <1>2, <1>3, <1>4 DEF Local, Untouched, Status

LEMMA RequestApprovalEffect ==
  ASSUME NEW run \in WorkflowRun, NEW n \in Nodes
  PROVE  LET new == RequestApproval(run, n)
         IN  /\ Local(run, new, n)
             /\ Status(new, n) = "WAITING_APPROVAL"
             /\ new.artifacts = run.artifacts
             /\ new.approvals = run.approvals
<1> DEFINE a == SetStatus(run, n, "WAITING_APPROVAL")
<1>1. /\ Local(run, a, n)
      /\ Status(a, n) = "WAITING_APPROVAL"
      /\ a.artifacts = run.artifacts
      /\ a.approvals = run.approvals
  BY SetStatusEffect DEF NodeStatus
<1>2. Untouched(a, SetRunStatus(a, "WAITING_APPROVAL"))
  BY <1>1, BookkeepingEffect DEF Local, RunStatus
<1>3. RequestApproval(run, n) = SetRunStatus(a, "WAITING_APPROVAL")
  BY DEF RequestApproval
<1> HIDE DEF a
<1> QED
  BY <1>1, <1>2, <1>3 DEF Local, Untouched, Status

LEMMA RecordApprovalEffect ==
  ASSUME NEW run \in WorkflowRun, NEW g \in Nodes, NEW answer \in BOOLEAN
  PROVE  LET new == RecordApproval(run, g, answer)
         IN  /\ Local(run, new, g)
             /\ new.nodes = run.nodes
             /\ new.artifacts = run.artifacts
             /\ new.approvals[g] = [plan |-> run.plan_version, approved |-> answer]
BY DEF RecordApproval, Local, Status, WorkflowRun, ApprovalDecision

LEMMA ApproveGateEffect ==
  ASSUME NEW run \in WorkflowRun, NEW g \in Nodes
  PROVE  LET new == ApproveGate(run, g)
         IN  /\ Local(run, new, g)
             /\ Status(new, g) = "SUCCESS"
             /\ new.artifacts = run.artifacts
             /\ new.approvals[g] = [plan |-> run.plan_version, approved |-> TRUE]
<1> DEFINE a == RecordApproval(run, g, TRUE)
           b == SetStatus(a, g, "SUCCESS")
<1>1. /\ Local(run, a, g)
      /\ a.artifacts = run.artifacts
      /\ a.approvals[g] = [plan |-> run.plan_version, approved |-> TRUE]
  BY RecordApprovalEffect
<1>2. /\ Local(a, b, g)
      /\ Status(b, g) = "SUCCESS"
      /\ b.artifacts = a.artifacts
      /\ b.approvals = a.approvals
  <2> HIDE DEF a
  <2> QED
    BY <1>1, SetStatusEffect, StatusNames DEF Local
<1>3. Untouched(b, SetRunStatus(b, "RUNNING"))
  BY <1>2, BookkeepingEffect DEF Local, RunStatus
<1>4. ApproveGate(run, g) = SetRunStatus(b, "RUNNING")
  BY DEF ApproveGate
<1> HIDE DEF a, b
<1> QED
  BY <1>1, <1>2, <1>3, <1>4 DEF Local, Untouched, Status

LEMMA RejectGateEffect ==
  ASSUME NEW run \in WorkflowRun, NEW g \in Nodes
  PROVE  LET new == RejectGate(run, g)
         IN  /\ Local(run, new, g)
             /\ Status(new, g) = "SAFE_STOP"
             /\ new.artifacts = run.artifacts
             /\ new.approvals[g] = [plan |-> run.plan_version, approved |-> FALSE]
<1> DEFINE a == RecordApproval(run, g, FALSE)
           b == SetStatus(a, g, "SAFE_STOP")
<1>1. /\ Local(run, a, g)
      /\ a.artifacts = run.artifacts
      /\ a.approvals[g] = [plan |-> run.plan_version, approved |-> FALSE]
  BY RecordApprovalEffect
<1>2. /\ Local(a, b, g)
      /\ Status(b, g) = "SAFE_STOP"
      /\ b.artifacts = a.artifacts
      /\ b.approvals = a.approvals
  <2> HIDE DEF a
  <2> QED
    BY <1>1, SetStatusEffect, StatusNames DEF Local
<1>3. Untouched(b, EndWith(b, "SAFE_STOP"))
  BY <1>2, BookkeepingEffect DEF Local, RunStatus
<1>4. RejectGate(run, g) = EndWith(b, "SAFE_STOP")
  BY DEF RejectGate
<1> HIDE DEF a, b
<1> QED
  BY <1>1, <1>2, <1>3, <1>4 DEF Local, Untouched, Status

\* A new run, and a run that is planned again, start from nothing.
Fresh(run) ==
  /\ run \in WorkflowRun
  /\ \A n \in Nodes : /\ Status(run, n) = "PENDING"
                     /\ run.artifacts[n] = NoArtifact

LEMMA NewRunFresh ==
  ASSUME NEW requirement \in SUBSET RequirementTraits,
         NEW scenario_type \in ScenarioTypes,
         NEW metadata \in SUBSET MetadataFlags
  PROVE  Fresh(NewRun(requirement, scenario_type, metadata))
BY DEF Fresh, Status, NewRun, WorkflowRun, NewExecution, NodeExecution,
       NodeStatus, RunStatus, NoArtifact, Artifact, NoApproval, ApprovalDecision

LEMMA ReplanRunFresh ==
  ASSUME NEW run \in WorkflowRun, NEW requirement \in SUBSET RequirementTraits
  PROVE  Fresh(ReplanRun(run, requirement))
<1>1. Affected = Nodes
  BY RootCovers DEF RootCovers, Affected
<1> DEFINE ns == [n \in Nodes |-> NewExecution]
           as == [n \in Nodes |-> NoArtifact]
           ps == [n \in Nodes |-> NoApproval]
<1>2. ReplanRun(run, requirement)
        = [run EXCEPT !.requirement = requirement, !.plan_version = @ + 1,
                      !.status = "RUNNING", !.completed_at = FALSE,
                      !.nodes = ns, !.artifacts = as, !.approvals = ps]
  BY <1>1 DEF ReplanRun, NewPlan
<1>3. /\ ns \in [Nodes -> NodeExecution]
      /\ as \in [Nodes -> Artifact]
      /\ ps \in [Nodes -> ApprovalDecision]
  BY DEF NewExecution, NodeExecution, NodeStatus, NoArtifact, Artifact, NoApproval,
         ApprovalDecision
<1>4. \A n \in Nodes : ns[n].status = "PENDING" /\ as[n] = NoArtifact
  BY DEF NewExecution
<1> HIDE DEF ns, as, ps
<1> DEFINE a == [run EXCEPT !.requirement = requirement, !.completed_at = FALSE]
           b == [a EXCEPT !.plan_version = run.plan_version + 1, !.status = "RUNNING"]
           c == [b EXCEPT !.nodes = ns]
           d == [c EXCEPT !.artifacts = as]
           e == [d EXCEPT !.approvals = ps]
<1>5. ReplanRun(run, requirement) = e
  BY <1>2 DEF WorkflowRun
<1>6. a \in WorkflowRun
  BY DEF WorkflowRun
<1> HIDE DEF a
<1>7. run.plan_version + 1 \in Nat /\ "RUNNING" \in RunStatus
  BY DEF WorkflowRun, RunStatus
<1>8. b \in WorkflowRun
  BY <1>6, <1>7 DEF WorkflowRun
<1> HIDE DEF b
<1>9. c \in WorkflowRun /\ c.nodes = ns
  BY <1>3, <1>8 DEF WorkflowRun
<1> HIDE DEF c
<1>10. d \in WorkflowRun /\ d.nodes = ns /\ d.artifacts = as
  BY <1>3, <1>9 DEF WorkflowRun
<1> HIDE DEF d
<1>11. e \in WorkflowRun /\ e.nodes = ns /\ e.artifacts = as
  BY <1>3, <1>10 DEF WorkflowRun
<1> QED
  BY <1>4, <1>5, <1>11 DEF Fresh, Status

-----------------------------------------------------------------------------

(***************************************************************************)
(* Soundness: what every copy of a run satisfies at every moment.  The     *)
(* three properties are proved together because each needs the others: a   *)
(* decision on a gate stands while the conditions it rests on do, those    *)
(* rest on an artifact, and an artifact is written only by a node upstream *)
(* of which everything is done and downstream of which nothing has begun.  *)
(***************************************************************************)
GatesDecided(run) ==
  \A g \in Gates : Status(run, g) \in Acceptable => GateOpen(run, g)

SkipsDue(run) ==
  \A n \in Nodes : Status(run, n) = "SKIPPED" => ~ConditionHolds(run, n)

Sound(run) ==
  /\ run \in WorkflowRun
  /\ OrderRespected(run)
  /\ GatesDecided(run)
  /\ SkipsDue(run)
  /\ ArtifactsMatch(run)

\* Nothing downstream of a node that is not done can start, or has started.
LEMMA DownstreamBlocked ==
  ASSUME NEW run \in WorkflowRun, OrderRespected(run),
         NEW b \in Nodes, Status(run, b) \notin Acceptable,
         NEW n \in Descendants[b]
  PROVE  /\ n \in Nodes
         /\ ~DependenciesSatisfied(run, n)
         /\ Status(run, n) = "PENDING"
<1> DEFINE S == {x \in Nodes : ~DependenciesSatisfied(run, x)}
<1>1. DOMAIN Deps = Nodes /\ \A x \in Nodes : Deps[x] = NODE_MAP[x].dependencies
  BY DEF Deps
<1>2. \A x \in S \cup {b} : Status(run, x) \notin Acceptable
  BY DEF OrderRespected, Started, Acceptable
<1>3. Children(Deps, S \cup {b}) \subseteq S
  BY <1>1, <1>2 DEF Children, DependenciesSatisfied
<1>4. S \in ClosedSets(Deps, b)
  BY <1>1, <1>3 DEF ClosedSets
<1>5. n \in DescendantsIn(Deps, b)
  BY DEF Descendants
<1> HIDE DEF S
<1>6. n \in S
  BY <1>4, <1>5 DEF DescendantsIn
<1> QED
  BY <1>6 DEF S, OrderRespected, Started

LEMMA FreshSound ==
  ASSUME NEW run, Fresh(run)
  PROVE  Sound(run)
BY DEF Fresh, Sound, OrderRespected, Started, GatesDecided, SkipsDue, Gates, Acceptable,
       ArtifactsMatch

LEMMA UntouchedSound ==
  ASSUME NEW run, NEW new, Sound(run), Untouched(run, new)
  PROVE  Sound(new)
<1>1. \A n \in Nodes : Status(new, n) = Status(run, n)
  BY DEF Untouched, Status
<1>2. \A n \in Nodes : DependenciesSatisfied(new, n) = DependenciesSatisfied(run, n)
  BY DEF Untouched, Status, DependenciesSatisfied
<1>3. \A n \in Nodes : ConditionHolds(new, n) = ConditionHolds(run, n)
  BY DEF Untouched, ConditionHolds, HasOpenQuestions, IsBrownfield, IsHighImpact
<1>4. OrderRespected(new)
  BY <1>1, <1>2 DEF Sound, OrderRespected, Started
<1>5. GatesDecided(new)
  BY <1>1, <1>3 DEF Sound, GatesDecided, GateOpen, Gates, Untouched
<1>6. ArtifactsMatch(new)
  BY <1>1 DEF Sound, ArtifactsMatch, Untouched
<1>7. SkipsDue(new)
  BY <1>1, <1>3 DEF Sound, SkipsDue
<1> QED
  BY <1>4, <1>5, <1>6, <1>7 DEF Sound, Untouched

\* A node that is not done may change its status once its dependencies are.
LEMMA LocalOrder ==
  ASSUME NEW run \in WorkflowRun, OrderRespected(run),
         NEW n \in Nodes, NEW new, Local(run, new, n),
         Status(run, n) \notin Acceptable, DependenciesSatisfied(run, n)
  PROVE  OrderRespected(new)
<1> SUFFICES ASSUME NEW m \in Nodes, Started(new, m),
                    NEW d \in NODE_MAP[m].dependencies
             PROVE  Status(new, d) \in Acceptable
  BY DEF OrderRespected, DependenciesSatisfied
<1>1. DependenciesSatisfied(run, m)
  BY DEF Local, Started, OrderRespected
<1>2. d \in Nodes /\ d # n
  BY <1>1, NodeFacts DEF DependenciesSatisfied
<1> QED
  BY <1>1, <1>2 DEF DependenciesSatisfied, Local

\* The condition of a node changes with the artifact of the first node only.
LEMMA LocalCondition ==
  ASSUME NEW run, NEW n \in Nodes, NEW new, Local(run, new, n),
         new.artifacts[RU] = run.artifacts[RU],
         NEW m \in Nodes
  PROVE  ConditionHolds(new, m) = ConditionHolds(run, m)
BY DEF Local, ConditionHolds, HasOpenQuestions, IsBrownfield, IsHighImpact

\* A step on a node that is not done and produces no artifact.
LEMMA LocalSound ==
  ASSUME NEW run, Sound(run), NEW n \in Nodes, NEW new, Local(run, new, n),
         Status(run, n) \notin Acceptable, DependenciesSatisfied(run, n),
         new.artifacts = run.artifacts,
         Status(new, n) = "SUCCESS" => n \in Gates,
         n \in Gates /\ Status(new, n) \in Acceptable => GateOpen(new, n),
         Status(new, n) = "SKIPPED" => ~ConditionHolds(run, n)
  PROVE  Sound(new)
<1>1. OrderRespected(new)
  BY LocalOrder DEF Sound
<1>2. GatesDecided(new)
  <2> SUFFICES ASSUME NEW g \in Gates, Status(new, g) \in Acceptable, g # n
               PROVE  GateOpen(new, g)
    BY DEF GatesDecided
  <2>1. g \in Nodes /\ GateOpen(run, g)
    BY DEF Gates, Local, Sound, GatesDecided
  <2>2. ConditionHolds(new, g) = ConditionHolds(run, g)
    BY <2>1, LocalCondition
  <2> QED
    BY <2>1, <2>2 DEF GateOpen, Local
<1>3. ArtifactsMatch(new)
  BY DEF Sound, ArtifactsMatch, Local, Acceptable, Agents
<1>4. SkipsDue(new)
  <2>1. RU \in Nodes
    BY GraphType DEF GraphType
  <2>2. \A m \in Nodes : ConditionHolds(new, m) = ConditionHolds(run, m)
    BY <2>1, LocalCondition
  <2> QED
    BY <2>2 DEF Sound, SkipsDue, Local
<1> QED
  BY <1>1, <1>2, <1>3, <1>4 DEF Sound, Local

\* A step in which an agent that was not done delivers its artifact.
LEMMA DeliverySound ==
  ASSUME NEW run, Sound(run), NEW n \in Agents, NEW new, Local(run, new, n),
         Status(run, n) \notin Acceptable, DependenciesSatisfied(run, n),
         Status(new, n) = "SUCCESS",
         new.artifacts[n].plan = run.plan_version,
         \A m \in Nodes \ {n} : new.artifacts[m] = run.artifacts[m]
  PROVE  Sound(new)
<1>1. n \in Nodes
  BY DEF Agents
<1>2. OrderRespected(new)
  BY <1>1, LocalOrder DEF Sound
<1>3. ASSUME NEW m \in Nodes \ {n}, Status(new, m) \in Acceptable
      PROVE  /\ Status(run, m) = Status(new, m)
             /\ ConditionHolds(new, m) = ConditionHolds(run, m)
  <2>1. Status(run, m) = Status(new, m)
    BY DEF Local
  <2>2. n # RU
    <3>1. m # RU => m \in Descendants[RU]
      BY RootCovers DEF RootCovers
    <3> QED
      BY <1>1, <1>3, <2>1, <3>1, DownstreamBlocked DEF Sound, Acceptable
  <2>3. RU \in Nodes
    BY GraphType DEF GraphType
  <2>4. new.artifacts[RU] = run.artifacts[RU]
    BY <2>2, <2>3
  <2> QED
    BY <1>1, <2>1, <2>4, LocalCondition
<1>4. GatesDecided(new)
  <2> SUFFICES ASSUME NEW g \in Gates, Status(new, g) \in Acceptable
               PROVE  GateOpen(new, g)
    BY DEF GatesDecided
  <2>1. g \in Nodes \ {n}
    BY DEF Gates, Agents
  <2>2. /\ Status(run, g) = Status(new, g)
        /\ ConditionHolds(new, g) = ConditionHolds(run, g)
    BY <1>3, <2>1
  <2>3. GateOpen(run, g)
    BY <2>2 DEF Sound, GatesDecided
  <2> QED
    BY <2>1, <2>2, <2>3 DEF GateOpen, Local
<1>5. SkipsDue(new)
  <2> SUFFICES ASSUME NEW m \in Nodes, Status(new, m) = "SKIPPED"
               PROVE  ~ConditionHolds(new, m)
    BY DEF SkipsDue
  <2>1. m # n
    OBVIOUS
  <2>2. /\ Status(run, m) = Status(new, m)
        /\ ConditionHolds(new, m) = ConditionHolds(run, m)
    BY <1>3, <2>1 DEF Acceptable
  <2> QED
    BY <2>2 DEF Sound, SkipsDue
<1>6. ArtifactsMatch(new)
  BY <1>1 DEF Sound, ArtifactsMatch, Local
<1> QED
  BY <1>2, <1>4, <1>5, <1>6 DEF Sound, Local

\* In a sound run no gate is outrun.
LEMMA SoundGates ==
  ASSUME NEW run, Sound(run)
  PROVE  GatesRespected(run)
<1> SUFFICES ASSUME NEW g \in Gates, NEW n \in Descendants[g], Started(run, n)
             PROVE  GateOpen(run, g)
  BY DEF GatesRespected
<1>1. g \in Nodes
  BY DEF Gates
<1>2. Status(run, g) \in Acceptable
  BY <1>1, DownstreamBlocked DEF Sound, Started
<1> QED
  BY <1>2 DEF Sound, GatesDecided

-----------------------------------------------------------------------------
(***************************************************************************)
(* Budgets.  Attempts are spent in _execute_node only, one node at a time; *)
(* whatever else happens to a node that has not succeeded leaves them, and *)
(* a failure that was noted stays noted.                                   *)
(***************************************************************************)
Noted(run, new) == run.first_failure_at # NoNode => new.first_failure_at # NoNode

\* Node n has made `spent' attempts in `new', and all else is as it was.
Spends(run, new, n, spent) ==
  /\ new \in WorkflowRun
  /\ Noted(run, new)
  /\ new.nodes[n].attempts = spent
  /\ new.nodes[n].used_fallback = run.nodes[n].used_fallback
  /\ \A m \in Nodes \ {n} : new.nodes[m] = run.nodes[m]

SpendsNothing(run, new, n) == Spends(run, new, n, run.nodes[n].attempts)

LEMMA BudgetFacts ==
  ASSUME NEW n \in Nodes
  PROVE  NODE_MAP[n].max_attempts \in Nat /\ NODE_MAP[n].max_attempts >= 1
BY GraphType DEF GraphType, WorkflowNode

LEMMA SpendsTwice ==
  ASSUME NEW a, NEW b, NEW c, NEW n, SpendsNothing(a, b, n), SpendsNothing(b, c, n)
  PROVE  SpendsNothing(a, c, n)
BY DEF SpendsNothing, Spends, Noted

LEMMA SetNodeSpends ==
  ASSUME NEW run \in WorkflowRun, NEW n \in Nodes, NEW e \in NodeExecution,
         e.used_fallback = run.nodes[n].used_fallback
  PROVE  Spends(run, SetNode(run, n, e), n, e.attempts)
<1> DEFINE new == SetNode(run, n, e)
<1>1. /\ new \in WorkflowRun
      /\ new.first_failure_at = run.first_failure_at
      /\ new.nodes[n] = e
      /\ \A m \in Nodes \ {n} : new.nodes[m] = run.nodes[m]
  BY DEF SetNode, WorkflowRun
<1> HIDE DEF new
<1> QED
  BY <1>1 DEF Spends, Noted, new

LEMMA SetStatusSpends ==
  ASSUME NEW run \in WorkflowRun, NEW n \in Nodes, NEW s \in NodeStatus
  PROVE  SpendsNothing(run, SetStatus(run, n, s), n)
<1> DEFINE e == [run.nodes[n] EXCEPT !.status = s]
<1>1. /\ e \in NodeExecution /\ e.attempts = run.nodes[n].attempts
      /\ e.used_fallback = run.nodes[n].used_fallback
  BY DEF WorkflowRun, NodeExecution
<1>2. SetStatus(run, n, s) = SetNode(run, n, e)
  BY DEF SetStatus
<1> HIDE DEF e
<1> QED
  BY <1>1, <1>2, SetNodeSpends DEF SpendsNothing

LEMMA AttemptSpends ==
  ASSUME NEW run \in WorkflowRun, NEW n \in Nodes
  PROVE  /\ Spends(run, StartNode(run, n), n, 1)
         /\ Spends(run, NextAttempt(run, n), n, run.nodes[n].attempts + 1)
<1> DEFINE first == [run.nodes[n] EXCEPT !.status = "RUNNING", !.attempts = 1]
           next  == [run.nodes[n] EXCEPT !.attempts = @ + 1]
<1>1. /\ first \in NodeExecution /\ first.attempts = 1
      /\ first.used_fallback = run.nodes[n].used_fallback
  BY DEF WorkflowRun, NodeExecution, NodeStatus
<1>2. /\ next \in NodeExecution /\ next.attempts = run.nodes[n].attempts + 1
      /\ next.used_fallback = run.nodes[n].used_fallback
  BY DEF WorkflowRun, NodeExecution
<1>3. StartNode(run, n) = SetNode(run, n, first) /\ NextAttempt(run, n) = SetNode(run, n, next)
  BY DEF StartNode, NextAttempt
<1> HIDE DEF first, next
<1>4. /\ Spends(run, SetNode(run, n, first), n, first.attempts)
      /\ Spends(run, SetNode(run, n, next), n, next.attempts)
  BY <1>1, <1>2, SetNodeSpends
<1> QED
  BY <1>1, <1>2, <1>3, <1>4

LEMMA BooksSpend ==
  ASSUME NEW run, NEW new \in WorkflowRun, NEW n \in Nodes,
         new.nodes = run.nodes, Noted(run, new)
  PROVE  SpendsNothing(run, new, n)
BY DEF SpendsNothing, Spends

\* The entries in the run's books.
LEMMA BooksNoted ==
  ASSUME NEW run \in WorkflowRun, NEW n \in Nodes
  PROVE  /\ NoteFailure(run, n).first_failure_at # NoNode
         /\ Noted(run, CountRetry(run)) /\ Noted(run, NoteRecovery(run))
         /\ \A s \in RunStatus : Noted(run, SetRunStatus(run, s)) /\ Noted(run, EndWith(run, s))
         /\ \A c \in BOOLEAN : Noted(run, StoreResult(run, n, c))
         /\ \A artifacts : Noted(run, RestoreSnapshot(run, n, artifacts))
         /\ \A b \in BOOLEAN : Noted(run, RecordApproval(run, n, b))
BY NoNodeIsNone
DEF NoNodeIsNone, WorkflowRun, Noted, NoteFailure, CountRetry, NoteRecovery, SetRunStatus,
    EndWith, StoreResult, RestoreSnapshot, RecordApproval

LEMMA RestoreSpends ==
  ASSUME NEW run \in WorkflowRun, NEW n \in Nodes, NEW artifacts \in [Nodes -> Artifact]
  PROVE  SpendsNothing(run, RestoreSnapshot(run, n, artifacts), n)
<1> DEFINE new == RestoreSnapshot(run, n, artifacts)
<1>1. new \in WorkflowRun /\ new.nodes = run.nodes
  <2>1. run.rollback_count + 1 \in Nat
    BY DEF WorkflowRun
  <2> QED
    BY <2>1 DEF RestoreSnapshot, WorkflowRun
<1>2. Noted(run, new)
  BY BooksNoted
<1> HIDE DEF new
<1> QED
  BY <1>1, <1>2, BooksSpend DEF new

LEMMA ExecutionSpends ==
  ASSUME NEW run \in WorkflowRun, NEW n \in Nodes, NEW artifacts \in [Nodes -> Artifact]
  PROVE  /\ SpendsNothing(run, AcceptResult(run, n), n)
         /\ SpendsNothing(run, PolicyStop(run, n, artifacts), n)
         /\ SpendsNothing(run, GiveUp(run, n, artifacts), n)
         /\ SpendsNothing(run, NoteFailure(run, n), n)
         /\ SpendsNothing(run, CountRetry(run), n)
<1>1. SpendsNothing(run, AcceptResult(run, n), n)
  <2> DEFINE a == StoreResult(run, n, FALSE)
             b == SetStatus(a, n, "SUCCESS")
  <2>1. a \in WorkflowRun /\ a.nodes = run.nodes /\ Noted(run, a)
    BY StoreResultEffect, BooksNoted DEF Local
  <2>2. SpendsNothing(run, a, n)
    BY <2>1, BooksSpend
  <2>3. AcceptResult(run, n) = NoteRecovery(b)
    BY DEF AcceptResult
  <2> HIDE DEF a
  <2>4. SpendsNothing(a, b, n)
    BY <2>1, SetStatusSpends, StatusNames
  <2> HIDE DEF b
  <2>5. b \in WorkflowRun
    BY <2>4 DEF SpendsNothing, Spends
  <2>6. NoteRecovery(b) \in WorkflowRun /\ NoteRecovery(b).nodes = b.nodes
    <3> DEFINE x == b.recovered_at \/ b.first_failure_at # NoNode
    <3>1. x \in BOOLEAN /\ NoteRecovery(b) = [b EXCEPT !.recovered_at = x]
      BY <2>5 DEF NoteRecovery, WorkflowRun
    <3> HIDE DEF x
    <3> QED
      BY <2>5, <3>1 DEF WorkflowRun
  <2>7. SpendsNothing(b, NoteRecovery(b), n)
    BY <2>5, <2>6, BooksNoted, BooksSpend
  <2> QED
    BY <2>2, <2>3, <2>4, <2>7, SpendsTwice
<1>2. ASSUME NEW s \in NodeStatus
      PROVE  SpendsNothing(run, RestoreSnapshot(SetStatus(run, n, s), n, artifacts), n)
  <2> DEFINE a == SetStatus(run, n, s)
  <2>1. SpendsNothing(run, a, n)
    BY SetStatusSpends
  <2> HIDE DEF a
  <2>2. SpendsNothing(a, RestoreSnapshot(a, n, artifacts), n)
    BY <2>1, RestoreSpends DEF SpendsNothing, Spends
  <2>3. SpendsNothing(run, RestoreSnapshot(a, n, artifacts), n)
    BY <2>1, <2>2, SpendsTwice
  <2> QED
    BY <2>3 DEF a
<1>3. "SAFE_STOP" \in NodeStatus /\ GiveUpStatus(n) \in NodeStatus
  BY DEF NodeStatus, GiveUpStatus
<1>4. ASSUME NEW new, Untouched(run, new), Noted(run, new)
      PROVE  SpendsNothing(run, new, n)
  BY <1>4, BooksSpend DEF Untouched
<1>5. Noted(run, NoteFailure(run, n))
  BY BooksNoted DEF Noted
<1> QED
  BY <1>1, <1>2, <1>3, <1>4, <1>5, BooksNoted, BookkeepingEffect DEF PolicyStop, GiveUp

LEMMA RequestSpends ==
  ASSUME NEW run \in WorkflowRun, NEW n \in Nodes
  PROVE  /\ SpendsNothing(run, RequestApproval(run, n), n)
         /\ SpendsNothing(run, ApproveGate(run, n), n)
         /\ SpendsNothing(run, RejectGate(run, n), n)
<1>1. ASSUME NEW a \in WorkflowRun, NEW s \in {"SUCCESS", "SAFE_STOP", "WAITING_APPROVAL"},
             NEW e \in RunStatus
      PROVE  /\ SpendsNothing(a, SetRunStatus(SetStatus(a, n, s), e), n)
             /\ SpendsNothing(a, EndWith(SetStatus(a, n, s), e), n)
  <2> DEFINE b == SetStatus(a, n, s)
  <2>1. SpendsNothing(a, b, n)
    BY SetStatusSpends, StatusNames
  <2> HIDE DEF b
  <2>2. b \in WorkflowRun
    BY <2>1 DEF SpendsNothing, Spends
  <2>3. Untouched(b, SetRunStatus(b, e)) /\ Untouched(b, EndWith(b, e))
    BY <2>2, BookkeepingEffect
  <2>4. Noted(b, SetRunStatus(b, e)) /\ Noted(b, EndWith(b, e))
    BY <2>2, BooksNoted
  <2>5. SpendsNothing(b, SetRunStatus(b, e), n) /\ SpendsNothing(b, EndWith(b, e), n)
    BY <2>3, <2>4, BooksSpend DEF Untouched
  <2>6. SpendsNothing(a, SetRunStatus(b, e), n) /\ SpendsNothing(a, EndWith(b, e), n)
    BY <2>1, <2>5, SpendsTwice
  <2> QED
    BY <2>6 DEF b
<1>2. ASSUME NEW answer \in BOOLEAN, NEW new, SpendsNothing(RecordApproval(run, n, answer), new, n)
      PROVE  SpendsNothing(run, new, n)
  <2> DEFINE a == RecordApproval(run, n, answer)
  <2>1. a \in WorkflowRun /\ a.nodes = run.nodes /\ Noted(run, a)
    BY RecordApprovalEffect, BooksNoted DEF Local
  <2> HIDE DEF a
  <2>2. SpendsNothing(run, a, n)
    BY <2>1, BooksSpend
  <2>3. SpendsNothing(a, new, n)
    BY <1>2 DEF a
  <2> QED
    BY <2>2, <2>3, SpendsTwice
<1>3. {"RUNNING", "SAFE_STOP", "WAITING_APPROVAL"} \subseteq RunStatus
  BY DEF RunStatus
<1>4. SpendsNothing(run, RequestApproval(run, n), n)
  BY <1>1, <1>3 DEF RequestApproval
<1>5. \A answer \in BOOLEAN : RecordApproval(run, n, answer) \in WorkflowRun
  BY RecordApprovalEffect DEF Local
<1>6. SpendsNothing(run, ApproveGate(run, n), n)
  BY <1>1, <1>2, <1>3, <1>5 DEF ApproveGate
<1>7. SpendsNothing(run, RejectGate(run, n), n)
  BY <1>1, <1>2, <1>3, <1>5 DEF RejectGate
<1> QED
  BY <1>4, <1>6, <1>7

\* A node that has not succeeded may spend up to its budget.
LEMMA SpendsWithin ==
  ASSUME NEW run \in WorkflowRun, NEW new, NEW n \in Nodes, NEW spent,
         WithinBudget(run), Spends(run, new, n, spent),
         spent <= NODE_MAP[n].max_attempts, Status(run, n) # "SUCCESS"
  PROVE  WithinBudget(new)
<1> SUFFICES ASSUME NEW m \in Nodes
             PROVE  /\ new.nodes[m].attempts <= NODE_MAP[m].max_attempts
                    /\ new.nodes[m].used_fallback =>
                         /\ Status(new, m) = "SUCCESS"
                         /\ new.nodes[m].attempts = NODE_MAP[m].max_attempts
                         /\ new.first_failure_at # NoNode
  BY DEF WithinBudget
<1>1. CASE m = n
  BY <1>1 DEF WithinBudget, Spends
<1>2. CASE m # n
  <2>1. new.nodes[m] = run.nodes[m] /\ Noted(run, new)
    BY <1>2 DEF Spends
  <2> QED
    BY <2>1 DEF WithinBudget, Noted, Status
<1> QED
  BY <1>1, <1>2

LEMMA SpendsNothingWithin ==
  ASSUME NEW run \in WorkflowRun, NEW new, NEW n \in Nodes,
         WithinBudget(run), SpendsNothing(run, new, n), Status(run, n) # "SUCCESS"
  PROVE  WithinBudget(new)
<1>1. run.nodes[n].attempts <= NODE_MAP[n].max_attempts
  BY DEF WithinBudget
<1> QED
  BY <1>1, SpendsWithin DEF SpendsNothing

LEMMA BooksWithinBudget ==
  ASSUME NEW run, NEW new, WithinBudget(run), new.nodes = run.nodes, Noted(run, new)
  PROVE  WithinBudget(new)
BY DEF WithinBudget, Noted, Status

LEMMA StatusWithinBudget ==
  ASSUME NEW run \in WorkflowRun, WithinBudget(run), NEW s \in RunStatus
  PROVE  /\ SetRunStatus(run, s) \in WorkflowRun /\ WithinBudget(SetRunStatus(run, s))
         /\ EndWith(run, s) \in WorkflowRun /\ WithinBudget(EndWith(run, s))
<1>1. Untouched(run, SetRunStatus(run, s)) /\ Untouched(run, EndWith(run, s))
  BY BookkeepingEffect
<1>2. RU \in Nodes
  BY GraphType DEF GraphType
<1>3. Noted(run, SetRunStatus(run, s)) /\ Noted(run, EndWith(run, s))
  BY <1>2, BooksNoted
<1>4. /\ SetRunStatus(run, s).nodes = run.nodes /\ SetRunStatus(run, s) \in WorkflowRun
      /\ EndWith(run, s).nodes = run.nodes /\ EndWith(run, s) \in WorkflowRun
  BY <1>1 DEF Untouched
<1> QED
  BY <1>3, <1>4, BooksWithinBudget

\* The fallback has the last word.
LEMMA FallbackWithinBudget ==
  ASSUME NEW run \in WorkflowRun, NEW n \in Nodes, NEW c \in BOOLEAN,
         WithinBudget(run), run.nodes[n].attempts = NODE_MAP[n].max_attempts,
         run.first_failure_at # NoNode
  PROVE  LET new == AcceptFallback(run, n, c)
         IN  /\ WithinBudget(new)
             /\ Noted(run, new)
             /\ \A m \in Nodes \ {n} : new.nodes[m] = run.nodes[m]
<1> DEFINE a   == StoreResult(run, n, c)
           e   == [run.nodes[n] EXCEPT !.status = "SUCCESS", !.used_fallback = TRUE]
           new == SetNode(a, n, e)
<1>1. a \in WorkflowRun /\ a.nodes = run.nodes /\ Noted(run, a)
  BY StoreResultEffect, BooksNoted DEF Local
<1>2. /\ e \in NodeExecution /\ e.status = "SUCCESS"
      /\ e.attempts = NODE_MAP[n].max_attempts
  BY DEF WorkflowRun, NodeExecution, NodeStatus
<1>3. AcceptFallback(run, n, c) = new
  BY DEF AcceptFallback
<1> HIDE DEF a, e
<1>4. /\ new.first_failure_at = a.first_failure_at
      /\ new.nodes[n] = e
      /\ \A m \in Nodes \ {n} : new.nodes[m] = a.nodes[m]
  BY <1>1, <1>2 DEF SetNode, WorkflowRun
<1> HIDE DEF new
<1>5. new.first_failure_at # NoNode
  BY <1>1, <1>4 DEF Noted
<1>6. NODE_MAP[n].max_attempts <= NODE_MAP[n].max_attempts
  BY BudgetFacts
<1>7. WithinBudget(new)
  BY <1>1, <1>2, <1>4, <1>5, <1>6 DEF WithinBudget, Status
<1> QED
  BY <1>1, <1>3, <1>4, <1>5, <1>7 DEF Noted

-----------------------------------------------------------------------------
(***************************************************************************)
(* The books of a run: the two counters and the two marks of an outage.    *)
(* Only _execute_node enters anything in them; a new plan keeps them.      *)
(***************************************************************************)
SameCounts(run, new) ==
  new.retry_count = run.retry_count /\ new.rollback_count = run.rollback_count

SameOutage(run, new) ==
  new.first_failure_at = run.first_failure_at /\ new.recovered_at = run.recovered_at

SameBooks(run, new) == SameCounts(run, new) /\ SameOutage(run, new)

LEMMA SameBooksTwice ==
  ASSUME NEW a, NEW b, NEW c, SameBooks(a, b), SameBooks(b, c)
  PROVE  SameBooks(a, c)
BY DEF SameBooks, SameCounts, SameOutage

LEMMA SetNodeBooks ==
  ASSUME NEW run \in WorkflowRun, NEW n, NEW e
  PROVE  SameBooks(run, SetNode(run, n, e))
BY DEF SetNode, SameBooks, SameCounts, SameOutage, WorkflowRun

LEMMA NodeBooks ==
  ASSUME NEW run \in WorkflowRun, NEW n, NEW s
  PROVE  /\ SameBooks(run, SetStatus(run, n, s))
         /\ SameBooks(run, StartNode(run, n))
         /\ SameBooks(run, NextAttempt(run, n))
BY SetNodeBooks DEF SetStatus, StartNode, NextAttempt

LEMMA StoreResultBooks ==
  ASSUME NEW run \in WorkflowRun, NEW n, NEW c
  PROVE  SameBooks(run, StoreResult(run, n, c))
BY DEF StoreResult, SameBooks, SameCounts, SameOutage, WorkflowRun

LEMMA StatusBooks ==
  ASSUME NEW run \in WorkflowRun, NEW s
  PROVE  SameBooks(run, SetRunStatus(run, s)) /\ SameBooks(run, EndWith(run, s))
BY DEF SetRunStatus, EndWith, SameBooks, SameCounts, SameOutage, WorkflowRun

LEMMA RecordApprovalBooks ==
  ASSUME NEW run \in WorkflowRun, NEW g, NEW answer
  PROVE  SameBooks(run, RecordApproval(run, g, answer))
BY DEF RecordApproval, SameBooks, SameCounts, SameOutage, WorkflowRun

\* What a request does: ask for a decision, take one, plan again.
LEMMA RequestBooks ==
  ASSUME NEW run \in WorkflowRun, NEW n \in Nodes
  PROVE  /\ SameBooks(run, RequestApproval(run, n))
         /\ SameBooks(run, ApproveGate(run, n))
         /\ SameBooks(run, RejectGate(run, n))
         /\ \A requirement : SameBooks(run, ReplanRun(run, requirement))
<1>1. SameBooks(run, RequestApproval(run, n))
  <2> DEFINE a == SetStatus(run, n, "WAITING_APPROVAL")
  <2>1. a \in WorkflowRun /\ SameBooks(run, a)
    BY SetStatusEffect, NodeBooks, StatusNames DEF Local
  <2> HIDE DEF a
  <2>2. SameBooks(run, SetRunStatus(a, "WAITING_APPROVAL"))
    BY <2>1, StatusBooks, SameBooksTwice
  <2> QED
    BY <2>2 DEF a, RequestApproval
<1>2. ASSUME NEW answer \in BOOLEAN, NEW s \in {"SUCCESS", "SAFE_STOP"}, NEW e
      PROVE  LET new == SetStatus(RecordApproval(run, n, answer), n, s)
             IN  SameBooks(run, SetRunStatus(new, e)) /\ SameBooks(run, EndWith(new, e))
  <2> DEFINE a == RecordApproval(run, n, answer)
             b == SetStatus(a, n, s)
  <2>1. a \in WorkflowRun /\ SameBooks(run, a)
    BY RecordApprovalEffect, RecordApprovalBooks DEF Local
  <2> HIDE DEF a
  <2>2. b \in WorkflowRun /\ SameBooks(a, b)
    BY <2>1, SetStatusEffect, NodeBooks, StatusNames DEF Local
  <2> HIDE DEF b
  <2>3. SameBooks(b, SetRunStatus(b, e)) /\ SameBooks(b, EndWith(b, e))
    BY <2>2, StatusBooks
  <2>4. SameBooks(run, SetRunStatus(b, e)) /\ SameBooks(run, EndWith(b, e))
    BY <2>1, <2>2, <2>3, SameBooksTwice
  <2> QED
    BY <2>4 DEF a, b
<1>3. SameBooks(run, ApproveGate(run, n)) /\ SameBooks(run, RejectGate(run, n))
  BY <1>2 DEF ApproveGate, RejectGate
<1>4. ASSUME NEW requirement
      PROVE  SameBooks(run, ReplanRun(run, requirement))
  BY DEF ReplanRun, NewPlan, SameBooks, SameCounts, SameOutage, WorkflowRun
<1> QED
  BY <1>1, <1>3, <1>4

\* What _execute_node enters: a retry, a rollback, the first failure, the
\* recovery.
LEMMA AcceptResultBooks ==
  ASSUME NEW run \in WorkflowRun, NEW n \in Nodes
  PROVE  LET new == AcceptResult(run, n)
         IN  /\ SameCounts(run, new)
             /\ new.first_failure_at = run.first_failure_at
             /\ new.recovered_at <=> run.recovered_at \/ run.first_failure_at # NoNode
<1> DEFINE a == StoreResult(run, n, FALSE)
           b == SetStatus(a, n, "SUCCESS")
<1>1. a \in WorkflowRun /\ SameBooks(run, a)
  BY StoreResultEffect, StoreResultBooks DEF Local
<1>2. AcceptResult(run, n) = NoteRecovery(b)
  BY DEF AcceptResult
<1> HIDE DEF a
<1>3. b \in WorkflowRun /\ SameBooks(a, b)
  BY <1>1, SetStatusEffect, NodeBooks, StatusNames DEF Local
<1> HIDE DEF b
<1>4. SameBooks(run, b)
  BY <1>1, <1>3, SameBooksTwice
<1> DEFINE x == b.recovered_at \/ b.first_failure_at # NoNode
<1>5. NoteRecovery(b) = [b EXCEPT !.recovered_at = x]
  BY <1>3 DEF NoteRecovery, WorkflowRun
<1>6. x <=> run.recovered_at \/ run.first_failure_at # NoNode
  BY <1>4 DEF SameBooks, SameOutage
<1> HIDE DEF x
<1> QED
  BY <1>2, <1>3, <1>4, <1>5, <1>6 DEF SameBooks, SameCounts, SameOutage, WorkflowRun

LEMMA AcceptFallbackBooks ==
  ASSUME NEW run \in WorkflowRun, NEW n \in Nodes, NEW c \in BOOLEAN
  PROVE  SameBooks(run, AcceptFallback(run, n, c))
<1> DEFINE a == StoreResult(run, n, c)
<1>1. a \in WorkflowRun /\ SameBooks(run, a)
  BY StoreResultEffect, StoreResultBooks DEF Local
<1> HIDE DEF a
<1> QED
  BY <1>1, SetNodeBooks, SameBooksTwice DEF AcceptFallback, a

LEMMA FailureBooks ==
  ASSUME NEW run \in WorkflowRun, NEW n \in Nodes
  PROVE  LET noted == NoteFailure(run, n)
         IN  /\ SameCounts(run, noted)
             /\ noted.recovered_at = run.recovered_at
             /\ noted.first_failure_at
                   = (IF run.first_failure_at = NoNode THEN n ELSE run.first_failure_at)
             /\ SameOutage(noted, CountRetry(noted))
             /\ CountRetry(noted).retry_count = run.retry_count + 1
             /\ CountRetry(noted).rollback_count = run.rollback_count
BY DEF NoteFailure, CountRetry, SameCounts, SameOutage, WorkflowRun

LEMMA EndNodeBooks ==
  ASSUME NEW run \in WorkflowRun, NEW n \in Nodes, NEW artifacts \in [Nodes -> Artifact]
  PROVE  \A new \in {PolicyStop(run, n, artifacts), GiveUp(run, n, artifacts)} :
           /\ SameOutage(run, new)
           /\ new.retry_count = run.retry_count
           /\ new.rollback_count
                 = (IF n \in Mutating THEN run.rollback_count + 1 ELSE run.rollback_count)
<1>1. ASSUME NEW s \in NodeStatus
      PROVE  LET new == RestoreSnapshot(SetStatus(run, n, s), n, artifacts)
             IN  /\ SameOutage(run, new)
                 /\ new.retry_count = run.retry_count
                 /\ new.rollback_count
                       = (IF n \in Mutating THEN run.rollback_count + 1 ELSE run.rollback_count)
  <2> DEFINE a == SetStatus(run, n, s)
  <2>1. a \in WorkflowRun /\ SameBooks(run, a)
    BY SetStatusEffect, NodeBooks DEF Local
  <2> HIDE DEF a
  <2>2. LET new == RestoreSnapshot(a, n, artifacts)
        IN  /\ SameOutage(a, new)
            /\ new.retry_count = a.retry_count
            /\ new.rollback_count
                  = (IF n \in Mutating THEN a.rollback_count + 1 ELSE a.rollback_count)
    BY <2>1 DEF RestoreSnapshot, SameOutage, WorkflowRun
  <2> QED
    BY <2>1, <2>2 DEF a, SameBooks, SameCounts, SameOutage
<1>2. "SAFE_STOP" \in NodeStatus /\ GiveUpStatus(n) \in NodeStatus
  BY DEF NodeStatus, GiveUpStatus
<1> QED
  BY <1>1, <1>2 DEF PolicyStop, GiveUp

\* The books only grow: no count goes back, and no mark is wiped.
Grown(run, new) ==
  /\ new.retry_count >= run.retry_count
  /\ new.rollback_count >= run.rollback_count
  /\ run.recovered_at => new.recovered_at
  /\ Noted(run, new)

LEMMA GrownTwice ==
  ASSUME NEW a \in WorkflowRun, NEW b \in WorkflowRun, NEW c \in WorkflowRun,
         Grown(a, b), Grown(b, c)
  PROVE  Grown(a, c)
BY DEF Grown, Noted, WorkflowRun

LEMMA SameBooksGrown ==
  ASSUME NEW run \in WorkflowRun, NEW new, SameBooks(run, new)
  PROVE  Grown(run, new)
BY DEF SameBooks, SameCounts, SameOutage, Grown, Noted, WorkflowRun

=============================================================================
