-------------------------- MODULE OrchestratorProofs --------------------------
(***************************************************************************)
(* The orchestrator keeps its promises for every well-formed graph, every  *)
(* set of runs, any number of concurrent requests, agents that may answer  *)
(* anything, saves that fail, and crashes.                                 *)
(***************************************************************************)
EXTENDS OrchestratorProperties, RunProofs

LEMMA NullFacts ==
  /\ NoPhase \in [Nodes -> Phases]
  /\ NoArtifacts \in [Nodes -> Artifact]
  /\ NoSnapshot \in [Mutating -> [Nodes -> Artifact]]
  /\ Mutating \subseteq Nodes
  /\ Gates \subseteq Nodes
BY DEF NoPhase, Phases, NoArtifacts, NoSnapshot, NoArtifact, Artifact, Mutating, Gates

LEMMA ScannedNode ==
  ASSUME NEW t \in Tasks, TypeOK, Scanning(t)
  PROVE  /\ Scanned(t) \in Nodes
         /\ obj[t] \in WorkflowRun
         /\ held[t] \in Runs
         /\ pc[t] # "idle"
BY GraphType DEF GraphType, TypeOK, Scanning, Scanned

LEMMA BatchNode ==
  ASSUME NEW t \in Tasks, NEW n \in Nodes, NEW phases, TypeOK, InBatch(t, n, phases)
  PROVE  obj[t] \in WorkflowRun /\ pc[t] = "gather"
BY DEF TypeOK, InBatch

LEMMA SnapshotType ==
  ASSUME NEW t \in Tasks, NEW n \in Nodes, TypeOK
  PROVE  SnapshotOf(t, n) \in [Nodes -> Artifact]
BY NullFacts DEF TypeOK, SnapshotOf

-----------------------------------------------------------------------------
\* Typing, one lemma for each way in which a step changes the variables.

LEMMA SaveType ==
  ASSUME TypeOK, NEW r \in Runs, NEW run \in WorkflowRun, Save(r, run)
  PROVE  store' \in [Runs -> WorkflowRun \cup {NoRun}]
BY DEF TypeOK, Save

LEMMA EnterDriveType ==
  ASSUME TypeOK, NEW t \in Tasks, NEW r \in Runs, NEW run \in WorkflowRun,
         Save(r, run), EnterDrive(t, r, run)
  PROVE  TypeOK'
BY SaveType DEF TypeOK, EnterDrive, Labels

LEMMA ReturnType ==
  ASSUME TypeOK, NEW t \in Tasks, Return(t),
         store' \in [Runs -> WorkflowRun \cup {NoRun}]
  PROVE  TypeOK'
BY NullFacts DEF TypeOK, Return, Labels

LEMMA NodeStepType ==
  ASSUME TypeOK, NEW t \in Tasks, NEW n \in Nodes, NEW p \in Phases,
         NEW run \in WorkflowRun, NodeStep(t, n, p, run),
         snapshot' \in [Tasks -> [Mutating -> [Nodes -> Artifact]]]
  PROVE  TypeOK'
BY DEF TypeOK, NodeStep

-----------------------------------------------------------------------------
(***************************************************************************)
(* The inductive invariant.  Soundness of the copies is not inductive by   *)
(* itself: a node of a batch was found ready earlier, in the scan, and     *)
(* starts and ends while other nodes of the batch and other tasks move.    *)
(* What the scan found has to last, and that is what BatchSound says.      *)
(***************************************************************************)
BatchSound(label, run, batch, saved) ==
  /\ \A n \in Nodes : batch[n] # "none" =>
       /\ label # "idle"
       /\ n \in Agents
       /\ label = "scan" => batch[n] = "queued" /\ ConditionHolds(run, n)
       /\ batch[n] = "queued" => Status(run, n) = "PENDING"
                                 /\ DependenciesSatisfied(run, n)
       /\ batch[n] \in Active => Status(run, n) = "RUNNING"
  /\ \A m \in Mutating : batch[m] # "none" =>
       /\ \A n \in Nodes : batch[n] # "none" => n = m
       /\ batch[m] \in Active => saved[m] = run.artifacts

TaskSound(t) ==
  /\ pc[t] # "idle" => Sound(obj[t])
  /\ BatchSound(pc[t], obj[t], phase[t], snapshot[t])

StoreSound == \A r \in Runs : store[r] # NoRun => Sound(store[r])

IInv == TypeOK /\ StoreSound /\ \A t \in Tasks : TaskSound(t)

LEMMA IdleBatchSound ==
  ASSUME NEW label, NEW run, NEW saved
  PROVE  BatchSound(label, run, NoPhase, saved)
BY NullFacts DEF BatchSound, NoPhase

LEMMA SaveSound ==
  ASSUME IInv, NEW r \in Runs, NEW run, Sound(run), Save(r, run)
  PROVE  StoreSound' /\ store' \in [Runs -> WorkflowRun \cup {NoRun}]
BY SaveType DEF IInv, TypeOK, StoreSound, Save, Sound

\* A step of one task, as the others see it.
LEMMA OtherTasks ==
  ASSUME IInv, NEW t \in Tasks, TypeOK', StoreSound', TaskSound(t)',
         \A u \in Tasks \ {t} : /\ pc'[u] = pc[u]
                                /\ obj'[u] = obj[u]
                                /\ phase'[u] = phase[u]
                                /\ snapshot'[u] = snapshot[u]
  PROVE  IInv'
<1> SUFFICES ASSUME NEW u \in Tasks, u # t
             PROVE  TaskSound(u)'
  BY DEF IInv
<1>1. TaskSound(u)
  BY DEF IInv
<1> QED
  BY <1>1 DEF TaskSound

LEMMA EnterDriveSound ==
  ASSUME IInv, NEW t \in Tasks, NEW r \in Runs, NEW run, Sound(run),
         pc[t] = "idle", Save(r, run), EnterDrive(t, r, run)
  PROVE  IInv'
<1>1. run \in WorkflowRun /\ TypeOK
  BY DEF Sound, IInv
<1>2. TypeOK'
  BY <1>1, EnterDriveType
<1>3. StoreSound'
  BY SaveSound
<1>4. /\ pc' = [pc EXCEPT ![t] = "top"]
      /\ obj' = [obj EXCEPT ![t] = run]
      /\ phase' = phase
      /\ snapshot' = snapshot
  BY DEF EnterDrive
<1>5. pc'[t] = "top" /\ obj'[t] = run
  BY <1>1, <1>4 DEF TypeOK
<1>6. \A n \in Nodes : phase[t][n] = "none"
  BY DEF IInv, TaskSound, BatchSound
<1>7. BatchSound(pc'[t], obj'[t], phase'[t], snapshot'[t])
  BY <1>4, <1>6, NullFacts DEF BatchSound
<1>8. TaskSound(t)'
  BY <1>5, <1>7 DEF TaskSound
<1> QED
  BY <1>1, <1>2, <1>3, <1>4, <1>8, OtherTasks DEF TypeOK

LEMMA ReturnSound ==
  ASSUME IInv, NEW t \in Tasks, Return(t), StoreSound',
         store' \in [Runs -> WorkflowRun \cup {NoRun}]
  PROVE  IInv'
<1>1. TypeOK /\ TypeOK'
  BY ReturnType DEF IInv
<1>2. pc'[t] = "idle" /\ phase'[t] = NoPhase
  BY <1>1 DEF Return, TypeOK
<1>3. TaskSound(t)'
  BY <1>2, IdleBatchSound DEF TaskSound
<1> QED
  BY <1>1, <1>3, OtherTasks DEF Return, TypeOK

\* The run is saved and the request ends.
LEMMA SaveReturnSound ==
  ASSUME IInv, NEW t \in Tasks, NEW run, Sound(run),
         pc[t] # "idle", Save(held[t], run), Return(t)
  PROVE  IInv'
<1>1. held[t] \in Runs
  BY DEF IInv, TypeOK
<1> QED
  BY <1>1, SaveSound, ReturnSound

LEMMA UnsavedReturnSound ==
  ASSUME IInv, NEW t \in Tasks, UNCHANGED store, Return(t)
  PROVE  IInv'
<1>1. StoreSound' /\ store' \in [Runs -> WorkflowRun \cup {NoRun}]
  BY DEF IInv, StoreSound, TypeOK
<1> QED
  BY <1>1, ReturnSound

\* A step that moves the task to another label and leaves its run and its
\* batch alone.
LEMMA MoveSound ==
  ASSUME IInv, NEW t \in Tasks, TypeOK', StoreSound',
         UNCHANGED <<obj, phase, snapshot>>,
         pc[t] # "idle", pc'[t] # "idle", pc'[t] = "scan" => pc[t] = "scan",
         \A u \in Tasks \ {t} : pc'[u] = pc[u]
  PROVE  IInv'
<1>1. TaskSound(t)
  BY DEF IInv
<1>2. BatchSound(pc'[t], obj[t], phase[t], snapshot[t])
  BY <1>1 DEF TaskSound, BatchSound
<1>3. TaskSound(t)'
  BY <1>1, <1>2 DEF TaskSound
<1> QED
  BY <1>3, OtherTasks

\* A step inside a node of the batch that is not done yet.
LEMMA NodeStepSound ==
  ASSUME IInv, NEW t \in Tasks, NEW n \in Nodes, NEW p \in Phases \ {"none", "queued"},
         NEW run, pc[t] = "gather", phase[t][n] # "none",
         NodeStep(t, n, p, run),
         Local(obj[t], run, n), Sound(run),
         Status(obj[t], n) \notin Acceptable,
         p \in Active => Status(run, n) = "RUNNING",
         p \in Active /\ n \in Mutating => snapshot'[t][n] = run.artifacts,
         snapshot' \in [Tasks -> [Mutating -> [Nodes -> Artifact]]],
         \A u \in Tasks \ {t} : snapshot'[u] = snapshot[u]
  PROVE  IInv'
<1>1. TypeOK /\ TypeOK' /\ run \in WorkflowRun
  BY NodeStepType DEF IInv, Sound
<1>2. /\ pc' = pc /\ store' = store
      /\ obj'[t] = run
      /\ phase'[t] = [phase[t] EXCEPT ![n] = p]
      /\ \A u \in Tasks \ {t} : obj'[u] = obj[u] /\ phase'[u] = phase[u]
  BY <1>1 DEF NodeStep, TypeOK
<1>3. phase[t] \in [Nodes -> Phases]
  BY <1>1 DEF TypeOK
<1>4. BatchSound("gather", obj[t], phase[t], snapshot[t])
  BY DEF IInv, TaskSound
<1>5. ASSUME NEW k \in Nodes, phase'[t][k] # "none"
      PROVE  /\ k \in Agents
             /\ phase'[t][k] = "queued" => Status(run, k) = "PENDING"
                                           /\ DependenciesSatisfied(run, k)
             /\ phase'[t][k] \in Active => Status(run, k) = "RUNNING"
  <2>1. CASE k = n
    BY <1>2, <1>3, <1>4, <2>1 DEF BatchSound
  <2>2. CASE k # n
    <3>1. phase'[t][k] = phase[t][k]
      BY <1>2, <1>3, <2>2
    <3>2. Status(run, k) = Status(obj[t], k)
      BY <2>2 DEF Local
    <3>3. DependenciesSatisfied(obj[t], k) => DependenciesSatisfied(run, k)
      BY NodeFacts DEF DependenciesSatisfied, Local
    <3> QED
      BY <1>4, <1>5, <3>1, <3>2, <3>3 DEF BatchSound
  <2> QED
    BY <2>1, <2>2
<1>6. ASSUME NEW m \in Mutating, phase'[t][m] # "none"
      PROVE  /\ \A k \in Nodes : phase'[t][k] # "none" => k = m
             /\ phase'[t][m] \in Active => snapshot'[t][m] = run.artifacts
  <2>1. m \in Nodes
    BY NullFacts
  <2>2. \A k \in Nodes : phase'[t][k] # "none" => phase[t][k] # "none"
    BY <1>2, <1>3
  <2>3. \A k \in Nodes : phase[t][k] # "none" => k = m
    BY <1>4, <1>6, <2>1, <2>2 DEF BatchSound
  <2>4. n = m
    BY <2>3
  <2> QED
    BY <1>2, <1>3, <2>2, <2>3, <2>4
<1>7. BatchSound(pc'[t], obj'[t], phase'[t], snapshot'[t])
  BY <1>2, <1>5, <1>6 DEF BatchSound
<1>8. TaskSound(t)'
  BY <1>2, <1>7 DEF TaskSound
<1>9. StoreSound'
  BY <1>2 DEF IInv, StoreSound
<1> QED
  BY <1>1, <1>2, <1>8, <1>9, OtherTasks

\* A node in execution: what the steps on it start from.
LEMMA ActiveNode ==
  ASSUME IInv, NEW t \in Tasks, NEW n \in Nodes, NEW phases \in SUBSET Active,
         InBatch(t, n, phases)
  PROVE  /\ pc[t] = "gather"
         /\ phase[t][n] # "none"
         /\ Sound(obj[t])
         /\ obj[t] \in WorkflowRun
         /\ n \in Agents
         /\ Status(obj[t], n) = "RUNNING"
         /\ DependenciesSatisfied(obj[t], n)
         /\ n \in Mutating => snapshot[t][n] = obj[t].artifacts
         /\ n \in Mutating => SnapshotOf(t, n) = obj[t].artifacts
<1>1. pc[t] = "gather" /\ phase[t][n] \in Active
  BY DEF InBatch
<1>2. phase[t][n] # "none"
  BY <1>1 DEF Active
<1>3. Sound(obj[t]) /\ BatchSound(pc[t], obj[t], phase[t], snapshot[t])
  BY <1>1 DEF IInv, TaskSound
<1>4. n \in Agents /\ Status(obj[t], n) = "RUNNING"
  BY <1>1, <1>2, <1>3 DEF BatchSound
<1>5. DependenciesSatisfied(obj[t], n)
  BY <1>3, <1>4 DEF Sound, OrderRespected, Started
<1> QED
  BY <1>1, <1>2, <1>3, <1>4, <1>5 DEF BatchSound, Sound, SnapshotOf

LEMMA PhaseFacts ==
  /\ {"agent", "sleep", "fallback", "done"} \subseteq Phases \ {"none", "queued"}
  /\ "done" \notin Active
  /\ {"agent"} \in SUBSET Active
  /\ {"sleep"} \in SUBSET Active
  /\ {"fallback"} \in SUBSET Active
  /\ "RUNNING" \notin Acceptable /\ "PENDING" \notin Acceptable
  /\ "SAFE_STOP" \notin Acceptable /\ "WAITING_APPROVAL" \notin Acceptable
  /\ {"ROLLED_BACK", "FAILED"} \cap Acceptable = {}
BY DEF Phases, Active, Acceptable

\* The run a node step leaves behind when the node is not done: the artifacts
\* are those it had.
LEMMA KeepSound ==
  ASSUME IInv, NEW t \in Tasks, NEW n \in Nodes, NEW p \in {"agent", "sleep", "fallback", "done"},
         NEW phases \in SUBSET Active, InBatch(t, n, phases), NEW run,
         NodeStep(t, n, p, run), UNCHANGED snapshot,
         Local(obj[t], run, n), run.artifacts = obj[t].artifacts,
         Status(run, n) \notin Acceptable,
         p # "done" => Status(run, n) = "RUNNING"
  PROVE  IInv'
<1>1. /\ pc[t] = "gather"
      /\ phase[t][n] # "none"
      /\ Sound(obj[t])
      /\ n \in Agents
      /\ Status(obj[t], n) = "RUNNING"
      /\ DependenciesSatisfied(obj[t], n)
      /\ n \in Mutating => snapshot[t][n] = obj[t].artifacts
  BY ActiveNode
<1>2. Sound(run)
  BY <1>1, LocalSound, PhaseFacts DEF Agents, Acceptable
<1>3. snapshot' \in [Tasks -> [Mutating -> [Nodes -> Artifact]]]
  BY DEF IInv, TypeOK
<1> QED
  BY <1>1, <1>2, <1>3, NodeStepSound, PhaseFacts DEF Active

\* The run a node step leaves behind when the node has delivered.
LEMMA DeliverSound ==
  ASSUME IInv, NEW t \in Tasks, NEW n \in Nodes,
         NEW phases \in SUBSET Active, InBatch(t, n, phases), NEW run,
         NodeStep(t, n, "done", run), UNCHANGED snapshot,
         Local(obj[t], run, n),
         Status(run, n) = "SUCCESS",
         run.artifacts[n].plan = obj[t].plan_version,
         \A m \in Nodes \ {n} : run.artifacts[m] = obj[t].artifacts[m]
  PROVE  IInv'
<1>1. /\ pc[t] = "gather"
      /\ phase[t][n] # "none"
      /\ Sound(obj[t])
      /\ n \in Agents
      /\ Status(obj[t], n) = "RUNNING"
      /\ DependenciesSatisfied(obj[t], n)
  BY ActiveNode
<1>2. Sound(run)
  BY <1>1, DeliverySound, PhaseFacts
<1>3. snapshot' \in [Tasks -> [Mutating -> [Nodes -> Artifact]]]
  BY DEF IInv, TypeOK
<1> QED
  BY <1>1, <1>2, <1>3, NodeStepSound, PhaseFacts

-----------------------------------------------------------------------------
\* The requests.

LEMMA WaitingGate ==
  ASSUME IInv, NEW r \in Runs, NEW g \in Gates, Waiting(r, g)
  PROVE  /\ g \in Nodes
         /\ Sound(store[r])
         /\ store[r] \in WorkflowRun
         /\ Status(store[r], g) = "WAITING_APPROVAL"
         /\ DependenciesSatisfied(store[r], g)
<1>1. g \in Nodes /\ Sound(store[r]) /\ Status(store[r], g) = "WAITING_APPROVAL"
  BY DEF IInv, StoreSound, Waiting, Gates
<1> QED
  BY <1>1 DEF Sound, OrderRespected, Started

LEMMA RequestStep ==
  ASSUME IInv, NEW t \in Tasks, Request(t)
  PROVE  IInv'
<1> SUFFICES ASSUME NEW r \in Runs,
         \/ \E requirement \in Requirements, scenario_type \in Scenarios,
               metadata \in Metadata :
              StartRun(t, r, requirement, scenario_type, metadata)
         \/ \E g \in Gates : Approve(t, r, g) \/ Reject(t, r, g)
         \/ \E requirement \in Requirements : Replan(t, r, requirement)
             PROVE  IInv'
  BY DEF Request, PostRun, PostApproval, PostReplan
<1>1. ASSUME NEW requirement \in Requirements, NEW scenario_type \in Scenarios,
             NEW metadata \in Metadata,
             StartRun(t, r, requirement, scenario_type, metadata)
      PROVE  IInv'
  <2> DEFINE run == NewRun(requirement, scenario_type, metadata)
  <2>1. Sound(run)
    BY OrchestratorConstants, NewRunFresh, FreshSound DEF OrchestratorConstants
  <2>2. pc[t] = "idle" /\ Save(r, run) /\ EnterDrive(t, r, run)
    BY <1>1 DEF StartRun, CanServe
  <2> HIDE DEF run
  <2> QED
    BY <2>1, <2>2, EnterDriveSound
<1>2. ASSUME NEW g \in Gates, Approve(t, r, g)
      PROVE  IInv'
  <2> DEFINE run == ApproveGate(store[r], g)
  <2>1. pc[t] = "idle" /\ Waiting(r, g) /\ Save(r, run) /\ EnterDrive(t, r, run)
    BY <1>2 DEF Approve, CanServe
  <2>2. /\ g \in Nodes
        /\ Sound(store[r])
        /\ store[r] \in WorkflowRun
        /\ Status(store[r], g) = "WAITING_APPROVAL"
        /\ DependenciesSatisfied(store[r], g)
    BY <2>1, WaitingGate
  <2>3. /\ Local(store[r], run, g)
        /\ Status(run, g) = "SUCCESS"
        /\ run.artifacts = store[r].artifacts
        /\ run.approvals[g] = [plan |-> store[r].plan_version, approved |-> TRUE]
    BY <2>2, ApproveGateEffect
  <2> HIDE DEF run
  <2>4. GateOpen(run, g)
    BY <2>3 DEF GateOpen, Local
  <2>5. Sound(run)
    BY <2>2, <2>3, <2>4, LocalSound, PhaseFacts
  <2> QED
    BY <2>1, <2>5, EnterDriveSound
<1>3. ASSUME NEW g \in Gates, Reject(t, r, g)
      PROVE  IInv'
  <2> DEFINE run == RejectGate(store[r], g)
  <2>1. Waiting(r, g) /\ Save(r, run)
        /\ UNCHANGED <<pc, held, obj, index, progress, phase, snapshot>>
    BY <1>3 DEF Reject
  <2>2. /\ g \in Nodes
        /\ Sound(store[r])
        /\ store[r] \in WorkflowRun
        /\ Status(store[r], g) = "WAITING_APPROVAL"
        /\ DependenciesSatisfied(store[r], g)
    BY <2>1, WaitingGate
  <2>3. /\ Local(store[r], run, g)
        /\ Status(run, g) = "SAFE_STOP"
        /\ run.artifacts = store[r].artifacts
    BY <2>2, RejectGateEffect
  <2> HIDE DEF run
  <2>4. Sound(run)
    BY <2>2, <2>3, LocalSound, PhaseFacts
  <2>5. StoreSound' /\ store' \in [Runs -> WorkflowRun \cup {NoRun}]
    BY <2>1, <2>4, SaveSound
  <2> QED
    BY <2>1, <2>5 DEF IInv, TypeOK, TaskSound
<1>4. ASSUME NEW requirement \in Requirements, Replan(t, r, requirement)
      PROVE  IInv'
  <2> DEFINE run == ReplanRun(store[r], requirement)
  <2>1. pc[t] = "idle" /\ store[r] # NoRun /\ Save(r, run) /\ EnterDrive(t, r, run)
    BY <1>4 DEF Replan, CanServe
  <2>2. store[r] \in WorkflowRun
    BY <2>1 DEF IInv, TypeOK
  <2>3. Sound(run)
    BY <2>2, OrchestratorConstants, ReplanRunFresh, FreshSound DEF OrchestratorConstants
  <2> HIDE DEF run
  <2> QED
    BY <2>1, <2>3, EnterDriveSound
<1> QED
  BY <1>1, <1>2, <1>3, <1>4

-----------------------------------------------------------------------------
\* The nodes.

LEMMA BeginNodeStep ==
  ASSUME IInv, NEW t \in Tasks, NEW n \in Nodes, BeginNode(t, n)
  PROVE  IInv'
<1> DEFINE run == StartNode(obj[t], n)
<1>1. /\ pc[t] = "gather" /\ phase[t][n] = "queued"
      /\ NodeStep(t, n, "agent", run)
  BY DEF BeginNode, InBatch
<1>2. Sound(obj[t]) /\ BatchSound(pc[t], obj[t], phase[t], snapshot[t])
  BY <1>1 DEF IInv, TaskSound
<1>3. /\ n \in Agents
      /\ Status(obj[t], n) = "PENDING"
      /\ DependenciesSatisfied(obj[t], n)
  BY <1>1, <1>2 DEF BatchSound
<1>4. /\ Local(obj[t], run, n)
      /\ Status(run, n) = "RUNNING"
      /\ run.artifacts = obj[t].artifacts
  BY <1>2, StartNodeEffect DEF Sound
<1> HIDE DEF run
<1>5. Sound(run)
  BY <1>2, <1>3, <1>4, LocalSound, PhaseFacts
<1>6. TypeOK /\ obj[t].artifacts \in [Nodes -> Artifact]
  BY <1>2 DEF IInv, Sound, WorkflowRun
<1>7. /\ snapshot' \in [Tasks -> [Mutating -> [Nodes -> Artifact]]]
      /\ n \in Mutating => snapshot'[t][n] = run.artifacts
      /\ \A u \in Tasks \ {t} : snapshot'[u] = snapshot[u]
  BY <1>4, <1>6 DEF BeginNode, TypeOK
<1> QED
  BY <1>1, <1>3, <1>4, <1>5, <1>7, NodeStepSound, PhaseFacts

LEMMA NodeProgressStep ==
  ASSUME IInv, NEW t \in Tasks, NEW n \in Nodes, NodeProgress(t, n)
  PROVE  IInv'
<1>1. CASE BeginNode(t, n)
  BY <1>1, BeginNodeStep
<1>2. CASE AgentSucceeds(t, n)
  <2> DEFINE new == AcceptResult(obj[t], n)
  <2>1. InBatch(t, n, {"agent"}) /\ NodeStep(t, n, "done", new) /\ UNCHANGED snapshot
    BY <1>2 DEF AgentSucceeds, Answers
  <2>2. obj[t] \in WorkflowRun
    BY <2>1, ActiveNode, PhaseFacts
  <2>3. /\ Local(obj[t], new, n)
        /\ Status(new, n) = "SUCCESS"
        /\ new.artifacts[n].plan = obj[t].plan_version
        /\ \A m \in Nodes \ {n} : new.artifacts[m] = obj[t].artifacts[m]
    BY <2>2, AcceptResultEffect
  <2> HIDE DEF new
  <2> QED
    BY <2>1, <2>3, DeliverSound, PhaseFacts
<1>3. CASE AgentUnsafe(t, n)
  <2> DEFINE new == PolicyStop(obj[t], n, SnapshotOf(t, n))
  <2>1. InBatch(t, n, {"agent"}) /\ NodeStep(t, n, "done", new) /\ UNCHANGED snapshot
    BY <1>3 DEF AgentUnsafe, Answers
  <2>2. /\ obj[t] \in WorkflowRun
        /\ n \in Mutating => SnapshotOf(t, n) = obj[t].artifacts
    BY <2>1, ActiveNode, PhaseFacts
  <2>3. /\ Local(obj[t], new, n)
        /\ Status(new, n) = "SAFE_STOP"
        /\ new.artifacts = obj[t].artifacts
    BY <2>2, PolicyStopEffect
  <2> HIDE DEF new
  <2> QED
    BY <2>1, <2>3, KeepSound, PhaseFacts
<1>4. CASE AgentFailsEarly(t, n)
  <2> DEFINE new == CountRetry(NoteFailure(obj[t], n))
  <2>1. InBatch(t, n, {"agent"}) /\ NodeStep(t, n, "sleep", new) /\ UNCHANGED snapshot
    BY <1>4 DEF AgentFailsEarly, Answers
  <2>2. obj[t] \in WorkflowRun /\ Status(obj[t], n) = "RUNNING"
    BY <2>1, ActiveNode, PhaseFacts
  <2>3. Untouched(obj[t], new)
    BY <2>2, RetryEffect
  <2> HIDE DEF new
  <2>4. /\ Local(obj[t], new, n)
        /\ Status(new, n) = "RUNNING"
        /\ new.artifacts = obj[t].artifacts
    BY <2>2, <2>3 DEF Untouched, Local, Status
  <2> QED
    BY <2>1, <2>4, KeepSound, PhaseFacts
<1>5. CASE AgentFailsFinally(t, n)
  <2> DEFINE noted == NoteFailure(obj[t], n)
             new   == GiveUp(noted, n, SnapshotOf(t, n))
  <2>1. /\ InBatch(t, n, {"agent"})
        /\ NodeStep(t, n, "fallback", noted) \/ NodeStep(t, n, "done", new)
        /\ UNCHANGED snapshot
    BY <1>5 DEF AgentFailsFinally, Answers
  <2>2. /\ obj[t] \in WorkflowRun
        /\ Status(obj[t], n) = "RUNNING"
        /\ n \in Mutating => SnapshotOf(t, n) = obj[t].artifacts
    BY <2>1, ActiveNode, PhaseFacts
  <2>3. Untouched(obj[t], noted)
    BY <2>2, BookkeepingEffect
  <2> HIDE DEF noted
  <2>4. /\ Local(obj[t], noted, n)
        /\ Status(noted, n) = "RUNNING"
        /\ noted.artifacts = obj[t].artifacts
        /\ noted \in WorkflowRun
    BY <2>2, <2>3 DEF Untouched, Local, Status
  <2>5. /\ Local(noted, new, n)
        /\ Status(new, n) \in {"ROLLED_BACK", "FAILED"}
        /\ new.artifacts = noted.artifacts
    BY <2>2, <2>4, GiveUpEffect
  <2> HIDE DEF new
  <2>6. Local(obj[t], new, n) /\ new.artifacts = obj[t].artifacts
    BY <2>4, <2>5 DEF Local
  <2>7. CASE NodeStep(t, n, "fallback", noted)
    BY <2>1, <2>4, <2>7, KeepSound, PhaseFacts
  <2>8. CASE NodeStep(t, n, "done", new)
    BY <2>1, <2>5, <2>6, <2>8, KeepSound, PhaseFacts
  <2> QED
    BY <2>1, <2>7, <2>8
<1>6. CASE Wake(t, n)
  <2> DEFINE new == NextAttempt(obj[t], n)
  <2>1. InBatch(t, n, {"sleep"}) /\ NodeStep(t, n, "agent", new) /\ UNCHANGED snapshot
    BY <1>6 DEF Wake
  <2>2. obj[t] \in WorkflowRun /\ Status(obj[t], n) = "RUNNING"
    BY <2>1, ActiveNode, PhaseFacts
  <2>3. /\ Local(obj[t], new, n)
        /\ Status(new, n) = "RUNNING"
        /\ new.artifacts = obj[t].artifacts
    BY <2>2, NextAttemptEffect
  <2> HIDE DEF new
  <2> QED
    BY <2>1, <2>3, KeepSound, PhaseFacts
<1>7. CASE FallbackSucceeds(t, n)
  <2> PICK outcome \in {"ok", "critical"} :
             /\ FallbackAnswers(t, n, outcome)
             /\ NodeStep(t, n, "done", AcceptFallback(obj[t], n, outcome = "critical"))
             /\ UNCHANGED snapshot
    BY <1>7 DEF FallbackSucceeds
  <2> DEFINE isCritical == outcome = "critical"
             new == AcceptFallback(obj[t], n, isCritical)
  <2>1. InBatch(t, n, {"fallback"}) /\ NodeStep(t, n, "done", new) /\ UNCHANGED snapshot
    BY DEF FallbackAnswers
  <2>2. obj[t] \in WorkflowRun /\ isCritical \in BOOLEAN
    BY <2>1, ActiveNode, PhaseFacts
  <2> HIDE DEF isCritical
  <2>3. /\ Local(obj[t], new, n)
        /\ Status(new, n) = "SUCCESS"
        /\ new.artifacts[n].plan = obj[t].plan_version
        /\ \A m \in Nodes \ {n} : new.artifacts[m] = obj[t].artifacts[m]
    BY <2>2, AcceptFallbackEffect
  <2> HIDE DEF new
  <2> QED
    BY <2>1, <2>3, DeliverSound, PhaseFacts
<1>8. CASE FallbackFails(t, n)
  <2> DEFINE new == GiveUp(obj[t], n, SnapshotOf(t, n))
  <2>1. InBatch(t, n, {"fallback"}) /\ NodeStep(t, n, "done", new) /\ UNCHANGED snapshot
    BY <1>8 DEF FallbackFails, FallbackAnswers
  <2>2. /\ obj[t] \in WorkflowRun
        /\ n \in Mutating => SnapshotOf(t, n) = obj[t].artifacts
    BY <2>1, ActiveNode, PhaseFacts
  <2>3. /\ Local(obj[t], new, n)
        /\ Status(new, n) \in {"ROLLED_BACK", "FAILED"}
        /\ new.artifacts = obj[t].artifacts
    BY <2>2, GiveUpEffect
  <2> HIDE DEF new
  <2> QED
    BY <2>1, <2>3, KeepSound, PhaseFacts
<1> QED
  BY <1>1, <1>2, <1>3, <1>4, <1>5, <1>6, <1>7, <1>8 DEF NodeProgress

-----------------------------------------------------------------------------
\* The scan.

\* A node the scan finds ready, in a task's sound copy.
LEMMA ReadyNode ==
  ASSUME IInv, NEW t \in Tasks, Scanning(t), Ready(obj[t], Scanned(t))
  PROVE  /\ Scanned(t) \in Nodes
         /\ Sound(obj[t])
         /\ obj[t] \in WorkflowRun
         /\ BatchSound("scan", obj[t], phase[t], snapshot[t])
         /\ Status(obj[t], Scanned(t)) = "PENDING"
         /\ DependenciesSatisfied(obj[t], Scanned(t))
BY ScannedNode DEF IInv, TaskSound, Scanning, Ready

LEMMA SkipStep ==
  ASSUME IInv, NEW t \in Tasks, Skip(t)
  PROVE  IInv'
<1> DEFINE n   == Scanned(t)
           run == SkipNode(obj[t], n)
<1>1. /\ n \in Nodes
      /\ Sound(obj[t])
      /\ obj[t] \in WorkflowRun
      /\ BatchSound("scan", obj[t], phase[t], snapshot[t])
      /\ Status(obj[t], n) = "PENDING"
      /\ DependenciesSatisfied(obj[t], n)
  BY ReadyNode DEF Skip
<1>2. /\ ~ConditionHolds(obj[t], n)
      /\ pc[t] = "scan"
      /\ obj' = [obj EXCEPT ![t] = run]
      /\ UNCHANGED <<store, pc, held, phase, snapshot>>
      /\ progress' = [progress EXCEPT ![t] = TRUE]
      /\ index' = [index EXCEPT ![t] = @ + 1]
  BY DEF Skip, Scanning, ScanOn
<1>3. /\ Local(obj[t], run, n)
      /\ Status(run, n) = "SKIPPED"
      /\ run.artifacts = obj[t].artifacts
  BY <1>1, SetStatusEffect, StatusNames DEF SkipNode
<1> HIDE DEF run, n
<1>4. run \in WorkflowRun
  BY <1>3 DEF Local
<1>5. RU \in Nodes
  BY GraphType DEF GraphType
<1>6. \A k \in Nodes : ConditionHolds(run, k) = ConditionHolds(obj[t], k)
  BY <1>1, <1>3, LocalCondition
<1>7. n \in Gates => GateOpen(run, n)
  BY <1>1, <1>2, <1>3, <1>6 DEF GateOpen
<1>8. Sound(run)
  BY <1>1, <1>2, <1>3, <1>7, LocalSound, PhaseFacts
<1>9. \A k \in Nodes : DependenciesSatisfied(obj[t], k) => DependenciesSatisfied(run, k)
  BY <1>1, <1>3, NodeFacts, PhaseFacts DEF DependenciesSatisfied, Local
<1>10. \A k \in Nodes : phase[t][k] # "none" => k # n
  BY <1>1, <1>2 DEF BatchSound
<1>11. \A k \in Nodes \ {n} : Status(run, k) = Status(obj[t], k)
  BY <1>3 DEF Local
<1>12. BatchSound("scan", run, phase[t], snapshot[t])
  BY <1>1, <1>3, <1>6, <1>9, <1>10, <1>11 DEF BatchSound
<1>13. TypeOK /\ TypeOK'
  BY <1>2, <1>4 DEF IInv, TypeOK
<1>14. obj'[t] = run
  BY <1>2, <1>13 DEF TypeOK
<1>15. TaskSound(t)'
  BY <1>2, <1>8, <1>12, <1>14 DEF TaskSound
<1>16. StoreSound'
  BY <1>2 DEF IInv, StoreSound
<1> QED
  BY <1>2, <1>13, <1>15, <1>16, OtherTasks DEF TypeOK

LEMMA AskApprovalStep ==
  ASSUME IInv, NEW t \in Tasks, AskApproval(t)
  PROVE  IInv'
<1> DEFINE n   == Scanned(t)
           run == RequestApproval(obj[t], n)
<1>1. /\ n \in Nodes
      /\ Sound(obj[t])
      /\ obj[t] \in WorkflowRun
      /\ Status(obj[t], n) = "PENDING"
      /\ DependenciesSatisfied(obj[t], n)
  BY ReadyNode DEF AskApproval
<1>2. pc[t] # "idle" /\ Save(held[t], run) /\ Return(t)
  BY DEF AskApproval, Scanning
<1>3. /\ Local(obj[t], run, n)
      /\ Status(run, n) = "WAITING_APPROVAL"
      /\ run.artifacts = obj[t].artifacts
  BY <1>1, RequestApprovalEffect
<1> HIDE DEF run, n
<1>4. Sound(run)
  BY <1>1, <1>3, LocalSound, PhaseFacts
<1> QED
  BY <1>2, <1>4, SaveReturnSound

\* The nodes that become ready in one pass do not depend on each other, so a
\* mutating node never joins, or is joined by, another one.
LEMMA EnqueueStep ==
  ASSUME IInv, NEW t \in Tasks, Enqueue(t)
  PROVE  IInv'
<1> DEFINE n == Scanned(t)
<1>1. /\ n \in Nodes
      /\ Sound(obj[t])
      /\ BatchSound("scan", obj[t], phase[t], snapshot[t])
      /\ Status(obj[t], n) = "PENDING"
      /\ DependenciesSatisfied(obj[t], n)
  BY ReadyNode DEF Enqueue
<1>2. /\ pc[t] = "scan"
      /\ ConditionHolds(obj[t], n)
      /\ n \in Agents
      /\ phase' = [phase EXCEPT ![t][n] = "queued"]
      /\ UNCHANGED <<store, pc, held, obj, progress, snapshot>>
      /\ index' = [index EXCEPT ![t] = @ + 1]
  BY DEF Enqueue, Scanning, ScanOn
<1> HIDE DEF n
<1>3. TypeOK /\ TypeOK'
  BY <1>1, <1>2 DEF IInv, TypeOK, Phases
<1>4. /\ phase[t] \in [Nodes -> Phases]
      /\ phase'[t] = [phase[t] EXCEPT ![n] = "queued"]
      /\ \A u \in Tasks \ {t} : phase'[u] = phase[u]
  BY <1>2, <1>3 DEF TypeOK
<1>5. ASSUME NEW b \in Nodes, phase[t][b] # "none", b # n
      PROVE  n \notin Mutating /\ b \notin Mutating
  <2>1. Status(obj[t], b) = "PENDING" /\ DependenciesSatisfied(obj[t], b)
    BY <1>1, <1>5 DEF BatchSound
  <2>2. n \notin Descendants[b]
    BY <1>1, <2>1, DownstreamBlocked, PhaseFacts DEF Sound
  <2>3. b \notin Descendants[n]
    BY <1>1, <2>1, DownstreamBlocked, PhaseFacts DEF Sound
  <2> QED
    BY <1>1, <1>5, <2>2, <2>3, MutatingIsolated DEF MutatingIsolated
<1>6. "queued" \notin Active
  BY DEF Active
<1>7. \A k \in Nodes : phase'[t][k] = IF k = n THEN "queued" ELSE phase[t][k]
  BY <1>4
<1>8. BatchSound("scan", obj[t], phase'[t], snapshot[t])
  <2>1. ASSUME NEW k \in Nodes, phase'[t][k] # "none"
        PROVE  /\ k \in Agents
               /\ phase'[t][k] = "queued"
               /\ ConditionHolds(obj[t], k)
               /\ Status(obj[t], k) = "PENDING"
               /\ DependenciesSatisfied(obj[t], k)
    BY <1>1, <1>2, <1>7, <2>1 DEF BatchSound
  <2>2. ASSUME NEW m \in Mutating, phase'[t][m] # "none",
               NEW k \in Nodes, phase'[t][k] # "none"
        PROVE  k = m
    <3>1. m \in Nodes
      BY NullFacts
    <3>2. CASE m = n
      BY <1>5, <1>7, <2>2, <3>2
    <3>3. CASE m # n
      <4>1. phase[t][m] # "none"
        BY <1>7, <2>2, <3>1, <3>3
      <4> QED
        BY <1>5, <3>1, <3>3, <4>1
    <3> QED
      BY <3>2, <3>3
  <2>3. \A m \in Mutating : phase'[t][m] \notin Active \/ phase'[t][m] = "none"
    BY <1>6, <2>1, NullFacts
  <2> QED
    BY <1>6, <2>1, <2>2, <2>3 DEF BatchSound
<1>9. TaskSound(t)'
  BY <1>1, <1>2, <1>8 DEF TaskSound
<1>10. StoreSound'
  BY <1>2 DEF IInv, StoreSound
<1> QED
  BY <1>2, <1>3, <1>4, <1>9, <1>10, OtherTasks

-----------------------------------------------------------------------------
\* The rest of _drive.

LEMMA DriveTopStep ==
  ASSUME IInv, NEW t \in Tasks, DriveTop(t)
  PROVE  IInv'
<1>1. CASE obj[t].status \in Terminal
  BY <1>1, UnsavedReturnSound DEF DriveTop
<1>2. CASE obj[t].status \notin Terminal
  <2>1. /\ pc[t] = "top"
        /\ pc' = [pc EXCEPT ![t] = "scan"]
        /\ index' = [index EXCEPT ![t] = 1]
        /\ progress' = [progress EXCEPT ![t] = FALSE]
        /\ phase' = [phase EXCEPT ![t] = NoPhase]
        /\ UNCHANGED <<store, held, obj, snapshot>>
    BY <1>2 DEF DriveTop, Goto
  <2>2. TypeOK /\ TypeOK'
    BY <2>1, NullFacts DEF IInv, TypeOK, Labels
  <2>3. pc'[t] = "scan" /\ phase'[t] = NoPhase
    BY <2>1, <2>2 DEF TypeOK
  <2>4. Sound(obj[t])
    BY <2>1 DEF IInv, TaskSound
  <2>5. TaskSound(t)'
    BY <2>1, <2>3, <2>4, IdleBatchSound DEF TaskSound
  <2>6. StoreSound'
    BY <2>1 DEF IInv, StoreSound
  <2> QED
    BY <2>1, <2>2, <2>5, <2>6, OtherTasks DEF TypeOK
<1> QED
  BY <1>1, <1>2

\* The steps that only move the task.
LEMMA MoveStep ==
  ASSUME IInv, NEW t \in Tasks,
         PassOver(t) \/ ScanDone(t) \/ SettleOk(t) \/ NextPass(t)
  PROVE  IInv'
<1>1. TypeOK
  BY DEF IInv
<1>2. TypeOK'
  <2>1. CASE PassOver(t)
    BY <1>1, <2>1 DEF PassOver, Scanning, ScanOn, TypeOK
  <2>2. CASE ScanDone(t)
    <3>1. (progress[t] \/ Batch(t) # {}) \in BOOLEAN
      BY <1>1 DEF TypeOK
    <3> QED
      BY <1>1, <2>2, <3>1 DEF ScanDone, Goto, TypeOK, Labels
  <2>3. CASE SettleOk(t) \/ NextPass(t)
    BY <1>1, <2>3 DEF SettleOk, NextPass, Goto, TypeOK, Labels
  <2> QED
    BY <2>1, <2>2, <2>3
<1>3. UNCHANGED <<store, obj, phase, snapshot>>
  BY DEF PassOver, ScanDone, SettleOk, NextPass
<1>4. StoreSound'
  BY <1>3 DEF IInv, StoreSound
<1>5. /\ pc[t] # "idle" /\ pc'[t] # "idle"
      /\ pc'[t] = "scan" => pc[t] = "scan"
      /\ \A u \in Tasks \ {t} : pc'[u] = pc[u]
  BY <1>1 DEF PassOver, Scanning, ScanDone, SettleOk, NextPass, Goto, TypeOK
<1> QED
  BY <1>2, <1>3, <1>4, <1>5, MoveSound

LEMMA GatherDoneStep ==
  ASSUME IInv, NEW t \in Tasks, GatherDone(t)
  PROVE  IInv'
<1>1. /\ pc[t] = "gather"
      /\ Save(held[t], obj[t])
      /\ pc' = [pc EXCEPT ![t] = "settle"]
      /\ UNCHANGED <<held, obj, index, progress, phase, snapshot>>
  BY DEF GatherDone, Goto
<1>2. TypeOK /\ held[t] \in Runs /\ Sound(obj[t])
  BY <1>1 DEF IInv, TypeOK, TaskSound
<1>3. StoreSound' /\ store' \in [Runs -> WorkflowRun \cup {NoRun}]
  BY <1>1, <1>2, SaveSound
<1>4. TypeOK'
  BY <1>1, <1>2, <1>3 DEF TypeOK, Labels
<1>5. pc'[t] = "settle" /\ \A u \in Tasks \ {t} : pc'[u] = pc[u]
  BY <1>1, <1>2 DEF TypeOK
<1> QED
  BY <1>1, <1>3, <1>4, <1>5, MoveSound

\* The ends of a run: its status changes, its nodes do not.
LEMMA EndStep ==
  ASSUME IInv, NEW t \in Tasks, SettleFailed(t) \/ Complete(t) \/ Blocked(t)
  PROVE  IInv'
<1>1. pc[t] # "idle" /\ Return(t)
  BY DEF SettleFailed, Complete, Blocked
<1>2. Sound(obj[t]) /\ obj[t] \in WorkflowRun
  BY <1>1 DEF IInv, TaskSound, Sound
<1>3. ASSUME NEW s \in RunStatus, Save(held[t], EndWith(obj[t], s))
      PROVE  IInv'
  <2>1. Sound(EndWith(obj[t], s))
    BY <1>2, BookkeepingEffect, UntouchedSound
  <2> QED
    BY <1>1, <1>3, <2>1, SaveReturnSound
<1>4. CASE SettleFailed(t)
  BY <1>3, <1>4 DEF SettleFailed, SettleFailure, RunStatus
<1>5. CASE Complete(t)
  BY <1>3, <1>5 DEF Complete, RunStatus
<1>6. CASE Blocked(t)
  BY <1>1, <1>3, <1>6, UnsavedReturnSound DEF Blocked, RunStatus
<1> QED
  BY <1>4, <1>5, <1>6

LEMMA DriveStepStep ==
  ASSUME IInv, NEW t \in Tasks, DriveStep(t)
  PROVE  IInv'
BY DriveTopStep, MoveStep, SkipStep, AskApprovalStep, EnqueueStep, GatherDoneStep,
   EndStep DEF DriveStep

LEMMA CrashStep ==
  ASSUME IInv, Crash
  PROVE  IInv'
<1>1. TypeOK'
  BY NullFacts DEF IInv, TypeOK, Crash, Labels
<1>2. StoreSound'
  BY DEF IInv, StoreSound, Crash
<1>3. ASSUME NEW t \in Tasks
      PROVE  TaskSound(t)'
  <2>1. pc'[t] = "idle" /\ phase'[t] = NoPhase
    BY DEF Crash
  <2> QED
    BY <2>1, IdleBatchSound DEF TaskSound
<1> QED
  BY <1>1, <1>2, <1>3 DEF IInv

-----------------------------------------------------------------------------

LEMMA IInvInit == Init => IInv
<1> SUFFICES ASSUME Init
             PROVE  IInv
  OBVIOUS
<1>1. TypeOK
  BY NullFacts DEF Init, TypeOK, Labels
<1>2. StoreSound
  BY DEF Init, StoreSound
<1>3. ASSUME NEW t \in Tasks
      PROVE  TaskSound(t)
  BY IdleBatchSound DEF Init, TaskSound
<1> QED
  BY <1>1, <1>2, <1>3 DEF IInv

LEMMA IInvNext == IInv /\ [Next]_vars => IInv'
<1> SUFFICES ASSUME IInv, [Next]_vars
             PROVE  IInv'
  OBVIOUS
<1>1. CASE UNCHANGED vars
  BY <1>1 DEF vars, IInv, TypeOK, StoreSound, TaskSound
<1>2. ASSUME NEW t \in Tasks, Request(t)
      PROVE  IInv'
  BY <1>2, RequestStep
<1>3. ASSUME NEW t \in Tasks, TaskStep(t)
      PROVE  IInv'
  BY <1>3, DriveStepStep, NodeProgressStep DEF TaskStep
<1>4. ASSUME NEW t \in Tasks, NEW n \in Nodes, AgentEscapes(t, n)
      PROVE  IInv'
  BY <1>4, UnsavedReturnSound DEF AgentEscapes
<1>5. ASSUME NEW t \in Tasks, SaveFails(t)
      PROVE  IInv'
  BY <1>5, UnsavedReturnSound DEF SaveFails
<1>6. CASE Crash
  BY <1>6, CrashStep
<1> QED
  BY <1>1, <1>2, <1>3, <1>4, <1>5, <1>6 DEF Next

LEMMA IInvHolds == Spec => []IInv
BY IInvInit, IInvNext, PTL DEF Spec

\* The variables keep their types: the store holds runs of the shape
\* orchestrator.py reads back, and a request in service holds one of its own.
THEOREM TypeCorrect == Spec => []TypeOK
<1>1. IInv => TypeOK
  BY DEF IInv
<1> QED
  BY <1>1, IInvHolds, PTL

LEMMA CopiesSound ==
  ASSUME IInv, NEW run \in Copies
  PROVE  Sound(run)
BY DEF IInv, Copies, Stored, StoreSound, TaskSound

\* _drive starts a node only when the nodes it depends on are done, and none of
\* these is undone under it, whatever happens in the batch, in other requests
\* and after a restart.
THEOREM OrderKept == Spec => []DependencyOrder
<1>1. IInv => DependencyOrder
  BY CopiesSound DEF DependencyOrder, Sound
<1> QED
  BY <1>1, IInvHolds, PTL

\* Nothing downstream of a gate starts before approve has recorded the
\* approval of the current plan: the condition under which a gate was skipped
\* cannot change once it is.
THEOREM GatesHold == Spec => []GateHonoured
<1>1. IInv => GateHonoured
  BY CopiesSound, SoundGates DEF GateHonoured
<1> QED
  BY <1>1, IInvHolds, PTL

\* The artifacts of a run are those its successful agents produced for the
\* current plan: neither a rollback in _execute_node nor a replan mixes them.
THEOREM ArtifactsTraced == Spec => []ArtifactProvenance
<1>1. IInv => ArtifactProvenance
  BY CopiesSound DEF ArtifactProvenance, Sound
<1> QED
  BY <1>1, IInvHolds, PTL

\* A mutating node executes alone in its batch, on the artifacts its snapshot
\* holds, in every graph where each node is up or downstream of it.
THEOREM MutationAlone == Spec => []MutationIsolated
<1>1. IInv => MutationIsolated
  <2> SUFFICES ASSUME IInv, NEW t \in Tasks, NEW m \in Mutating, phase[t][m] \in Active
               PROVE  Batch(t) = {m} /\ snapshot[t][m] = obj[t].artifacts
    BY DEF MutationIsolated
  <2>1. m \in Nodes /\ phase[t][m] # "none"
    BY NullFacts DEF Active
  <2>2. BatchSound(pc[t], obj[t], phase[t], snapshot[t])
    BY DEF IInv, TaskSound
  <2> QED
    BY <2>1, <2>2 DEF BatchSound, Batch
<1> QED
  BY <1>1, IInvHolds, PTL

-----------------------------------------------------------------------------
(***************************************************************************)
(* The budgets, over the steps of the tasks.  Between two suspensions the  *)
(* phase of a node remembers what the tests of _execute_node have found.   *)
(***************************************************************************)
Spending(run, batch) ==
  \A n \in Nodes :
    /\ batch[n] = "sleep" => run.nodes[n].attempts < NODE_MAP[n].max_attempts
    /\ batch[n] = "fallback" => /\ run.nodes[n].attempts = NODE_MAP[n].max_attempts
                                /\ run.first_failure_at # NoNode

BInv ==
  /\ IInv
  /\ \A r \in Runs : store[r] # NoRun => WithinBudget(store[r])
  /\ \A t \in Tasks : pc[t] # "idle" => WithinBudget(obj[t]) /\ Spending(obj[t], phase[t])

\* A step that saves nothing but what is within its budget.
SavesWithin ==
  \/ UNCHANGED store
  \/ \E r \in Runs, run \in WorkflowRun : Save(r, run) /\ WithinBudget(run)

\* A step of task t, as the others see it.
OthersStay(t) ==
  \A u \in Tasks \ {t} : pc'[u] = pc[u] /\ obj'[u] = obj[u] /\ phase'[u] = phase[u]

LEMMA BudgetStep ==
  ASSUME BInv, IInv', NEW t \in Tasks, SavesWithin, OthersStay(t),
         pc'[t] # "idle" => WithinBudget(obj'[t]) /\ Spending(obj'[t], phase'[t])
  PROVE  BInv'
<1>1. ASSUME NEW r \in Runs, store'[r] # NoRun
      PROVE  WithinBudget(store'[r])
  <2>1. CASE UNCHANGED store
    BY <1>1, <2>1 DEF BInv
  <2>2. ASSUME NEW s \in Runs, NEW run \in WorkflowRun, Save(s, run), WithinBudget(run)
        PROVE  WithinBudget(store'[r])
    <3>1. store'[r] = IF r = s THEN run ELSE store[r]
      BY <2>2 DEF Save, BInv, IInv, TypeOK
    <3> QED
      BY <1>1, <2>2, <3>1 DEF BInv
  <2> QED
    BY <2>1, <2>2 DEF SavesWithin
<1>2. ASSUME NEW u \in Tasks, pc'[u] # "idle"
      PROVE  WithinBudget(obj'[u]) /\ Spending(obj'[u], phase'[u])
  <2>1. CASE u = t
    BY <1>2, <2>1
  <2>2. CASE u # t
    BY <1>2, <2>2 DEF BInv, OthersStay
  <2> QED
    BY <2>1, <2>2
<1>3. /\ \A r \in Runs : WithinBudget(store[r])' = WithinBudget(store'[r])
      /\ \A u \in Tasks : /\ WithinBudget(obj[u])' = WithinBudget(obj'[u])
                          /\ Spending(obj[u], phase[u])' = Spending(obj'[u], phase'[u])
  BY DEF WithinBudget, Spending, Status
<1> QED
  BY <1>1, <1>2, <1>3 DEF BInv

LEMMA ReturnWithinBudget ==
  ASSUME BInv, IInv', NEW t \in Tasks, Return(t), SavesWithin
  PROVE  BInv'
<1>1. pc'[t] = "idle" /\ OthersStay(t)
  BY DEF Return, BInv, IInv, TypeOK, OthersStay
<1>2. pc'[t] # "idle" => WithinBudget(obj'[t]) /\ Spending(obj'[t], phase'[t])
  BY <1>1
<1> QED
  BY <1>1, <1>2, BudgetStep

LEMMA EnterDriveWithinBudget ==
  ASSUME BInv, IInv', NEW t \in Tasks, NEW r \in Runs, NEW run \in WorkflowRun,
         pc[t] = "idle", Save(r, run), EnterDrive(t, r, run), WithinBudget(run)
  PROVE  BInv'
<1>1. obj'[t] = run /\ phase'[t] = phase[t] /\ OthersStay(t) /\ SavesWithin
  BY DEF EnterDrive, BInv, IInv, TypeOK, OthersStay, SavesWithin
<1>2. \A n \in Nodes : phase[t][n] = "none"
  BY DEF BInv, IInv, TaskSound, BatchSound
<1>3. Spending(obj'[t], phase'[t])
  BY <1>1, <1>2 DEF Spending
<1> QED
  BY <1>1, <1>3, BudgetStep

\* A gate spends nothing.
LEMMA DecisionWithinBudget ==
  ASSUME NEW run \in WorkflowRun, NEW g \in Nodes, WithinBudget(run),
         Status(run, g) = "WAITING_APPROVAL"
  PROVE  WithinBudget(ApproveGate(run, g)) /\ WithinBudget(RejectGate(run, g))
BY RequestSpends, SpendsNothingWithin

\* A new run, and a new plan, have spent nothing.
LEMMA FreshWithinBudget ==
  ASSUME NEW run, \A n \in Nodes : run.nodes[n] = NewExecution
  PROVE  WithinBudget(run)
<1>1. \A n \in Nodes : 0 <= NODE_MAP[n].max_attempts
  BY BudgetFacts
<1> QED
  BY <1>1 DEF WithinBudget, NewExecution

LEMMA RequestBudget ==
  ASSUME BInv, IInv', NEW t \in Tasks, Request(t)
  PROVE  BInv'
<1> SUFFICES ASSUME NEW r \in Runs,
         \/ \E requirement \in Requirements, scenario_type \in Scenarios,
               metadata \in Metadata :
              StartRun(t, r, requirement, scenario_type, metadata)
         \/ \E g \in Gates : Approve(t, r, g) \/ Reject(t, r, g)
         \/ \E requirement \in Requirements : Replan(t, r, requirement)
             PROVE  BInv'
  BY DEF Request, PostRun, PostApproval, PostReplan
<1>1. ASSUME NEW requirement \in Requirements, NEW scenario_type \in Scenarios,
             NEW metadata \in Metadata,
             StartRun(t, r, requirement, scenario_type, metadata)
      PROVE  BInv'
  <2> DEFINE run == NewRun(requirement, scenario_type, metadata)
  <2>1. run \in WorkflowRun
    BY OrchestratorConstants, NewRunFresh DEF OrchestratorConstants, Fresh
  <2>2. WithinBudget(run)
    BY FreshWithinBudget DEF NewRun
  <2>3. pc[t] = "idle" /\ Save(r, run) /\ EnterDrive(t, r, run)
    BY <1>1 DEF StartRun, CanServe
  <2> HIDE DEF run
  <2> QED
    BY <2>1, <2>2, <2>3, EnterDriveWithinBudget
<1>2. ASSUME NEW g \in Gates, Waiting(r, g)
      PROVE  /\ store[r] \in WorkflowRun /\ Sound(store[r]) /\ g \in Nodes
             /\ WithinBudget(ApproveGate(store[r], g))
             /\ WithinBudget(RejectGate(store[r], g))
  <2>1. /\ g \in Nodes /\ store[r] \in WorkflowRun /\ Sound(store[r])
        /\ Status(store[r], g) = "WAITING_APPROVAL"
    BY <1>2, WaitingGate DEF BInv
  <2>2. WithinBudget(store[r])
    BY <1>2 DEF BInv, Waiting
  <2> QED
    BY <2>1, <2>2, DecisionWithinBudget
<1>3. ASSUME NEW g \in Gates, Approve(t, r, g)
      PROVE  BInv'
  <2> DEFINE run == ApproveGate(store[r], g)
  <2>1. Waiting(r, g) /\ pc[t] = "idle" /\ Save(r, run) /\ EnterDrive(t, r, run)
    BY <1>3 DEF Approve, CanServe
  <2>2. run \in WorkflowRun /\ WithinBudget(run)
    BY <1>2, <2>1, ApproveGateEffect DEF Local
  <2> HIDE DEF run
  <2> QED
    BY <2>1, <2>2, EnterDriveWithinBudget
<1>4. ASSUME NEW g \in Gates, Reject(t, r, g)
      PROVE  BInv'
  <2> DEFINE run == RejectGate(store[r], g)
  <2>1. Waiting(r, g) /\ pc[t] = "idle" /\ Save(r, run)
        /\ UNCHANGED <<pc, held, obj, index, progress, phase, snapshot>>
    BY <1>4 DEF Reject, CanServe
  <2>2. run \in WorkflowRun /\ WithinBudget(run)
    BY <1>2, <2>1, RejectGateEffect DEF Local
  <2> HIDE DEF run
  <2>3. SavesWithin /\ OthersStay(t) /\ pc'[t] = "idle"
    BY <2>1, <2>2 DEF SavesWithin, OthersStay
  <2>4. pc'[t] # "idle" => WithinBudget(obj'[t]) /\ Spending(obj'[t], phase'[t])
    BY <2>3
  <2> QED
    BY <2>3, <2>4, BudgetStep
<1>5. ASSUME NEW requirement \in Requirements, Replan(t, r, requirement)
      PROVE  BInv'
  <2> DEFINE run == ReplanRun(store[r], requirement)
  <2>1. pc[t] = "idle" /\ store[r] # NoRun /\ Save(r, run) /\ EnterDrive(t, r, run)
    BY <1>5 DEF Replan, CanServe
  <2>2. store[r] \in WorkflowRun
    BY <2>1 DEF BInv, IInv, TypeOK
  <2>3. Fresh(run)
    BY <2>2, OrchestratorConstants, ReplanRunFresh DEF OrchestratorConstants
  <2>4. \A n \in Nodes : run.nodes[n] = NewExecution
    <3>1. Affected = Nodes
      BY RootCovers DEF RootCovers, Affected
    <3> QED
      BY <2>2, <3>1 DEF ReplanRun, NewPlan, WorkflowRun
  <2> HIDE DEF run
  <2>5. run \in WorkflowRun /\ WithinBudget(run)
    BY <2>3, <2>4, FreshWithinBudget DEF Fresh
  <2> QED
    BY <2>1, <2>5, EnterDriveWithinBudget
<1> QED
  BY <1>1, <1>3, <1>4, <1>5

LEMMA NodeStepBudget ==
  ASSUME BInv, IInv', NEW t \in Tasks, NEW n \in Nodes, NEW p, NEW run,
         pc[t] = "gather", NodeStep(t, n, p, run),
         WithinBudget(run), Noted(obj[t], run),
         \A m \in Nodes \ {n} : run.nodes[m] = obj[t].nodes[m],
         p = "sleep" => run.nodes[n].attempts < NODE_MAP[n].max_attempts,
         p = "fallback" => /\ run.nodes[n].attempts = NODE_MAP[n].max_attempts
                           /\ run.first_failure_at # NoNode
  PROVE  BInv'
<1>1. /\ obj'[t] = run
      /\ phase'[t] = [phase[t] EXCEPT ![n] = p]
      /\ phase[t] \in [Nodes -> Phases]
      /\ OthersStay(t) /\ SavesWithin
  BY DEF NodeStep, BInv, IInv, TypeOK, OthersStay, SavesWithin
<1>2. Spending(obj[t], phase[t])
  BY DEF BInv
<1>3. Spending(run, phase'[t])
  <2> SUFFICES ASSUME NEW m \in Nodes
               PROVE  /\ phase'[t][m] = "sleep" =>
                           run.nodes[m].attempts < NODE_MAP[m].max_attempts
                      /\ phase'[t][m] = "fallback" =>
                           /\ run.nodes[m].attempts = NODE_MAP[m].max_attempts
                           /\ run.first_failure_at # NoNode
    BY DEF Spending
  <2>1. CASE m = n
    BY <1>1, <2>1
  <2>2. CASE m # n
    <3>1. phase'[t][m] = phase[t][m] /\ run.nodes[m] = obj[t].nodes[m]
      BY <1>1, <2>2
    <3> QED
      BY <1>2, <3>1 DEF Spending, Noted
  <2> QED
    BY <2>1, <2>2
<1> QED
  BY <1>1, <1>3, BudgetStep

\* A node step that leaves its node's attempts.
LEMMA ThriftyStep ==
  ASSUME BInv, IInv', NEW t \in Tasks, NEW n \in Nodes, NEW run,
         InBatch(t, n, Active), NodeStep(t, n, "done", run),
         SpendsNothing(obj[t], run, n)
  PROVE  BInv'
<1>1. /\ obj[t] \in WorkflowRun /\ pc[t] = "gather"
      /\ Status(obj[t], n) # "SUCCESS" /\ WithinBudget(obj[t])
  BY ActiveNode DEF BInv
<1>2. WithinBudget(run)
  BY <1>1, SpendsNothingWithin
<1> QED
  BY <1>1, <1>2, NodeStepBudget DEF SpendsNothing, Spends

LEMMA NodeProgressBudget ==
  ASSUME BInv, IInv', NEW t \in Tasks, NEW n \in Nodes, NodeProgress(t, n)
  PROVE  BInv'
<1>1. NODE_MAP[n].max_attempts \in Nat /\ NODE_MAP[n].max_attempts >= 1
  BY BudgetFacts
<1>2. ASSUME NEW phases \in SUBSET Active, InBatch(t, n, phases)
      PROVE  /\ pc[t] = "gather" /\ InBatch(t, n, Active)
             /\ obj[t] \in WorkflowRun /\ Status(obj[t], n) # "SUCCESS"
             /\ WithinBudget(obj[t]) /\ Spending(obj[t], phase[t])
             /\ obj[t].nodes[n].attempts \in Nat
             /\ obj[t].nodes[n].attempts <= NODE_MAP[n].max_attempts
  <2>1. pc[t] = "gather" /\ obj[t] \in WorkflowRun /\ Status(obj[t], n) = "RUNNING"
    BY <1>2, ActiveNode DEF BInv
  <2>2. WithinBudget(obj[t]) /\ Spending(obj[t], phase[t])
    BY <2>1 DEF BInv
  <2>3. obj[t].nodes[n].attempts \in Nat
    BY <2>1 DEF WorkflowRun, NodeExecution
  <2> QED
    BY <1>2, <2>1, <2>2, <2>3 DEF InBatch, WithinBudget
<1>3. SnapshotOf(t, n) \in [Nodes -> Artifact]
  BY SnapshotType DEF BInv, IInv
<1>4. CASE BeginNode(t, n)
  <2> DEFINE run == StartNode(obj[t], n)
  <2>1. pc[t] = "gather" /\ phase[t][n] = "queued" /\ NodeStep(t, n, "agent", run)
    BY <1>4 DEF BeginNode, InBatch
  <2>2. /\ obj[t] \in WorkflowRun /\ WithinBudget(obj[t])
        /\ Status(obj[t], n) = "PENDING"
    BY <2>1 DEF BInv, IInv, TypeOK, TaskSound, BatchSound
  <2>3. Spends(obj[t], run, n, 1)
    BY <2>2, AttemptSpends
  <2> HIDE DEF run
  <2>4. WithinBudget(run)
    BY <1>1, <2>2, <2>3, SpendsWithin
  <2> QED
    BY <2>1, <2>3, <2>4, NodeStepBudget DEF Spends
<1>5. CASE AgentSucceeds(t, n) \/ AgentUnsafe(t, n) \/ FallbackFails(t, n)
  <2>1. ASSUME NEW phases \in SUBSET Active, NEW run, InBatch(t, n, phases),
               NodeStep(t, n, "done", run),
               run \in {AcceptResult(obj[t], n), PolicyStop(obj[t], n, SnapshotOf(t, n)),
                        GiveUp(obj[t], n, SnapshotOf(t, n))}
        PROVE  BInv'
    <3>1. obj[t] \in WorkflowRun /\ InBatch(t, n, Active)
      BY <1>2, <2>1
    <3>2. SpendsNothing(obj[t], run, n)
      BY <1>3, <2>1, <3>1, ExecutionSpends
    <3> QED
      BY <2>1, <3>1, <3>2, ThriftyStep
  <2>2. CASE AgentSucceeds(t, n)
    BY <2>1, <2>2, PhaseFacts DEF AgentSucceeds, Answers
  <2>3. CASE AgentUnsafe(t, n)
    BY <2>1, <2>3, PhaseFacts DEF AgentUnsafe, Answers
  <2>4. CASE FallbackFails(t, n)
    BY <2>1, <2>4, PhaseFacts DEF FallbackFails, FallbackAnswers
  <2> QED
    BY <1>5, <2>2, <2>3, <2>4
<1>6. ASSUME InBatch(t, n, {"agent"})
      PROVE  LET noted == NoteFailure(obj[t], n)
             IN  /\ noted \in WorkflowRun /\ SpendsNothing(obj[t], noted, n)
                 /\ noted.first_failure_at # NoNode /\ noted.nodes = obj[t].nodes
  <2>1. obj[t] \in WorkflowRun
    BY <1>2, <1>6, PhaseFacts
  <2> QED
    BY <1>3, <2>1, ExecutionSpends, BooksNoted, BookkeepingEffect
    DEF SpendsNothing, Spends, Untouched
<1>7. CASE AgentFailsEarly(t, n)
  <2> DEFINE noted == NoteFailure(obj[t], n)
             run == CountRetry(noted)
  <2>1. InBatch(t, n, {"agent"}) /\ AttemptsLeft(t, n) /\ NodeStep(t, n, "sleep", run)
    BY <1>7 DEF AgentFailsEarly, Answers
  <2>2. noted \in WorkflowRun /\ SpendsNothing(obj[t], noted, n)
    BY <1>6, <2>1
  <2> HIDE DEF noted
  <2>3. SpendsNothing(noted, run, n)
    BY <1>3, <2>2, ExecutionSpends
  <2> HIDE DEF run
  <2>4. SpendsNothing(obj[t], run, n)
    BY <2>2, <2>3, SpendsTwice
  <2>5. WithinBudget(run) /\ pc[t] = "gather"
    BY <1>2, <2>1, <2>4, SpendsNothingWithin, PhaseFacts
  <2> QED
    BY <2>1, <2>4, <2>5, NodeStepBudget DEF SpendsNothing, Spends, AttemptsLeft
<1>8. CASE AgentFailsFinally(t, n)
  <2> DEFINE noted == NoteFailure(obj[t], n)
             run   == GiveUp(noted, n, SnapshotOf(t, n))
  <2>1. /\ InBatch(t, n, {"agent"}) /\ ~AttemptsLeft(t, n)
        /\ NodeStep(t, n, "fallback", noted) \/ NodeStep(t, n, "done", run)
    BY <1>8 DEF AgentFailsFinally, Answers
  <2>2. /\ noted \in WorkflowRun /\ SpendsNothing(obj[t], noted, n)
        /\ noted.first_failure_at # NoNode
    BY <1>6, <2>1
  <2> HIDE DEF noted
  <2>3. SpendsNothing(noted, run, n)
    BY <1>3, <2>2, ExecutionSpends
  <2> HIDE DEF run
  <2>4. SpendsNothing(obj[t], run, n)
    BY <2>2, <2>3, SpendsTwice
  <2>5. /\ obj[t] \in WorkflowRun /\ WithinBudget(obj[t]) /\ pc[t] = "gather"
        /\ Status(obj[t], n) # "SUCCESS" /\ InBatch(t, n, Active)
        /\ obj[t].nodes[n].attempts \in Nat
        /\ obj[t].nodes[n].attempts <= NODE_MAP[n].max_attempts
    BY <1>2, <2>1, PhaseFacts
  <2>6. CASE NodeStep(t, n, "fallback", noted)
    <3>1. WithinBudget(noted)
      BY <2>2, <2>5, SpendsNothingWithin
    <3>2. noted.nodes[n].attempts = obj[t].nodes[n].attempts
      BY <2>2 DEF SpendsNothing, Spends
    <3>3. noted.nodes[n].attempts = NODE_MAP[n].max_attempts
      BY <1>1, <2>1, <2>5, <3>2 DEF AttemptsLeft
    <3>4. Noted(obj[t], noted) /\ \A m \in Nodes \ {n} : noted.nodes[m] = obj[t].nodes[m]
      BY <2>2 DEF SpendsNothing, Spends
    <3> QED
      BY <2>2, <2>5, <2>6, <3>1, <3>3, <3>4, NodeStepBudget
  <2>7. CASE NodeStep(t, n, "done", run)
    BY <2>4, <2>5, <2>7, ThriftyStep
  <2> QED
    BY <2>1, <2>6, <2>7
<1>9. CASE Wake(t, n)
  <2> DEFINE run == NextAttempt(obj[t], n)
             spent == obj[t].nodes[n].attempts + 1
  <2>1. /\ InBatch(t, n, {"sleep"}) /\ phase[t][n] = "sleep"
        /\ NodeStep(t, n, "agent", run)
    BY <1>9 DEF Wake, InBatch
  <2>2. /\ obj[t] \in WorkflowRun /\ WithinBudget(obj[t]) /\ pc[t] = "gather"
        /\ Status(obj[t], n) # "SUCCESS" /\ Spending(obj[t], phase[t])
        /\ obj[t].nodes[n].attempts \in Nat
    BY <1>2, <2>1, PhaseFacts
  <2>3. spent <= NODE_MAP[n].max_attempts
    BY <1>1, <2>1, <2>2 DEF Spending
  <2>4. Spends(obj[t], run, n, spent)
    BY <2>2, AttemptSpends
  <2> HIDE DEF run, spent
  <2>5. WithinBudget(run)
    BY <2>2, <2>3, <2>4, SpendsWithin
  <2> QED
    BY <2>1, <2>2, <2>4, <2>5, NodeStepBudget DEF Spends
<1>10. CASE FallbackSucceeds(t, n)
  <2> PICK outcome \in {"ok", "critical"} :
             /\ FallbackAnswers(t, n, outcome)
             /\ NodeStep(t, n, "done", AcceptFallback(obj[t], n, outcome = "critical"))
    BY <1>10 DEF FallbackSucceeds
  <2> DEFINE isCritical == outcome = "critical"
             run == AcceptFallback(obj[t], n, isCritical)
  <2>1. /\ InBatch(t, n, {"fallback"}) /\ phase[t][n] = "fallback"
        /\ NodeStep(t, n, "done", run)
    BY DEF FallbackAnswers, InBatch
  <2>2. isCritical \in BOOLEAN
    OBVIOUS
  <2> HIDE DEF isCritical
  <2>3. /\ obj[t] \in WorkflowRun /\ WithinBudget(obj[t]) /\ pc[t] = "gather"
        /\ Spending(obj[t], phase[t])
    BY <1>2, <2>1, PhaseFacts
  <2>4. /\ WithinBudget(run) /\ Noted(obj[t], run)
        /\ \A m \in Nodes \ {n} : run.nodes[m] = obj[t].nodes[m]
    BY <2>1, <2>2, <2>3, FallbackWithinBudget DEF Spending
  <2> HIDE DEF run
  <2> QED
    BY <2>1, <2>3, <2>4, NodeStepBudget
<1> QED
  BY <1>4, <1>5, <1>7, <1>8, <1>9, <1>10 DEF NodeProgress

LEMMA DriveStepBudget ==
  ASSUME BInv, IInv', NEW t \in Tasks, DriveStep(t)
  PROVE  BInv'
<1>1. TypeOK
  BY DEF BInv, IInv
<1>2. /\ obj[t] \in WorkflowRun /\ held[t] \in Runs
      /\ WithinBudget(obj[t]) /\ Spending(obj[t], phase[t])
  <2>1. pc[t] # "idle"
    BY DEF DriveStep, DriveTop, PassOver, Skip, AskApproval, Enqueue, ScanDone, GatherDone,
           SettleFailed, SettleOk, Complete, Blocked, NextPass, Scanning
  <2> QED
    BY <1>1, <2>1 DEF BInv, TypeOK
<1>3. CASE DriveTop(t)
  <2>1. CASE obj[t].status \in Terminal
    BY <1>3, <2>1, ReturnWithinBudget DEF DriveTop, SavesWithin
  <2>2. CASE obj[t].status \notin Terminal
    <3>1. phase'[t] = NoPhase /\ obj'[t] = obj[t] /\ OthersStay(t) /\ SavesWithin
      BY <1>1, <1>3, <2>2 DEF DriveTop, Goto, TypeOK, OthersStay, SavesWithin
    <3>2. Spending(obj'[t], phase'[t])
      BY <3>1 DEF Spending, NoPhase
    <3> QED
      BY <1>2, <3>1, <3>2, BudgetStep
  <2> QED
    BY <2>1, <2>2
<1>4. CASE PassOver(t) \/ ScanDone(t) \/ SettleOk(t) \/ NextPass(t)
  <2>1. UNCHANGED <<store, obj, phase>> /\ OthersStay(t)
    BY <1>1, <1>4 DEF PassOver, ScanDone, SettleOk, NextPass, Goto, TypeOK, OthersStay
  <2> QED
    BY <1>2, <2>1, BudgetStep DEF SavesWithin
<1>5. CASE Skip(t)
  <2> DEFINE n   == Scanned(t)
             run == SkipNode(obj[t], n)
  <2>1. n \in Nodes /\ Status(obj[t], n) = "PENDING"
    BY <1>5, ReadyNode DEF Skip, BInv
  <2>2. SpendsNothing(obj[t], run, n)
    BY <1>2, <2>1, SetStatusSpends, StatusNames DEF SkipNode
  <2>3. obj'[t] = run /\ phase' = phase /\ OthersStay(t) /\ SavesWithin
    BY <1>1, <1>5 DEF Skip, TypeOK, OthersStay, SavesWithin
  <2> HIDE DEF run, n
  <2>4. WithinBudget(run)
    BY <1>2, <2>1, <2>2, SpendsNothingWithin
  <2>5. \A m \in Nodes : run.nodes[m].attempts = obj[t].nodes[m].attempts
    BY <2>2 DEF SpendsNothing, Spends
  <2>6. Spending(run, phase[t])
    BY <1>2, <2>2, <2>5 DEF Spending, SpendsNothing, Spends, Noted
  <2> QED
    BY <2>3, <2>4, <2>6, BudgetStep
<1>6. CASE AskApproval(t)
  <2> DEFINE n   == Scanned(t)
             new == SetStatus(obj[t], n, "WAITING_APPROVAL")
             run == SetRunStatus(new, "WAITING_APPROVAL")
  <2>1. n \in Nodes /\ Status(obj[t], n) = "PENDING"
    BY <1>6, ReadyNode DEF AskApproval, BInv
  <2>2. SpendsNothing(obj[t], new, n)
    BY <1>2, <2>1, SetStatusSpends, StatusNames
  <2>3. Save(held[t], run) /\ Return(t)
    BY <1>6 DEF AskApproval, RequestApproval
  <2> HIDE DEF new, n
  <2>4. WithinBudget(new) /\ new \in WorkflowRun
    BY <1>2, <2>1, <2>2, SpendsNothingWithin DEF SpendsNothing, Spends
  <2>5. "WAITING_APPROVAL" \in RunStatus
    BY DEF RunStatus
  <2>6. WithinBudget(run) /\ run \in WorkflowRun
    BY <2>4, <2>5, StatusWithinBudget
  <2> HIDE DEF run
  <2> QED
    BY <1>2, <2>3, <2>6, ReturnWithinBudget DEF SavesWithin
<1>7. CASE Enqueue(t)
  <2>1. /\ phase'[t] = [phase[t] EXCEPT ![Scanned(t)] = "queued"]
        /\ phase[t] \in [Nodes -> Phases]
        /\ UNCHANGED <<store, obj>> /\ OthersStay(t)
    BY <1>1, <1>7 DEF Enqueue, TypeOK, OthersStay
  <2>2. Spending(obj'[t], phase'[t])
    BY <1>2, <2>1 DEF Spending
  <2> QED
    BY <1>2, <2>1, <2>2, BudgetStep DEF SavesWithin
<1>8. CASE GatherDone(t)
  <2>1. UNCHANGED <<obj, phase>> /\ OthersStay(t) /\ SavesWithin
    BY <1>1, <1>2, <1>8 DEF GatherDone, Goto, TypeOK, OthersStay, SavesWithin
  <2> QED
    BY <1>2, <2>1, BudgetStep
<1>9. ASSUME NEW s \in RunStatus, Save(held[t], EndWith(obj[t], s)), Return(t)
      PROVE  BInv'
  <2>1. EndWith(obj[t], s) \in WorkflowRun /\ WithinBudget(EndWith(obj[t], s))
    BY <1>2, <1>9, StatusWithinBudget
  <2> QED
    BY <1>2, <1>9, <2>1, ReturnWithinBudget DEF SavesWithin
<1>10. CASE SettleFailed(t)
  BY <1>9, <1>10 DEF SettleFailed, SettleFailure, RunStatus
<1>11. CASE Complete(t)
  BY <1>9, <1>11 DEF Complete, RunStatus
<1>12. CASE Blocked(t)
  BY <1>9, <1>12, ReturnWithinBudget DEF Blocked, RunStatus, SavesWithin
<1> QED
  BY <1>3, <1>4, <1>5, <1>6, <1>7, <1>8, <1>10, <1>11, <1>12 DEF DriveStep

LEMMA BInvInit == Init => BInv
<1> SUFFICES ASSUME Init
             PROVE  BInv
  OBVIOUS
<1>1. \A r \in Runs : store[r] = NoRun
  BY DEF Init
<1>2. \A t \in Tasks : pc[t] = "idle"
  BY DEF Init
<1> QED
  BY <1>1, <1>2, IInvInit DEF BInv

LEMMA BInvNext == BInv /\ [Next]_vars => BInv'
<1> SUFFICES ASSUME BInv, [Next]_vars
             PROVE  BInv'
  OBVIOUS
<1>1. IInv'
  BY IInvNext DEF BInv
<1>2. CASE UNCHANGED vars
  <2>1. UNCHANGED <<store, pc, obj, phase>>
    BY <1>2 DEF vars
  <2> QED
    BY <1>1, <2>1 DEF BInv, WithinBudget, Spending, Status
<1>3. ASSUME NEW t \in Tasks, Request(t)
      PROVE  BInv'
  BY <1>1, <1>3, RequestBudget
<1>4. ASSUME NEW t \in Tasks, TaskStep(t)
      PROVE  BInv'
  BY <1>1, <1>4, DriveStepBudget, NodeProgressBudget DEF TaskStep
<1>5. ASSUME NEW t \in Tasks, NEW n \in Nodes, AgentEscapes(t, n)
      PROVE  BInv'
  BY <1>1, <1>5, ReturnWithinBudget DEF AgentEscapes, SavesWithin
<1>6. ASSUME NEW t \in Tasks, SaveFails(t)
      PROVE  BInv'
  BY <1>1, <1>6, ReturnWithinBudget DEF SaveFails, SavesWithin
<1>7. CASE Crash
  <2>1. UNCHANGED store /\ \A t \in Tasks : pc'[t] = "idle"
    BY <1>7 DEF Crash
  <2>2. \A r \in Runs : WithinBudget(store[r])' = WithinBudget(store[r])
    BY <2>1 DEF WithinBudget, Status
  <2> QED
    BY <1>1, <2>1, <2>2 DEF BInv
<1> QED
  BY <1>2, <1>3, <1>4, <1>5, <1>6, <1>7 DEF Next

LEMMA BInvHolds == Spec => []BInv
BY BInvInit, BInvNext, PTL DEF Spec

\* No node is attempted more often than its definition allows, and a fallback
\* speaks for it only when _execute_node has made and noted every attempt,
\* across retries, rollbacks, new plans, crashes and failed saves.
THEOREM AttemptsBounded == Spec => []BudgetsKept
<1>1. BInv => BudgetsKept
  BY DEF BInv, BudgetsKept, Copies, Stored
<1> QED
  BY <1>1, BInvHolds, PTL

=============================================================================
