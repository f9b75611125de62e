-------------------------- MODULE SingleRequestProofs --------------------------
(***************************************************************************)
(* What the store shows of a run from one save to the next, while requests *)
(* come one at a time: with two of them at once a save may undo another,   *)
(* as the run lost_replan shows.                                           *)
(***************************************************************************)
EXTENDS RunOutcomeProofs

OneRequest == \A t, u \in Tasks : t = u

-----------------------------------------------------------------------------
\* What a decision on a gate does to the run.

\* The nodes and the answers of the others are kept, the plan goes on.
Decides(run, new, g) ==
  /\ new.plan_version = run.plan_version
  /\ new.artifacts = run.artifacts
  /\ \A m \in Nodes \ {g} : /\ new.nodes[m] = run.nodes[m]
                            /\ new.approvals[m] = run.approvals[m]

LEMMA RecordApprovalKeeps ==
  ASSUME NEW run \in WorkflowRun, NEW g \in Nodes, NEW answer \in BOOLEAN
  PROVE  LET new == SetStatus(RecordApproval(run, g, answer), g, "SUCCESS")
             old == SetStatus(RecordApproval(run, g, answer), g, "SAFE_STOP")
         IN  /\ new \in WorkflowRun /\ Decides(run, new, g)
             /\ new.approvals[g] = [plan |-> run.plan_version, approved |-> answer]
             /\ old \in WorkflowRun /\ Decides(run, old, g)
             /\ old.approvals[g] = [plan |-> run.plan_version, approved |-> answer]
<1> DEFINE a == RecordApproval(run, g, answer)
<1>1. /\ a \in WorkflowRun
      /\ a.nodes = run.nodes
      /\ a.artifacts = run.artifacts
      /\ a.plan_version = run.plan_version
      /\ a.approvals[g] = [plan |-> run.plan_version, approved |-> answer]
      /\ \A m \in Nodes \ {g} : a.approvals[m] = run.approvals[m]
  BY RecordApprovalEffect DEF Local
<1> HIDE DEF a
<1>2. ASSUME NEW s \in NodeStatus
      PROVE  /\ SetStatus(a, g, s) \in WorkflowRun /\ Decides(run, SetStatus(a, g, s), g)
             /\ SetStatus(a, g, s).approvals = a.approvals
  BY <1>1, SetStatusWithin, SetStatusEffect DEF Decides, Within
<1> QED
  BY <1>1, <1>2, StatusNames DEF a

LEMMA ApproveGateKeeps ==
  ASSUME NEW run \in WorkflowRun, NEW g \in Nodes
  PROVE  LET new == ApproveGate(run, g)
         IN  /\ Decides(run, new, g)
             /\ new.status = "RUNNING"
             /\ new.approvals[g] = [plan |-> run.plan_version, approved |-> TRUE]
<1> DEFINE a == SetStatus(RecordApproval(run, g, TRUE), g, "SUCCESS")
<1>1. /\ a \in WorkflowRun /\ Decides(run, a, g)
      /\ a.approvals[g] = [plan |-> run.plan_version, approved |-> TRUE]
  BY RecordApprovalKeeps
<1>2. ApproveGate(run, g) = SetRunStatus(a, "RUNNING")
  BY DEF ApproveGate
<1> HIDE DEF a
<1>3. Untouched(a, SetRunStatus(a, "RUNNING")) /\ SetRunStatus(a, "RUNNING").status = "RUNNING"
  BY <1>1, BookkeepingEffect DEF RunStatus, SetRunStatus, WorkflowRun
<1> QED
  BY <1>1, <1>2, <1>3 DEF Decides, Untouched

LEMMA RejectGateKeeps ==
  ASSUME NEW run \in WorkflowRun, NEW g \in Nodes
  PROVE  LET new == RejectGate(run, g)
         IN  /\ Decides(run, new, g)
             /\ new.status = "SAFE_STOP"
             /\ new.approvals[g] = [plan |-> run.plan_version, approved |-> FALSE]
<1> DEFINE a == SetStatus(RecordApproval(run, g, FALSE), g, "SAFE_STOP")
<1>1. /\ a \in WorkflowRun /\ Decides(run, a, g)
      /\ a.approvals[g] = [plan |-> run.plan_version, approved |-> FALSE]
  BY RecordApprovalKeeps
<1>2. RejectGate(run, g) = EndWith(a, "SAFE_STOP")
  BY DEF RejectGate
<1> HIDE DEF a
<1>3. Untouched(a, EndWith(a, "SAFE_STOP")) /\ EndWith(a, "SAFE_STOP").status = "SAFE_STOP"
  BY <1>1, BookkeepingEffect, EndWithEffect DEF RunStatus
<1> QED
  BY <1>1, <1>2, <1>3 DEF Decides, Untouched

\* A new plan remembers no answer.
Unanswered(run) == \A n \in Nodes : run.approvals[n] = NoApproval

LEMMA ReplanRunUnanswered ==
  ASSUME NEW run \in WorkflowRun, NEW requirement \in SUBSET RequirementTraits
  PROVE  LET new == ReplanRun(run, requirement)
         IN  /\ new.plan_version = run.plan_version + 1
             /\ Unanswered(new)
<1>1. Affected = Nodes
  BY RootCovers DEF RootCovers, Affected
<1> QED
  BY <1>1 DEF ReplanRun, NewPlan, WorkflowRun, Unanswered

-----------------------------------------------------------------------------
(***************************************************************************)
(* The inductive invariant.  A request that is at work extends what the    *)
(* store shows of its run: it has undone nothing, answered nothing, and    *)
(* its books have only grown.  A gate that was answered is decided.        *)
(***************************************************************************)
Extends(run, new) ==
  /\ run.status = "RUNNING"
  /\ new.plan_version = run.plan_version
  /\ new.approvals = run.approvals
  /\ Grown(run, new)
  /\ \A n \in Nodes : Status(run, n) \in Acceptable =>
       new.nodes[n] = run.nodes[n] /\ new.artifacts[n] = run.artifacts[n]

Decided(run) ==
  \A n \in Nodes : run.approvals[n] # NoApproval => Status(run, n) \in {"SUCCESS", "SAFE_STOP"}

SInv ==
  /\ XInv
  /\ \A r \in Runs : store[r] # NoRun => Decided(store[r])
  /\ \A t \in Tasks : pc[t] # "idle" => Decided(obj[t]) /\ Extends(store[held[t]], obj[t])

LEMMA ExtendsOthersKept ==
  ASSUME NEW run \in WorkflowRun, NEW mid \in WorkflowRun, NEW new, NEW n \in Nodes,
         Extends(run, mid), Decided(mid), OthersKept(mid, new, n), Grown(mid, new)
  PROVE  Extends(run, new) /\ Decided(new)
<1>1. /\ new.plan_version = mid.plan_version
      /\ new.approvals = mid.approvals
      /\ Status(mid, n) \in {"PENDING", "RUNNING"}
      /\ \A m \in Nodes \ {n} : /\ new.nodes[m] = mid.nodes[m]
                                /\ new.artifacts[m] = mid.artifacts[m]
  BY DEF OthersKept, Within
<1>2. ASSUME NEW m \in Nodes, Status(run, m) \in Acceptable
      PROVE  new.nodes[m] = run.nodes[m] /\ new.artifacts[m] = run.artifacts[m]
  <2>1. mid.nodes[m] = run.nodes[m] /\ mid.artifacts[m] = run.artifacts[m]
    BY <1>2 DEF Extends
  <2>2. Status(mid, m) \in Acceptable
    BY <1>2, <2>1 DEF Status
  <2>3. m # n
    BY <1>1, <2>2 DEF Acceptable
  <2> QED
    BY <1>1, <2>1, <2>3
<1>3. Extends(run, new)
  <2>1. Grown(run, new)
    BY GrownTwice DEF Extends, OthersKept, Within
  <2> QED
    BY <1>1, <1>2, <2>1 DEF Extends
<1>4. \A m \in Nodes \ {n} : Status(new, m) = Status(mid, m)
  BY <1>1 DEF Status
<1>5. mid.approvals[n] = NoApproval
  BY <1>1 DEF Decided
<1>6. Decided(new)
  BY <1>1, <1>4, <1>5 DEF Decided
<1> QED
  BY <1>3, <1>6

LEMMA ExtendsUntouched ==
  ASSUME NEW run \in WorkflowRun, NEW mid \in WorkflowRun, NEW new,
         Extends(run, mid), Decided(mid), Untouched(mid, new), SameBooks(mid, new)
  PROVE  Extends(run, new) /\ Decided(new)
<1>1. Grown(run, new)
  BY SameBooksGrown, GrownTwice DEF Extends, Untouched
<1> QED
  BY <1>1 DEF Extends, Decided, Untouched, Status

\* What has just been saved extends itself.
LEMMA ExtendsSelf ==
  ASSUME NEW run \in WorkflowRun, run.status = "RUNNING"
  PROVE  Extends(run, run)
BY SameBooksGrown DEF Extends, SameBooks, SameCounts, SameOutage

LEMMA DecidesDecided ==
  ASSUME NEW run, NEW g \in Nodes, NEW new, Decided(run), Decides(run, new, g),
         Status(new, g) \in {"SUCCESS", "SAFE_STOP"}
  PROVE  Decided(new)
<1>1. \A m \in Nodes \ {g} : Status(new, m) = Status(run, m)
  BY DEF Decides, Status
<1> QED
  BY <1>1 DEF Decided, Decides

LEMMA UnansweredDecided ==
  ASSUME NEW run, Unanswered(run)
  PROVE  Decided(run)
BY DEF Unanswered, Decided

-----------------------------------------------------------------------------
(***************************************************************************)
(* What a step makes of a run in the store: nothing; a new run; an         *)
(* extension of it, saved by the request at work; a decision on the gate   *)
(* it waits for; or a new plan.                                            *)
(***************************************************************************)
Starts(new) == new.status = "RUNNING" /\ new.plan_version = 1 /\ Unanswered(new)

Answered(run, new, g) ==
  /\ Status(run, g) = "WAITING_APPROVAL"
  /\ Decides(run, new, g)
  /\ Grown(run, new)
  /\ \/ /\ new.status = "RUNNING"
        /\ Status(new, g) = "SUCCESS"
        /\ new.approvals[g] = [plan |-> run.plan_version, approved |-> TRUE]
     \/ /\ new.status = "SAFE_STOP"
        /\ Status(new, g) = "SAFE_STOP"
        /\ new.approvals[g] = [plan |-> run.plan_version, approved |-> FALSE]

Replanned(run, new) ==
  /\ new.status = "RUNNING"
  /\ new.plan_version = run.plan_version + 1
  /\ Grown(run, new)
  /\ Unanswered(new)

Becomes(run, new) ==
  \/ Extends(run, new)
  \/ \E g \in Gates : Answered(run, new, g)
  \/ Replanned(run, new)

StoreStep(r) ==
  \/ store'[r] = store[r]
  \/ store[r] = NoRun /\ store'[r] # NoRun /\ Starts(store'[r])
  \/ store[r] # NoRun /\ store'[r] # NoRun /\ Becomes(store[r], store'[r])

LEMMA SavedRun ==
  ASSUME SInv, NEW r \in Runs, NEW run \in WorkflowRun, Save(r, run)
  PROVE  /\ run # NoRun
         /\ \A s \in Runs : store'[s] = IF s = r THEN run ELSE store[s]
BY OrchestratorConstants DEF OrchestratorConstants, Save, SInv, XInv, OInv, IInv, TypeOK

LEMMA HeldRun ==
  ASSUME SInv, NEW t \in Tasks, pc[t] # "idle"
  PROVE  held[t] \in Runs /\ store[held[t]] \in WorkflowRun /\ obj[t] \in WorkflowRun
BY ActiveHolds DEF SInv, XInv, OInv, IInv, TypeOK

\* A request comes in.
LEMMA ComesIn ==
  ASSUME OneRequest, SInv, XInv', NEW t \in Tasks, NEW r \in Runs, NEW run \in WorkflowRun,
         Save(r, run), EnterDrive(t, r, run), run.status = "RUNNING", Decided(run),
         \/ store[r] = NoRun /\ Starts(run)
         \/ store[r] # NoRun /\ Becomes(store[r], run)
  PROVE  SInv' /\ \A s \in Runs : StoreStep(s)
<1>1. run # NoRun /\ \A s \in Runs : store'[s] = IF s = r THEN run ELSE store[s]
  BY SavedRun
<1>2. held'[t] = r /\ obj'[t] = run
  BY DEF EnterDrive, SInv, XInv, OInv, IInv, TypeOK
<1>3. \A s \in Runs : StoreStep(s)
  BY <1>1 DEF StoreStep
<1>4. ASSUME NEW s \in Runs, store'[s] # NoRun
      PROVE  Decided(store'[s])
  BY <1>1, <1>4 DEF SInv
<1>5. Extends(store'[r], run)
  BY <1>1, ExtendsSelf
<1>6. ASSUME NEW u \in Tasks
      PROVE  Decided(obj'[u]) /\ Extends(store'[held'[u]], obj'[u])
  <2>1. u = t
    BY DEF OneRequest
  <2> QED
    BY <1>2, <1>5, <2>1
<1>7. /\ \A s \in Runs : Decided(store[s])' = Decided(store'[s])
      /\ \A u \in Tasks : /\ Decided(obj[u])' = Decided(obj'[u])
                          /\ Extends(store[held[u]], obj[u])' = Extends(store'[held'[u]], obj'[u])
  BY DEF Decided, Extends, Grown, Noted, Status
<1> QED
  BY <1>3, <1>4, <1>6, <1>7 DEF SInv

\* The request at work saves, goes on or returns.
LEMMA WorksOn ==
  ASSUME OneRequest, SInv, XInv', NEW t \in Tasks, pc[t] # "idle",
         \/ UNCHANGED store
         \/ \E run \in WorkflowRun :
              Save(held[t], run) /\ Extends(store[held[t]], run) /\ Decided(run),
         \/ pc'[t] = "idle"
         \/ /\ held'[t] = held[t]
            /\ Decided(obj'[t])
            /\ Extends(store'[held[t]], obj'[t])
  PROVE  SInv' /\ \A s \in Runs : StoreStep(s)
<1>1. held[t] \in Runs /\ store[held[t]] # NoRun
  BY ActiveHolds DEF SInv
<1>2. ASSUME NEW s \in Runs
      PROVE  StoreStep(s) /\ (store'[s] # NoRun => Decided(store'[s]))
  <2>1. CASE UNCHANGED store
    BY <2>1 DEF StoreStep, SInv
  <2>2. ASSUME NEW run \in WorkflowRun,
               Save(held[t], run), Extends(store[held[t]], run), Decided(run)
        PROVE  StoreStep(s) /\ (store'[s] # NoRun => Decided(store'[s]))
    <3>1. run # NoRun /\ store'[s] = IF s = held[t] THEN run ELSE store[s]
      BY <1>1, <2>2, SavedRun
    <3>2. CASE s = held[t]
      BY <1>1, <2>2, <3>1, <3>2 DEF StoreStep, Becomes
    <3>3. CASE s # held[t]
      BY <3>1, <3>3 DEF StoreStep, SInv
    <3> QED
      BY <3>2, <3>3
  <2> QED
    BY <2>1, <2>2
<1>3. ASSUME NEW u \in Tasks, pc'[u] # "idle"
      PROVE  Decided(obj'[u]) /\ Extends(store'[held'[u]], obj'[u])
  <2>1. u = t
    BY DEF OneRequest
  <2> QED
    BY <1>3, <2>1
<1>4. /\ \A s \in Runs : Decided(store[s])' = Decided(store'[s])
      /\ \A u \in Tasks : /\ Decided(obj[u])' = Decided(obj'[u])
                          /\ Extends(store[held[u]], obj[u])' = Extends(store'[held'[u]], obj'[u])
  BY DEF Decided, Extends, Grown, Noted, Status
<1> QED
  BY <1>2, <1>3, <1>4 DEF SInv

-----------------------------------------------------------------------------
\* The steps.

LEMMA RequestStores ==
  ASSUME OneRequest, SInv, XInv', NEW t \in Tasks, Request(t)
  PROVE  SInv' /\ \A s \in Runs : StoreStep(s)
<1> DEFINE Goal == SInv' /\ \A s \in Runs : StoreStep(s)
<1> SUFFICES ASSUME NEW r \in Runs,
         \/ \E requirement \in Requirements, scenario_type \in Scenarios,
               metadata \in Metadata :
              StartRun(t, r, requirement, scenario_type, metadata)
         \/ \E g \in Gates : Approve(t, r, g) \/ Reject(t, r, g)
         \/ \E requirement \in Requirements : Replan(t, r, requirement)
             PROVE  Goal
  BY DEF Request, PostRun, PostApproval, PostReplan
<1>1. ASSUME NEW requirement \in Requirements, NEW scenario_type \in Scenarios,
             NEW metadata \in Metadata,
             StartRun(t, r, requirement, scenario_type, metadata)
      PROVE  Goal
  <2> DEFINE run == NewRun(requirement, scenario_type, metadata)
  <2>1. run \in WorkflowRun
    BY OrchestratorConstants, NewRunFresh DEF OrchestratorConstants, Fresh
  <2>2. Starts(run)
    BY DEF NewRun, Starts, Unanswered
  <2>3. store[r] = NoRun /\ Save(r, run) /\ EnterDrive(t, r, run)
    BY <1>1 DEF StartRun
  <2> HIDE DEF run
  <2>4. Decided(run) /\ run.status = "RUNNING"
    BY <2>2, UnansweredDecided DEF Starts
  <2> QED
    BY <2>1, <2>2, <2>3, <2>4, ComesIn
<1>2. ASSUME NEW g \in Gates, Waiting(r, g)
      PROVE  /\ g \in Nodes /\ store[r] \in WorkflowRun /\ store[r] # NoRun
             /\ Status(store[r], g) = "WAITING_APPROVAL"
             /\ Decided(store[r])
  BY <1>2, WaitingGate DEF SInv, XInv, OInv, Waiting
<1>3. ASSUME NEW g \in Gates, Approve(t, r, g)
      PROVE  Goal
  <2> DEFINE run == ApproveGate(store[r], g)
  <2>1. Waiting(r, g) /\ Save(r, run) /\ EnterDrive(t, r, run)
    BY <1>3 DEF Approve
  <2>2. /\ run \in WorkflowRun
        /\ Decides(store[r], run, g)
        /\ run.status = "RUNNING"
        /\ Status(run, g) = "SUCCESS"
        /\ run.approvals[g] = [plan |-> store[r].plan_version, approved |-> TRUE]
        /\ Grown(store[r], run)
    BY <1>2, <2>1, ApproveGateEffect, ApproveGateKeeps, RequestBooks, SameBooksGrown DEF Local
  <2> HIDE DEF run
  <2>3. Answered(store[r], run, g)
    BY <1>2, <2>1, <2>2 DEF Answered
  <2>4. Decided(run)
    BY <1>2, <2>1, <2>2, DecidesDecided
  <2> QED
    BY <1>2, <2>1, <2>2, <2>3, <2>4, ComesIn DEF Becomes
<1>4. ASSUME NEW g \in Gates, Reject(t, r, g)
      PROVE  Goal
  <2> DEFINE run == RejectGate(store[r], g)
  <2>1. Waiting(r, g) /\ Save(r, run) /\ pc[t] = "idle"
        /\ UNCHANGED <<pc, held, obj, index, progress, phase, snapshot>>
    BY <1>4 DEF Reject, CanServe
  <2>2. /\ run \in WorkflowRun
        /\ Decides(store[r], run, g)
        /\ run.status = "SAFE_STOP"
        /\ Status(run, g) = "SAFE_STOP"
        /\ run.approvals[g] = [plan |-> store[r].plan_version, approved |-> FALSE]
        /\ Grown(store[r], run)
    BY <1>2, <2>1, RejectGateEffect, RejectGateKeeps, RequestBooks, SameBooksGrown DEF Local
  <2> HIDE DEF run
  <2>3. Answered(store[r], run, g)
    BY <1>2, <2>1, <2>2 DEF Answered
  <2>4. Decided(run)
    BY <1>2, <2>1, <2>2, DecidesDecided
  <2>5. run # NoRun /\ \A s \in Runs : store'[s] = IF s = r THEN run ELSE store[s]
    BY <2>1, <2>2, SavedRun
  <2>6. ASSUME NEW s \in Runs
        PROVE  StoreStep(s) /\ (store'[s] # NoRun => Decided(store'[s]))
    BY <1>2, <2>1, <2>3, <2>4, <2>5 DEF StoreStep, Becomes, SInv
  <2>7. \A u \in Tasks : pc'[u] = "idle"
    BY <2>1 DEF OneRequest
  <2>8. \A s \in Runs : Decided(store[s])' = Decided(store'[s])
    BY DEF Decided, Status
  <2> QED
    BY <2>6, <2>7, <2>8 DEF SInv
<1>5. ASSUME NEW requirement \in Requirements, Replan(t, r, requirement)
      PROVE  Goal
  <2> DEFINE run == ReplanRun(store[r], requirement)
  <2>1. store[r] # NoRun /\ Save(r, run) /\ EnterDrive(t, r, run)
    BY <1>5 DEF Replan
  <2>2. store[r] \in WorkflowRun
    BY <2>1 DEF SInv, XInv, OInv, IInv, TypeOK
  <2>3. AtRest(run)
    BY <2>2, OrchestratorConstants, ReplanRunAtRest DEF OrchestratorConstants
  <2>4. run.plan_version = store[r].plan_version + 1 /\ Unanswered(run)
    BY <2>2, OrchestratorConstants, ReplanRunUnanswered DEF OrchestratorConstants
  <2>5. RU \in Nodes
    BY GraphType DEF GraphType
  <2>6. Grown(store[r], run)
    BY <2>2, <2>5, RequestBooks, SameBooksGrown
  <2> HIDE DEF run
  <2>7. run \in WorkflowRun /\ Decided(run) /\ Replanned(store[r], run) /\ run.status = "RUNNING"
    BY <2>3, <2>4, <2>6, UnansweredDecided DEF AtRest, InWork, Replanned
  <2> QED
    BY <2>1, <2>7, ComesIn DEF Becomes
<1> QED
  BY <1>1, <1>3, <1>4, <1>5

LEMMA NodeProgressStores ==
  ASSUME OneRequest, SInv, XInv', NEW t \in Tasks, NEW n \in Nodes, NodeProgress(t, n)
  PROVE  SInv' /\ \A s \in Runs : StoreStep(s)
<1>1. PICK p, run : NodeMove(t, n, p, run)
  BY NodeProgressMove DEF SInv, XInv, OInv
<1>2. pc[t] # "idle" /\ held'[t] = held[t] /\ store' = store /\ obj'[t] = run
  BY <1>1 DEF NodeMove, NodeStep, SInv, XInv, OInv, IInv, TypeOK
<1>3. Decided(obj[t]) /\ Extends(store[held[t]], obj[t])
  BY <1>2 DEF SInv
<1>4. store[held[t]] \in WorkflowRun /\ obj[t] \in WorkflowRun
  BY <1>2, HeldRun
<1>5. Grown(obj[t], run)
  BY <1>1, <1>4, EffectGrown DEF NodeMove, OthersKept, Within
<1>6. Extends(store[held[t]], run) /\ Decided(run)
  BY <1>1, <1>3, <1>4, <1>5, ExtendsOthersKept DEF NodeMove
<1> QED
  BY <1>2, <1>6, WorksOn

\* A step on a pending node that changes its status only.
LEMMA PendingKept ==
  ASSUME NEW run \in WorkflowRun, NEW n \in Nodes, Status(run, n) = "PENDING",
         NEW s \in NodeStatus
  PROVE  /\ OthersKept(run, SetStatus(run, n, s), n) /\ SetStatus(run, n, s) \in WorkflowRun
         /\ Grown(run, SetStatus(run, n, s))
BY SetStatusWithin, SetStatusEffect, NodeBooks, SameBooksGrown DEF OthersKept, Within

LEMMA DriveStepStores ==
  ASSUME OneRequest, SInv, XInv', NEW t \in Tasks, DriveStep(t)
  PROVE  SInv' /\ \A s \in Runs : StoreStep(s)
<1> DEFINE Goal == SInv' /\ \A s \in Runs : StoreStep(s)
<1>1. pc[t] # "idle"
  BY DEF DriveStep, DriveTop, PassOver, Skip, AskApproval, Enqueue, ScanDone, GatherDone,
         SettleFailed, SettleOk, Complete, Blocked, NextPass, Scanning
<1>2. /\ TypeOK /\ obj[t] \in WorkflowRun /\ store[held[t]] \in WorkflowRun
      /\ Decided(obj[t]) /\ Extends(store[held[t]], obj[t])
  BY <1>1, HeldRun DEF SInv, XInv, OInv, IInv
<1>3. CASE Return(t) /\ UNCHANGED store
  <2>1. pc'[t] = "idle"
    BY <1>2, <1>3 DEF Return, TypeOK
  <2> QED
    BY <1>1, <1>3, <2>1, WorksOn
<1>4. CASE UNCHANGED <<store, held, obj>>
  BY <1>1, <1>2, <1>4, WorksOn
<1>5. CASE Skip(t)
  <2> DEFINE run == SkipNode(obj[t], Scanned(t))
  <2>1. Scanned(t) \in Nodes /\ Status(obj[t], Scanned(t)) = "PENDING"
    BY <1>5, ReadyNode DEF Skip, SInv, XInv, OInv
  <2>2. OthersKept(obj[t], run, Scanned(t)) /\ Grown(obj[t], run)
    BY <1>2, <2>1, PendingKept, StatusNames DEF SkipNode
  <2>3. obj' = [obj EXCEPT ![t] = run] /\ UNCHANGED <<store, held>>
    BY <1>5 DEF Skip
  <2> HIDE DEF run
  <2>4. obj'[t] = run
    BY <1>2, <2>3 DEF TypeOK
  <2>5. Extends(store[held[t]], run) /\ Decided(run)
    BY <1>2, <2>1, <2>2, ExtendsOthersKept
  <2> QED
    BY <1>1, <2>3, <2>4, <2>5, WorksOn
<1>6. CASE AskApproval(t)
  <2> DEFINE mid == SetStatus(obj[t], Scanned(t), "WAITING_APPROVAL")
             run == RequestApproval(obj[t], Scanned(t))
  <2>1. Scanned(t) \in Nodes /\ Status(obj[t], Scanned(t)) = "PENDING"
    BY <1>6, ReadyNode DEF AskApproval, SInv, XInv, OInv
  <2>2. OthersKept(obj[t], mid, Scanned(t)) /\ mid \in WorkflowRun /\ Grown(obj[t], mid)
    BY <1>2, <2>1, PendingKept, StatusNames
  <2>3. run = SetRunStatus(mid, "WAITING_APPROVAL")
    BY DEF RequestApproval
  <2>4. Save(held[t], run) /\ Return(t)
    BY <1>6 DEF AskApproval
  <2> HIDE DEF mid, run
  <2>5. Untouched(mid, run) /\ SameBooks(mid, run)
    BY <2>2, <2>3, BookkeepingEffect, StatusBooks DEF RunStatus
  <2>6. Extends(store[held[t]], mid) /\ Decided(mid)
    BY <1>2, <2>1, <2>2, ExtendsOthersKept
  <2>7. Extends(store[held[t]], run) /\ Decided(run) /\ run \in WorkflowRun
    BY <1>2, <2>2, <2>5, <2>6, ExtendsUntouched DEF Untouched
  <2>8. pc'[t] = "idle"
    BY <1>2, <2>4 DEF Return, TypeOK
  <2> QED
    BY <1>1, <2>4, <2>7, <2>8, WorksOn
<1>7. CASE GatherDone(t)
  <2>1. Save(held[t], obj[t]) /\ UNCHANGED <<held, obj>>
    BY <1>7 DEF GatherDone
  <2>2. obj[t].status = "RUNNING" /\ held[t] \in Runs
    BY <1>1, <1>2, HeldRun DEF SInv, XInv, OInv, AtWork, WorkSound, InWork, TypeOK
  <2>3. Extends(obj[t], obj[t])
    BY <1>2, <2>2, ExtendsSelf
  <2>4. store'[held[t]] = obj[t]
    BY <1>2, <2>1, <2>2, SavedRun
  <2> QED
    BY <1>1, <1>2, <2>1, <2>3, <2>4, WorksOn
<1>8. ASSUME Return(t), NEW s \in RunStatus, Save(held[t], EndWith(obj[t], s))
      PROVE  Goal
  <2> DEFINE run == EndWith(obj[t], s)
  <2>1. Untouched(obj[t], run) /\ SameBooks(obj[t], run)
    BY <1>2, BookkeepingEffect, StatusBooks
  <2>2. Save(held[t], run)
    BY <1>8
  <2> HIDE DEF run
  <2>3. Extends(store[held[t]], run) /\ Decided(run) /\ run \in WorkflowRun
    BY <1>2, <2>1, ExtendsUntouched DEF Untouched
  <2>4. pc'[t] = "idle"
    BY <1>2, <1>8 DEF Return, TypeOK
  <2> QED
    BY <1>1, <2>2, <2>3, <2>4, WorksOn
<1>9. CASE DriveTop(t)
  BY <1>3, <1>4, <1>9 DEF DriveTop
<1>10. CASE SettleFailed(t)
  BY <1>8, <1>10 DEF SettleFailed, SettleFailure, RunStatus
<1>11. CASE Complete(t)
  BY <1>8, <1>11 DEF Complete, RunStatus
<1>12. CASE Blocked(t)
  BY <1>3, <1>8, <1>12 DEF Blocked, RunStatus
<1>13. CASE PassOver(t) \/ Enqueue(t) \/ ScanDone(t) \/ SettleOk(t) \/ NextPass(t)
  BY <1>4, <1>13 DEF PassOver, Enqueue, ScanDone, SettleOk, NextPass
<1> QED
  BY <1>5, <1>6, <1>7, <1>9, <1>10, <1>11, <1>12, <1>13 DEF DriveStep

LEMMA SInvInit == Init => SInv
BY XInvInit DEF Init, SInv

LEMMA SInvNext ==
  ASSUME OneRequest, SInv, [Next]_vars
  PROVE  SInv' /\ \A s \in Runs : StoreStep(s)
<1>0. XInv'
  BY XInvNext DEF SInv
<1>1. CASE UNCHANGED vars
  <2>1. SInv'
    BY <1>0, <1>1 DEF vars, SInv, Decided, Extends, Grown, Noted, Status
  <2>2. \A s \in Runs : StoreStep(s)
    BY <1>1 DEF vars, StoreStep
  <2> QED
    BY <2>1, <2>2
<1>2. ASSUME NEW t \in Tasks, Request(t)
      PROVE  SInv' /\ \A s \in Runs : StoreStep(s)
  BY <1>0, <1>2, RequestStores
<1>3. ASSUME NEW t \in Tasks, DriveStep(t)
      PROVE  SInv' /\ \A s \in Runs : StoreStep(s)
  BY <1>0, <1>3, DriveStepStores
<1>4. ASSUME NEW t \in Tasks, NEW n \in Nodes, NodeProgress(t, n)
      PROVE  SInv' /\ \A s \in Runs : StoreStep(s)
  BY <1>0, <1>4, NodeProgressStores
<1>5. ASSUME NEW t \in Tasks, (\E n \in Nodes : AgentEscapes(t, n)) \/ SaveFails(t)
      PROVE  SInv' /\ \A s \in Runs : StoreStep(s)
  <2>1. pc[t] # "idle" /\ Return(t) /\ UNCHANGED store
    BY <1>5 DEF AgentEscapes, Answers, InBatch, SaveFails, SavesNext, Scanning
  <2>2. pc'[t] = "idle"
    BY <2>1 DEF Return, SInv, XInv, OInv, IInv, TypeOK
  <2> QED
    BY <1>0, <2>1, <2>2, WorksOn
<1>6. CASE Crash
  <2>1. PICK t \in Tasks : pc[t] # "idle"
    BY <1>6 DEF Crash
  <2>2. pc'[t] = "idle" /\ UNCHANGED store
    BY <1>6 DEF Crash
  <2> QED
    BY <1>0, <2>1, <2>2, WorksOn
<1> QED
  BY <1>1, <1>2, <1>3, <1>4, <1>5, <1>6 DEF Next, TaskStep

-----------------------------------------------------------------------------
\* The facts that hold of a run in the store before and after a step.

LEMMA StoredFacts ==
  ASSUME SInv, NEW r \in Runs, store[r] # NoRun
  PROVE  /\ store[r] \in WorkflowRun
         /\ store[r].plan_version \in Nat
         /\ Answerable(store[r]) /\ Sound(store[r]) /\ Decided(store[r])
BY DEF SInv, XInv, OInv, IInv, TypeOK, StoreAnswerable, StoreSound, WorkflowRun

LEMMA StoredFactsNext ==
  ASSUME SInv', NEW r \in Runs, store'[r] # NoRun
  PROVE  /\ store'[r] \in WorkflowRun
         /\ Answerable(store'[r]) /\ Sound(store'[r]) /\ Decided(store'[r])
<1>1. /\ Answerable(store[r])' = Answerable(store'[r])
      /\ Sound(store[r])' = Sound(store'[r])
      /\ Decided(store[r])' = Decided(store'[r])
  BY DEF Answerable, Sound, Decided, EndExplained, SomeNode, Unbroken, Status,
         OrderRespected, Started, DependenciesSatisfied, GatesDecided, GateOpen,
         ArtifactsMatch, ConditionHolds, HasOpenQuestions, IsBrownfield, IsHighImpact
<1> QED
  BY <1>1 DEF SInv, XInv, OInv, IInv, TypeOK, StoreAnswerable, StoreSound

\* The store forgets no run, and the plan of a run only goes up.
LEMMA PlanStep ==
  ASSUME SInv, NEW r \in Runs, StoreStep(r), store[r] # NoRun
  PROVE  store'[r] # NoRun /\ store'[r].plan_version >= store[r].plan_version
<1>1. store[r].plan_version \in Nat
  BY StoredFacts
<1> QED
  BY <1>1 DEF StoreStep, Becomes, Extends, Answered, Decides, Replanned

LEMMA ResultStep ==
  ASSUME SInv, NEW r \in Runs, StoreStep(r), store[r] # NoRun,
         store'[r].plan_version = store[r].plan_version
  PROVE  /\ store[r].status \in Terminal => store'[r] = store[r]
         /\ \A n \in Nodes :
              /\ Status(store[r], n) \in Acceptable =>
                   /\ store'[r].nodes[n] = store[r].nodes[n]
                   /\ store'[r].artifacts[n] = store[r].artifacts[n]
              /\ store[r].approvals[n] # NoApproval =>
                   store'[r].approvals[n] = store[r].approvals[n]
<1>1. store[r].plan_version \in Nat /\ Answerable(store[r]) /\ Decided(store[r])
  BY StoredFacts
<1>2. CASE store'[r] = store[r]
  BY <1>2
<1>3. CASE Extends(store[r], store'[r])
  BY <1>3 DEF Extends, Terminal
<1>4. ASSUME NEW g \in Gates, Answered(store[r], store'[r], g)
      PROVE  /\ store[r].status \notin Terminal
             /\ \A n \in Nodes :
                  /\ Status(store[r], n) \in Acceptable =>
                       /\ store'[r].nodes[n] = store[r].nodes[n]
                       /\ store'[r].artifacts[n] = store[r].artifacts[n]
                  /\ store[r].approvals[n] # NoApproval =>
                       store'[r].approvals[n] = store[r].approvals[n]
  <2>1. g \in Nodes /\ Status(store[r], g) = "WAITING_APPROVAL"
    BY <1>4 DEF Answered, Gates
  <2>2. store[r].status = "WAITING_APPROVAL"
    BY <1>1, <2>1 DEF Answerable
  <2>3. store[r].approvals[g] = NoApproval
    BY <1>1, <2>1 DEF Decided
  <2>4. Decides(store[r], store'[r], g)
    BY <1>4 DEF Answered
  <2> QED
    BY <2>1, <2>2, <2>3, <2>4 DEF Decides, Acceptable, Terminal
<1>5. ~Replanned(store[r], store'[r])
  BY <1>1 DEF Replanned
<1> QED
  BY <1>2, <1>3, <1>4, <1>5 DEF StoreStep, Becomes

\* The store shows no plan of a run older than one it has shown.
THEOREM PlanKept ==
  ASSUME OneRequest
  PROVE  Spec => PlanNeverRegresses
<1>1. SInv /\ [Next]_vars => SInv'
  BY SInvNext
<1>2. SInv /\ [Next]_vars =>
        [\A r \in Runs :
           Known(r) => store'[r] # NoRun /\ store'[r].plan_version >= store[r].plan_version
        ]_vars
  BY SInvNext, PlanStep DEF Known
<1> QED
  BY <1>1, <1>2, SInvInit, PTL DEF Spec, PlanNeverRegresses

\* Within a plan, what was accepted, decided or ended stays as it was: a later
\* pass, a failed save, a crash and a restart, and a decision that comes after
\* all take nothing back.
THEOREM ResultsKept ==
  ASSUME OneRequest
  PROVE  Spec => ResultsStay
<1>1. SInv /\ [Next]_vars => SInv'
  BY SInvNext
<1>2. SInv /\ [Next]_vars =>
        [\A r \in Runs : SamePlan(r) =>
           /\ store[r].status \in Terminal => store'[r] = store[r]
           /\ \A n \in Nodes :
                /\ Status(store[r], n) \in Acceptable =>
                     /\ store'[r].nodes[n] = store[r].nodes[n]
                     /\ store'[r].artifacts[n] = store[r].artifacts[n]
                /\ store[r].approvals[n] # NoApproval =>
                     store'[r].approvals[n] = store[r].approvals[n]
        ]_vars
  BY SInvNext, ResultStep DEF Known, SamePlan
<1> QED
  BY <1>1, <1>2, SInvInit, PTL DEF Spec, ResultsStay

-----------------------------------------------------------------------------
(***************************************************************************)
(* What metrics counts.  The store holds finitely many runs, for a step    *)
(* saves at most one; it forgets none, and the books of none shrink.       *)
(***************************************************************************)
KnownIn(s)     == {r \in Runs : s[r] # NoRun}
CompletedIn(s) == {r \in KnownIn(s) : s[r].status = "COMPLETED"}
StoppedIn(s)   == {r \in KnownIn(s) : s[r].status \in {"FAILED", "SAFE_STOP"}}
TimedIn(s)     == {r \in KnownIn(s) : s[r].completed_at}
RecoveredIn(s) == {r \in KnownIn(s) : s[r].recovered_at /\ s[r].first_failure_at # NoNode}
RetriesIn(s)   == [r \in KnownIn(s) |-> s[r].retry_count]
RollbacksIn(s) == [r \in KnownIn(s) |-> s[r].rollback_count]

MetricsOf(s) ==
  [runs_total             |-> Cardinality(KnownIn(s)),
   completed              |-> Cardinality(CompletedIn(s)),
   failed_or_safe_stopped |-> Cardinality(StoppedIn(s)),
   retry_count            |-> SumFunctionOnSet(RetriesIn(s), KnownIn(s)),
   rollback_count         |-> SumFunctionOnSet(RollbacksIn(s), KnownIn(s)),
   latencies              |-> Cardinality(TimedIn(s)),
   recovery_times         |-> Cardinality(RecoveredIn(s))]

FInv == SInv /\ IsFiniteSet(KnownIn(store))

LEMMA MetricsShown ==
  Metrics = MetricsOf(store) /\ Metrics' = MetricsOf(store')
BY Zenon DEF Metrics, MetricsOf, Known, KnownIn, CompletedIn, StoppedIn, TimedIn, RecoveredIn,
             RetriesIn, RollbacksIn

\* No step saves more than one run.
LEMMA OneSaved ==
  ASSUME SInv, [Next]_vars
  PROVE  UNCHANGED store \/ \E r \in Runs : \E run : Save(r, run)
<1>1. ASSUME NEW t \in Tasks, Request(t)
      PROVE  \E r \in Runs : \E run : Save(r, run)
  BY <1>1 DEF Request, PostRun, PostApproval, PostReplan, StartRun, Approve, Reject, Replan
<1>2. ASSUME NEW t \in Tasks, DriveStep(t)
      PROVE  UNCHANGED store \/ \E run : pc[t] # "idle" /\ Save(held[t], run)
  <2>1. pc[t] # "idle"
    BY <1>2 DEF DriveStep, DriveTop, PassOver, Skip, AskApproval, Enqueue, ScanDone, GatherDone,
           SettleFailed, SettleOk, Complete, Blocked, NextPass, Scanning
  <2> QED
    BY <1>2, <2>1 DEF DriveStep, DriveTop, PassOver, Skip, AskApproval, Enqueue, ScanDone,
           GatherDone, SettleFailed, SettleOk, Complete, Blocked, NextPass
<1>3. ASSUME NEW t \in Tasks, NEW n \in Nodes, NodeProgress(t, n)
      PROVE  UNCHANGED store
  BY <1>3, NodeProgressMove DEF NodeMove, NodeStep, SInv, XInv, OInv
<1>4. ASSUME NEW t \in Tasks, (\E n \in Nodes : AgentEscapes(t, n)) \/ SaveFails(t)
      PROVE  UNCHANGED store
  BY <1>4 DEF AgentEscapes, SaveFails
<1>5. CASE Crash
  BY <1>5 DEF Crash
<1> QED
  BY <1>1, <1>2, <1>3, <1>4, <1>5, HeldRun DEF Next, TaskStep, vars

\* So there is a run that the store may show otherwise than before, and the
\* others it shows as they were.
LEMMA OneChanged ==
  ASSUME SInv, [Next]_vars
  PROVE  \E r : \A s \in Runs \ {r} : store'[s] = store[s]
<1>1. ASSUME NEW r \in Runs, NEW run, Save(r, run)
      PROVE  \A s \in Runs \ {r} : store'[s] = store[s]
  BY <1>1 DEF Save, SInv, XInv, OInv, IInv, TypeOK
<1> QED
  BY <1>1, OneSaved

LEMMA BooksStep ==
  ASSUME SInv, SInv', NEW r \in Runs, StoreStep(r), store[r] # NoRun
  PROVE  /\ store[r] \in WorkflowRun /\ store'[r] \in WorkflowRun
         /\ store'[r] # NoRun
         /\ Grown(store[r], store'[r])
<1>1. store[r] \in WorkflowRun /\ store'[r] # NoRun
  BY StoredFacts DEF StoreStep
<1>2. store'[r] \in WorkflowRun
  BY <1>1, StoredFactsNext
<1>3. CASE store'[r] = store[r]
  BY <1>1, <1>3, SameBooksGrown DEF SameBooks, SameCounts, SameOutage
<1> QED
  BY <1>1, <1>2, <1>3 DEF StoreStep, Becomes, Extends, Answered, Replanned

LEMMA KnownStep ==
  ASSUME OneRequest, FInv, [Next]_vars
  PROVE  /\ SInv' /\ IsFiniteSet(KnownIn(store')) /\ KnownIn(store) \subseteq KnownIn(store')
         /\ \A r \in KnownIn(store) :
              store[r] \in WorkflowRun /\ Grown(store[r], store'[r])
         /\ \A r \in KnownIn(store') : store'[r] \in WorkflowRun
         /\ \E x : /\ KnownIn(store') \subseteq KnownIn(store) \cup {x}
                   /\ \A r \in KnownIn(store) \ {x} : store'[r] = store[r]
<1>1. SInv /\ SInv' /\ \A r \in Runs : StoreStep(r)
  BY SInvNext DEF FInv
<1>2. \A r \in KnownIn(store) :
        store'[r] # NoRun /\ store[r] \in WorkflowRun /\ Grown(store[r], store'[r])
  BY <1>1, BooksStep DEF KnownIn
<1>3. KnownIn(store) \subseteq KnownIn(store')
  BY <1>2 DEF KnownIn
<1>4. \A r \in KnownIn(store') : store'[r] \in WorkflowRun
  BY <1>1, StoredFactsNext DEF KnownIn
<1>5. PICK x : \A s \in Runs \ {x} : store'[s] = store[s]
  BY <1>1, OneChanged
<1>6. /\ KnownIn(store') \subseteq KnownIn(store) \cup {x}
      /\ \A r \in KnownIn(store) \ {x} : store'[r] = store[r]
  BY <1>5 DEF KnownIn
<1>7. IsFiniteSet(KnownIn(store'))
  <2>1. IsFiniteSet(KnownIn(store) \cup {x})
    BY FS_AddElement DEF FInv
  <2> QED
    BY <1>6, <2>1, FS_Subset
<1> QED
  BY <1>1, <1>2, <1>3, <1>4, <1>6, <1>7

LEMMA FInvInit == Init => FInv
<1> SUFFICES ASSUME Init
             PROVE  FInv
  OBVIOUS
<1>1. KnownIn(store) = {}
  BY DEF Init, KnownIn
<1> QED
  BY <1>1, SInvInit, FS_EmptySet DEF FInv

LEMMA FInvNext ==
  ASSUME OneRequest, FInv, [Next]_vars
  PROVE  FInv'
<1>1. KnownIn(store)' = KnownIn(store')
  BY DEF KnownIn
<1> QED
  BY <1>1, KnownStep DEF FInv

\* A run has a latency exactly if it was counted as completed, failed or
\* stopped, and it is counted once.
LEMMA LatenciesAdd ==
  ASSUME SInv', IsFiniteSet(KnownIn(store'))
  PROVE  LET new == MetricsOf(store')
         IN  new.latencies = new.completed + new.failed_or_safe_stopped
<1> DEFINE done == CompletedIn(store')
           stopped == StoppedIn(store')
<1>1. TimedIn(store') = done \cup stopped
  <2>1. \A r \in KnownIn(store') :
          store'[r].completed_at <=> store'[r].status \in {"COMPLETED", "FAILED", "SAFE_STOP"}
    BY StoredFactsNext DEF KnownIn, Answerable, EndExplained, Terminal
  <2> QED
    BY <2>1 DEF TimedIn, CompletedIn, StoppedIn
<1>2. done \cap stopped = {}
  BY DEF CompletedIn, StoppedIn
<1>3. IsFiniteSet(done) /\ IsFiniteSet(stopped)
  BY FS_Subset DEF CompletedIn, StoppedIn
<1> HIDE DEF done, stopped
<1>4. Cardinality(done \cup stopped) = Cardinality(done) + Cardinality(stopped)
  <2>1. Cardinality(done) \in Nat /\ Cardinality(stopped) \in Nat
    BY <1>3, FS_CardinalityType
  <2>2. Cardinality(done \cup stopped) = Cardinality(done) + Cardinality(stopped) - Cardinality({})
    BY <1>2, <1>3, FS_Union
  <2> QED
    BY <2>1, <2>2, FS_EmptySet
<1> QED
  BY <1>1, <1>4 DEF MetricsOf, done, stopped

LEMMA MetricsStep ==
  ASSUME OneRequest, FInv, [Next]_vars
  PROVE  LET new == MetricsOf(store')
             old == MetricsOf(store)
         IN  /\ new.latencies = new.completed + new.failed_or_safe_stopped
             /\ new.runs_total >= old.runs_total
             /\ new.retry_count >= old.retry_count
             /\ new.rollback_count >= old.rollback_count
             /\ new.recovery_times >= old.recovery_times
<1> DEFINE S == KnownIn(store)
           T == KnownIn(store')
<1>1. IsFiniteSet(S) /\ IsFiniteSet(T) /\ S \subseteq T /\ SInv'
  BY KnownStep DEF FInv
<1>2. PICK x : T \subseteq S \cup {x} /\ \A r \in S \ {x} : store'[r] = store[r]
  BY KnownStep
<1>3. /\ \A r \in S : store[r] \in WorkflowRun /\ Grown(store[r], store'[r])
      /\ \A r \in T : store'[r] \in WorkflowRun
  BY KnownStep
<1>4. Cardinality(T) >= Cardinality(S)
  <2> HIDE DEF S, T
  <2> QED
    BY <1>1, FS_Subset, FS_CardinalityType
<1>5. SumFunctionOnSet(RetriesIn(store'), T) >= SumFunctionOnSet(RetriesIn(store), S)
  <2> DEFINE f == RetriesIn(store)
             e == RetriesIn(store')
  <2>1. /\ \A r \in S : f[r] = store[r].retry_count
        /\ \A r \in T : e[r] = store'[r].retry_count
    BY DEF RetriesIn
  <2> HIDE DEF S, T, f, e
  <2>2. /\ \A r \in S : f[r] \in Nat /\ e[r] >= f[r]
        /\ \A r \in T : e[r] \in Nat
        /\ \A r \in S \ {x} : f[r] = e[r]
    BY <1>1, <1>2, <1>3, <2>1 DEF Grown, WorkflowRun
  <2>3. SumFunctionOnSet(e, T) >= SumFunctionOnSet(f, S)
    BY <1>1, <1>2, <2>2, SumGrows
  <2> QED
    BY <2>3 DEF e, f
<1>6. SumFunctionOnSet(RollbacksIn(store'), T) >= SumFunctionOnSet(RollbacksIn(store), S)
  <2> DEFINE f == RollbacksIn(store)
             e == RollbacksIn(store')
  <2>1. /\ \A r \in S : f[r] = store[r].rollback_count
        /\ \A r \in T : e[r] = store'[r].rollback_count
    BY DEF RollbacksIn
  <2> HIDE DEF S, T, f, e
  <2>2. /\ \A r \in S : f[r] \in Nat /\ e[r] >= f[r]
        /\ \A r \in T : e[r] \in Nat
        /\ \A r \in S \ {x} : f[r] = e[r]
    BY <1>1, <1>2, <1>3, <2>1 DEF Grown, WorkflowRun
  <2>3. SumFunctionOnSet(e, T) >= SumFunctionOnSet(f, S)
    BY <1>1, <1>2, <2>2, SumGrows
  <2> QED
    BY <2>3 DEF e, f
<1>7. Cardinality(RecoveredIn(store')) >= Cardinality(RecoveredIn(store))
  <2>1. RecoveredIn(store) \subseteq RecoveredIn(store')
    BY <1>1, <1>3 DEF RecoveredIn, Grown, Noted
  <2>2. IsFiniteSet(RecoveredIn(store'))
    BY <1>1, FS_Subset DEF RecoveredIn
  <2>3. IsFiniteSet(RecoveredIn(store))
    BY <1>1, FS_Subset DEF RecoveredIn
  <2> QED
    BY <2>1, <2>2, <2>3, FS_Subset, FS_CardinalityType
<1>8. LET new == MetricsOf(store')
      IN  new.latencies = new.completed + new.failed_or_safe_stopped
  BY <1>1, LatenciesAdd
<1> QED
  BY <1>4, <1>5, <1>6, <1>7, <1>8 DEF MetricsOf

\* What metrics counts is never taken back while requests come one at a time:
\* a replan, a failed save, a crash and a restart lose no run, no retry, no
\* rollback and no recovery, and a run has a latency exactly if it was counted
\* as completed, failed or stopped.
THEOREM MetricsNeverShrink ==
  ASSUME OneRequest
  PROVE  Spec => MetricsKept
<1>1. FInv /\ [Next]_vars => FInv'
  BY FInvNext
<1>2. FInv /\ [Next]_vars =>
        [LET new == Metrics'
         IN  /\ new.latencies = new.completed + new.failed_or_safe_stopped
             /\ \A counter \in {"runs_total", "retry_count", "rollback_count", "recovery_times"} :
                  new[counter] >= Metrics[counter]
        ]_vars
  <2> SUFFICES ASSUME FInv, [Next]_vars
               PROVE  LET new == Metrics'
                      IN  /\ new.latencies = new.completed + new.failed_or_safe_stopped
                          /\ \A counter \in {"runs_total", "retry_count", "rollback_count",
                                             "recovery_times"} :
                               new[counter] >= Metrics[counter]
    OBVIOUS
  <2>1. Metrics = MetricsOf(store) /\ Metrics' = MetricsOf(store')
    BY MetricsShown
  <2> QED
    BY <2>1, MetricsStep
<1> QED
  BY <1>1, <1>2, FInvInit, PTL DEF Spec, MetricsKept

-----------------------------------------------------------------------------
(***************************************************************************)
(* The counters, as the store shows them.  What a request at work carries  *)
(* over is what is carried over in the store: so its next save follows     *)
(* from the last one, and no count gets lost between the two.              *)
(***************************************************************************)
NInv ==
  /\ SInv /\ CInv
  /\ \A t \in Tasks : pc[t] # "idle" => Carried(obj[t], phase[t]) = CarriedOver(store[held[t]])

CountsFollow(r) == store'[r] # store[r] => Follows(store[r], store'[r])

LEMMA NInvInit == Init => NInv
BY SInvInit, CInvInit DEF Init, NInv

LEMMA NInvNext ==
  ASSUME OneRequest, NInv, [Next]_vars
  PROVE  NInv' /\ \A r \in Runs : CountsFollow(r)
<1> DEFINE Agrees == \A t \in Tasks : pc'[t] # "idle" =>
                       Carried(obj'[t], phase'[t]) = CarriedOver(store'[held'[t]])
           Goal   == Agrees /\ \A r \in Runs : CountsFollow(r)
<1>1. SInv' /\ CInv'
  BY SInvNext, CInvNext DEF NInv
<1>2. ASSUME NEW r \in Runs, NEW run \in WorkflowRun, Save(r, run)
      PROVE  \A s \in Runs : store'[s] = IF s = r THEN run ELSE store[s]
  BY <1>2, SavedRun DEF NInv
<1>3. ASSUME NothingCounts
      PROVE  Goal
  BY <1>3 DEF NothingCounts, NInv, CountsFollow
<1>4. ASSUME NEW t \in Tasks, CountsBegin(t)
      PROVE  Goal
  <2>1. PICK r \in Runs, run \in WorkflowRun :
          /\ Save(r, run) /\ Follows(store[r], run)
          /\ pc'[t] # "idle" => held'[t] = r /\ obj'[t] = run /\ Resting(phase'[t])
    BY <1>4 DEF CountsBegin
  <2>2. \A s \in Runs : store'[s] = IF s = r THEN run ELSE store[s]
    BY <1>2, <2>1
  <2>3. ASSUME pc'[t] # "idle"
        PROVE  Carried(obj'[t], phase'[t]) = CarriedOver(store'[held'[t]])
    BY <2>1, <2>2, <2>3, NoPhaseRests, RestingCarried, CarriedOverIs
  <2> QED
    BY <2>1, <2>2, <2>3 DEF OneRequest, CountsFollow
<1>5. ASSUME NEW t \in Tasks, CountsGoOn(t)
      PROVE  Goal
  <2>1. pc[t] # "idle" /\ Carried(obj[t], phase[t]) = CarriedOver(store[held[t]])
    BY <1>5 DEF CountsGoOn, NInv
  <2>2. /\ held[t] \in Runs /\ store[held[t]] \in WorkflowRun
        /\ store[held[t]].plan_version = obj[t].plan_version
    BY <2>1, HeldRun DEF NInv, SInv, Extends
  <2>3. /\ CarriedOver(store'[held[t]]) = CarriedOver(store[held[t]])
        /\ \A r \in Runs : CountsFollow(r)
    <3>1. CASE UNCHANGED store
      BY <3>1 DEF CountsFollow
    <3>2. ASSUME NEW run \in WorkflowRun, Save(held[t], run),
                 SamePlanCounts(obj[t], phase[t], run, NoPhase)
          PROVE  /\ CarriedOver(store'[held[t]]) = CarriedOver(store[held[t]])
                 /\ \A r \in Runs : CountsFollow(r)
      <4>1. \A s \in Runs : store'[s] = IF s = held[t] THEN run ELSE store[s]
        BY <1>2, <2>2, <3>2
      <4>2. CarriedOver(run) = CarriedOver(store[held[t]])
        BY <2>1, <3>2, CarriedOverIs DEF SamePlanCounts
      <4>3. store[held[t]] # NoRun /\ run.plan_version = store[held[t]].plan_version
        BY <2>2, <3>2, OrchestratorConstants DEF OrchestratorConstants, SamePlanCounts
      <4> QED
        BY <2>2, <4>1, <4>2, <4>3 DEF CountsFollow, Follows
    <3> QED
      BY <1>5, <3>1, <3>2 DEF CountsGoOn
  <2>4. ASSUME pc'[t] # "idle"
        PROVE  Carried(obj'[t], phase'[t]) = CarriedOver(store'[held'[t]])
    BY <1>5, <2>1, <2>3, <2>4 DEF CountsGoOn, SamePlanCounts
  <2> QED
    BY <2>3, <2>4 DEF OneRequest
<1>6. Goal
  BY <1>3, <1>4, <1>5, CountsStep DEF NInv
<1>7. \A t \in Tasks : /\ Carried(obj[t], phase[t])' = Carried(obj'[t], phase'[t])
                       /\ CarriedOver(store[held[t]])' = CarriedOver(store'[held'[t]])
  BY DEF Carried, CarriedOver, Retries, RolledBack, Status
<1> QED
  BY <1>1, <1>6, <1>7 DEF NInv

\* The counters of the stored runs miss nothing and count nothing twice while
\* requests come one at a time: from save to save they grow by the retries and
\* rollbacks that the nodes newly show, through failing saves, crashes and
\* restarts, and a new plan carries over exactly what was counted before it.
THEOREM CountersAgree ==
  ASSUME OneRequest
  PROVE  Spec => CountersKept
<1>1. NInv /\ [Next]_vars => NInv'
  BY NInvNext
<1>2. NInv /\ [Next]_vars =>
        [\A r \in Runs :
           /\ ~Known(r) /\ store'[r] # NoRun =>
                CarriedOver(store'[r]) = [retries |-> 0, rollbacks |-> 0]
           /\ SamePlan(r) => CarriedOver(store'[r]) = CarriedOver(store[r])
           /\ Known(r) /\ ~SamePlan(r) => CarriedOver(store'[r]) = Counted(store[r])
        ]_store
  BY NInvNext DEF CountsFollow, Follows, NoCounts, Known, SamePlan
<1> QED
  BY <1>1, <1>2, NInvInit, PTL DEF Spec, CountersKept

-----------------------------------------------------------------------------
(***************************************************************************)
(* The refinement of RunLifecycle: what it sees of a run, and the step of  *)
(* it that each StoreStep is.                                              *)
(***************************************************************************)
GatesWaiting(run) == {g \in Gates : Status(run, g) = "WAITING_APPROVAL"}

GateOf(run) ==
  IF GatesWaiting(run) = {} THEN NoNode ELSE CHOOSE g \in GatesWaiting(run) : TRUE

GatesApproved(run) == {g \in Gates : run.approvals[g].approved}

LEMMA Shown ==
  ASSUME NEW r \in Runs, store[r] # NoRun
  PROVE  /\ Stage(r) = store[r].status
         /\ Plan(r) = store[r].plan_version
         /\ Gate(r) = GateOf(store[r])
         /\ Approved(r) = GatesApproved(store[r])
<1>1. Stage(r) = store[r].status /\ Plan(r) = store[r].plan_version
  BY DEF Stage, Plan, Known
<1>2. WaitedFor(r) = GatesWaiting(store[r])
  BY DEF WaitedFor, GatesWaiting, Known
<1>3. Approved(r) = GatesApproved(store[r])
  BY Zenon DEF Approved, GatesApproved, Known
<1>4. Gate(r) = IF WaitedFor(r) = {} THEN NoNode ELSE CHOOSE g \in WaitedFor(r) : TRUE
  BY DEF Gate
<1> QED
  BY <1>1, <1>2, <1>3, <1>4 DEF GateOf

LEMMA ShownNext ==
  ASSUME NEW r \in Runs, store'[r] # NoRun
  PROVE  /\ Stage(r)' = store'[r].status
         /\ Plan(r)' = store'[r].plan_version
         /\ Gate(r)' = GateOf(store'[r])
         /\ Approved(r)' = GatesApproved(store'[r])
<1>1. Stage(r)' = store'[r].status /\ Plan(r)' = store'[r].plan_version
  BY DEF Stage, Plan, Known
<1>2. WaitedFor(r)' = GatesWaiting(store'[r])
  BY DEF WaitedFor, GatesWaiting, Known, Status
<1>3. Approved(r)' = GatesApproved(store'[r])
  BY Zenon DEF Approved, GatesApproved, Known
<1>4. Gate(r)' = IF WaitedFor(r)' = {} THEN NoNode ELSE CHOOSE g \in WaitedFor(r)' : TRUE
  BY DEF Gate
<1> QED
  BY <1>1, <1>2, <1>3, <1>4 DEF GateOf

LEMMA ShownAbsent ==
  ASSUME NEW r \in Runs, store[r] = NoRun
  PROVE  Stage(r) = "absent" /\ Plan(r) = 0 /\ Gate(r) = NoNode /\ Approved(r) = {}
BY DEF Stage, Plan, Gate, WaitedFor, Approved, Known

LEMMA NoGateOf ==
  ASSUME NEW run, Answerable(run), run.status # "WAITING_APPROVAL"
  PROVE  GateOf(run) = NoNode
BY DEF GateOf, GatesWaiting, Gates, Answerable

LEMMA OneGateOf ==
  ASSUME NEW run, Answerable(run), NEW g \in Gates, Status(run, g) = "WAITING_APPROVAL"
  PROVE  GateOf(run) = g
<1>1. GatesWaiting(run) = {g}
  BY DEF GatesWaiting, Gates, Answerable
<1> QED
  BY <1>1 DEF GateOf

LEMMA NoneApproved ==
  ASSUME NEW run, Unanswered(run)
  PROVE  GatesApproved(run) = {}
BY DEF Unanswered, GatesApproved, Gates, NoApproval

\* A run that is completed has passed every gate that is asked in any case.
LEMMA CompletedApproved ==
  ASSUME NEW run, Answerable(run), Sound(run), run.status = "COMPLETED"
  PROVE  Unconditional \subseteq GatesApproved(run)
<1> SUFFICES ASSUME NEW g \in Gates, NODE_MAP[g].condition = "none"
             PROVE  run.approvals[g].approved
  BY DEF Unconditional, GatesApproved
<1>1. g \in Nodes
  BY DEF Gates
<1>2. Status(run, g) \in Acceptable
  BY <1>1 DEF Answerable, EndExplained
<1>3. GateOpen(run, g)
  BY <1>2 DEF Sound, GatesDecided
<1>4. ConditionHolds(run, g)
  BY DEF ConditionHolds
<1>5. run.approvals[g] = [plan |-> run.plan_version, approved |-> TRUE]
  BY <1>3, <1>4 DEF GateOpen
<1> QED
  BY <1>5

LEMMA ExtendsLives ==
  ASSUME SInv, SInv', NEW r \in Runs, store[r] # NoRun, store'[r] # NoRun,
         Extends(store[r], store'[r])
  PROVE  Lifecycle(r)!Next \/ UNCHANGED Lifecycle(r)!vars
<1> DEFINE run == store[r]
           new == store'[r]
<1>1. /\ Stage(r) = "RUNNING" /\ Stage(r)' = new.status
      /\ Plan(r)' = Plan(r)
      /\ Gate(r) = NoNode /\ Gate(r)' = GateOf(new)
      /\ Approved(r) = GatesApproved(new) /\ Approved(r)' = GatesApproved(new)
  <2>1. GatesApproved(run) = GatesApproved(new)
    BY DEF Extends, GatesApproved
  <2>2. GateOf(run) = NoNode
    BY StoredFacts, NoGateOf DEF Extends
  <2> QED
    BY <2>1, <2>2, Shown, ShownNext DEF Extends
<1>2. /\ new \in WorkflowRun /\ new.status \in RunStatus
      /\ Answerable(new) /\ Sound(new) /\ Decided(new)
  BY StoredFactsNext DEF WorkflowRun
<1>3. CASE new.status = "WAITING_APPROVAL"
  <2>1. PICK g \in Gates : Status(new, g) = "WAITING_APPROVAL"
    BY <1>2, <1>3 DEF Answerable
  <2>2. Gate(r)' = g
    BY <1>1, <1>2, <2>1, OneGateOf
  <2>3. new.approvals[g] = NoApproval
    BY <1>2, <2>1 DEF Decided, Gates
  <2>4. g \notin Approved(r)
    BY <1>1, <2>3 DEF GatesApproved, NoApproval
  <2>5. Lifecycle(r)!Ask(g)
    BY <1>1, <1>3, <2>2, <2>4 DEF Lifecycle!Ask
  <2> QED
    BY <2>5 DEF Lifecycle!Next
<1>4. ASSUME new.status # "WAITING_APPROVAL"
      PROVE  Gate(r)' = Gate(r) /\ Approved(r)' = Approved(r)
  BY <1>1, <1>2, <1>4, NoGateOf
<1>5. CASE new.status = "RUNNING"
  BY <1>1, <1>4, <1>5 DEF Lifecycle!vars
<1>6. CASE new.status = "COMPLETED"
  <2>1. Unconditional \subseteq Approved(r)
    BY <1>1, <1>2, <1>6, CompletedApproved
  <2>2. Lifecycle(r)!Complete
    BY <1>1, <1>4, <1>6, <2>1 DEF Lifecycle!Complete
  <2> QED
    BY <2>2 DEF Lifecycle!Next
<1>7. CASE new.status \in {"FAILED", "SAFE_STOP"}
  <2>1. Lifecycle(r)!Abort
    BY <1>1, <1>4, <1>7 DEF Lifecycle!Abort
  <2> QED
    BY <2>1 DEF Lifecycle!Next
<1> QED
  BY <1>2, <1>3, <1>5, <1>6, <1>7 DEF RunStatus

LEMMA AnsweredLives ==
  ASSUME SInv, SInv', NEW r \in Runs, store[r] # NoRun, store'[r] # NoRun,
         NEW g \in Gates, Answered(store[r], store'[r], g)
  PROVE  Lifecycle(r)!Next
<1> DEFINE run == store[r]
           new == store'[r]
<1>1. /\ g \in Nodes
      /\ Status(run, g) = "WAITING_APPROVAL"
      /\ run.status = "WAITING_APPROVAL"
      /\ run.approvals[g] = NoApproval
  BY StoredFacts DEF Answered, Gates, Answerable, Decided
<1>2. /\ new.plan_version = run.plan_version
      /\ \A m \in Gates \ {g} : new.approvals[m] = run.approvals[m]
      /\ new.status # "WAITING_APPROVAL"
  BY DEF Answered, Decides, Gates
<1>3. /\ Stage(r) = "WAITING_APPROVAL" /\ Stage(r)' = new.status
      /\ Plan(r)' = Plan(r)
      /\ Gate(r) = g /\ Gate(r)' = NoNode
      /\ Approved(r) = GatesApproved(run) /\ Approved(r)' = GatesApproved(new)
  BY <1>1, <1>2, StoredFacts, StoredFactsNext, NoGateOf, OneGateOf, Shown, ShownNext
<1>4. CASE /\ new.status = "RUNNING"
           /\ new.approvals[g] = [plan |-> run.plan_version, approved |-> TRUE]
  <2>1. new.approvals[g].approved
    BY <1>4
  <2>2. GatesApproved(new) = GatesApproved(run) \cup {g}
    BY <1>2, <2>1 DEF GatesApproved
  <2>3. Lifecycle(r)!Approve
    BY <1>3, <1>4, <2>2 DEF Lifecycle!Approve
  <2> QED
    BY <2>3 DEF Lifecycle!Next
<1>5. CASE /\ new.status = "SAFE_STOP"
           /\ new.approvals[g] = [plan |-> run.plan_version, approved |-> FALSE]
  <2>1. ~new.approvals[g].approved /\ ~run.approvals[g].approved
    BY <1>1, <1>5 DEF NoApproval
  <2>2. GatesApproved(new) = GatesApproved(run)
    BY <1>2, <2>1 DEF GatesApproved
  <2>3. Lifecycle(r)!Reject
    BY <1>3, <1>5, <2>2 DEF Lifecycle!Reject
  <2> QED
    BY <2>3 DEF Lifecycle!Next
<1> QED
  BY <1>4, <1>5 DEF Answered

LEMMA StoreStepLives ==
  ASSUME SInv, SInv', NEW r \in Runs, StoreStep(r)
  PROVE  Lifecycle(r)!Next \/ UNCHANGED Lifecycle(r)!vars
<1>1. CASE store'[r] = store[r]
  <2>1. /\ Stage(r)' = Stage(r) /\ Plan(r)' = Plan(r)
        /\ WaitedFor(r)' = WaitedFor(r) /\ Approved(r)' = Approved(r)
    BY <1>1 DEF Stage, Plan, WaitedFor, Approved, Known, Status
  <2> QED
    BY <2>1 DEF Lifecycle!vars, Gate
<1>2. CASE store[r] = NoRun /\ store'[r] # NoRun /\ Starts(store'[r])
  <2>1. /\ Stage(r)' = "RUNNING" /\ Plan(r)' = 1
        /\ Gate(r)' = NoNode /\ Approved(r)' = {}
    BY <1>2, StoredFactsNext, ShownNext, NoGateOf, NoneApproved DEF Starts
  <2>2. Lifecycle(r)!Start
    BY <1>2, <2>1, ShownAbsent DEF Lifecycle!Start
  <2> QED
    BY <2>2 DEF Lifecycle!Next
<1>3. CASE store[r] # NoRun /\ store'[r] # NoRun /\ Replanned(store[r], store'[r])
  <2>1. /\ Stage(r)' = "RUNNING" /\ Plan(r)' = Plan(r) + 1
        /\ Gate(r)' = NoNode /\ Approved(r)' = {}
    BY <1>3, StoredFactsNext, Shown, ShownNext, NoGateOf, NoneApproved DEF Replanned
  <2>2. Stage(r) # "absent"
    BY <1>3, Shown, StoredFacts DEF WorkflowRun, RunStatus
  <2>3. Lifecycle(r)!Replan
    BY <2>1, <2>2 DEF Lifecycle!Replan
  <2> QED
    BY <2>3 DEF Lifecycle!Next
<1> QED
  BY <1>1, <1>2, <1>3, ExtendsLives, AnsweredLives DEF StoreStep, Becomes

\* While requests come one at a time the store shows each run living the life
\* of RunLifecycle: no step completes a run past an unconditional gate that
\* was not approved for its plan, nor takes it out of an end but a replan.
THEOREM LifecycleFollowed ==
  ASSUME OneRequest
  PROVE  Spec => FollowsLifecycle
<1>1. SInv /\ [Next]_vars => SInv'
  BY SInvNext
<1>2. SInv /\ SInv' /\ [Next]_vars =>
        [\A r \in Runs : Lifecycle(r)!Next \/ UNCHANGED Lifecycle(r)!vars]_vars
  BY SInvNext, StoreStepLives
<1>3. Init => \A r \in Runs : Lifecycle(r)!Init
  <2> SUFFICES ASSUME Init, NEW r \in Runs
               PROVE  Lifecycle(r)!Init
    OBVIOUS
  <2>1. store[r] = NoRun
    BY DEF Init
  <2> QED
    BY <2>1, ShownAbsent DEF Lifecycle!Init
<1> QED
  BY <1>1, <1>2, <1>3, SInvInit, PTL DEF Spec, FollowsLifecycle

=============================================================================
