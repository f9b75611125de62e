----------------------------- MODULE Orchestrator -----------------------------
(***************************************************************************)
(* orchestration/orchestrator.py: the requests start, approve and replan,  *)
(* the scheduler loop _drive, the execution of the nodes of a batch, the   *)
(* store of orchestration/store.py as the orchestrator sees it, and the    *)
(* restart of the process.                                                 *)
(*                                                                         *)
(* All requests run on one event loop.  A task is a request being served;  *)
(* it works on its own copy of the run, read from the store when the       *)
(* request begins.  A task gives up the loop in two places only: while it  *)
(* awaits the gather of a batch, and inside a node of the batch, at the    *)
(* call of an agent or at the pause before a retry.  Everything else a     *)
(* task does is done by holding the loop, so LoopFree guards every step of *)
(* another task; the steps in between stay apart because the process may   *)
(* die between two of them.                                                *)
(*                                                                         *)
(* The interface of the agents lets them suspend and answer in any order;  *)
(* what they answer is a parameter.                                        *)
(***************************************************************************)
EXTENDS RunSteps, FiniteSets

CONSTANTS
  Tasks,                 \* requests served at the same time
  Runs,                  \* run ids
  NoRun,                 \* no run under this id; no run held by this task
  Requirements, Scenarios, Metadata,  \* the inputs start and replan are given
  MaxPlanVersion,        \* bound: replan is not asked for beyond it
  FaultsEnabled,         \* whether the process may die, or a save fail
  AgentOutcomes(_, _),   \* what the agent of a node may do, given the run
  FallbackOutcomes(_, _) \* the same for the fallback agent of the node

\* "ok": a result that is clean and meets its contract; "critical": one with a
\* critical finding; "fail": an error that is caught, an unmet contract among
\* them; "escape": an exception of another class, which nothing catches.
Outcomes == {"ok", "critical", "fail", "escape"}

ASSUME OrchestratorConstants ==
  /\ NoRun \notin WorkflowRun
  /\ NoRun \notin Runs
  /\ Requirements \subseteq SUBSET RequirementTraits
  /\ Scenarios \subseteq ScenarioTypes
  /\ Metadata \subseteq SUBSET MetadataFlags
  /\ MaxPlanVersion \in Nat \ {0}
  /\ FaultsEnabled \in BOOLEAN

VARIABLES
  store,      \* the runs of the JSON file
  pc,         \* where each task is
  held,       \* the id of the run the task works on
  obj,        \* the task's own copy of that run
  index,      \* the position of the scan in NODES
  progress,   \* the local variable of _drive
  phase,      \* how far the task is with each node of its batch
  snapshot    \* the artifacts each mutating node of the batch would restore

vars == <<store, pc, held, obj, index, progress, phase, snapshot>>

Labels == {"idle", "top", "scan", "gather", "settle", "final"}

\* "none": not in the batch; "queued": its coroutine has not started;
\* "agent", "fallback": that agent is awaited; "sleep": pausing before a
\* retry; "done": its coroutine has returned.
Phases == {"none", "queued", "agent", "sleep", "fallback", "done"}

Active == {"agent", "sleep", "fallback"}

NoPhase    == [n \in Nodes |-> "none"]
NoArtifacts == [n \in Nodes |-> NoArtifact]
NoSnapshot == [m \in Mutating |-> NoArtifacts]

TypeOK ==
  /\ store    \in [Runs -> WorkflowRun \cup {NoRun}]
  /\ pc       \in [Tasks -> Labels]
  /\ held     \in [Tasks -> Runs \cup {NoRun}]
  /\ obj      \in [Tasks -> WorkflowRun \cup {NoRun}]
  /\ index    \in [Tasks -> Nat]
  /\ progress \in [Tasks -> BOOLEAN]
  /\ phase    \in [Tasks -> [Nodes -> Phases]]
  /\ snapshot \in [Tasks -> [Mutating -> [Nodes -> Artifact]]]
  /\ \A t \in Tasks : pc[t] # "idle" => held[t] \in Runs /\ obj[t] \in WorkflowRun

Init ==
  /\ store    = [r \in Runs |-> NoRun]
  /\ pc       = [t \in Tasks |-> "idle"]
  /\ held     = [t \in Tasks |-> NoRun]
  /\ obj      = [t \in Tasks |-> NoRun]
  /\ index    = [t \in Tasks |-> 0]
  /\ progress = [t \in Tasks |-> FALSE]
  /\ phase    = [t \in Tasks |-> NoPhase]
  /\ snapshot = [t \in Tasks |-> NoSnapshot]

\* The event loop can run a task: no other one is between two awaits.
LoopFree == \A t \in Tasks : pc[t] \in {"idle", "gather"}

-----------------------------------------------------------------------------

(***************************************************************************)
(* Pieces of the handlers.  A handler reads the run, changes its copy,     *)
(* saves the copy whole and goes on to _drive, or returns.                 *)
(***************************************************************************)

Save(r, run) == store' = [store EXCEPT ![r] = run]

\* The task keeps `run' as its copy and enters _drive.
EnterDrive(t, r, run) ==
  /\ pc'   = [pc EXCEPT ![t] = "top"]
  /\ held' = [held EXCEPT ![t] = r]
  /\ obj'  = [obj EXCEPT ![t] = run]
  /\ UNCHANGED <<index, progress, phase, snapshot>>

\* The request is over and the task's locals are gone.
Return(t) ==
  /\ pc'       = [pc EXCEPT ![t] = "idle"]
  /\ held'     = [held EXCEPT ![t] = NoRun]
  /\ obj'      = [obj EXCEPT ![t] = NoRun]
  /\ index'    = [index EXCEPT ![t] = 0]
  /\ progress' = [progress EXCEPT ![t] = FALSE]
  /\ phase'    = [phase EXCEPT ![t] = NoPhase]
  /\ snapshot' = [snapshot EXCEPT ![t] = NoSnapshot]

Goto(t, label) == pc' = [pc EXCEPT ![t] = label]

-----------------------------------------------------------------------------
\* The requests.

CanServe(t) == LoopFree /\ pc[t] = "idle"

\* Faulty variant of StartRun: the id of another run is taken.
StartRunOver(t, r, requirement, scenario_type, metadata) ==
  LET run == NewRun(requirement, scenario_type, metadata)
  IN  CanServe(t) /\ Save(r, run) /\ EnterDrive(t, r, run)

\* start
StartRun(t, r, requirement, scenario_type, metadata) ==
  LET run == NewRun(requirement, scenario_type, metadata)
  IN  /\ CanServe(t)
      /\ store[r] = NoRun
      /\ Save(r, run)
      /\ EnterDrive(t, r, run)

\* Faulty variant of Waiting: a gate that is decided can be decided again.
WaitingOrDecided(r, g) ==
  store[r] # NoRun /\ Status(store[r], g) \in {"WAITING_APPROVAL", "SUCCESS"}

Waiting(r, g) == store[r] # NoRun /\ Status(store[r], g) = "WAITING_APPROVAL"

\* approve, with approved = True
Approve(t, r, g) ==
  LET run == ApproveGate(store[r], g)
  IN  /\ CanServe(t)
      /\ Waiting(r, g)
      /\ Save(r, run)
      /\ EnterDrive(t, r, run)

\* approve, with approved = False
Reject(t, r, g) ==
  /\ CanServe(t)
  /\ Waiting(r, g)
  /\ Save(r, RejectGate(store[r], g))
  /\ UNCHANGED <<pc, held, obj, index, progress, phase, snapshot>>

\* replan, whatever the status of the run
Replan(t, r, requirement) ==
  LET run == ReplanRun(store[r], requirement)
  IN  /\ CanServe(t)
      /\ store[r] # NoRun
      /\ store[r].plan_version < MaxPlanVersion
      /\ Save(r, run)
      /\ EnterDrive(t, r, run)

-----------------------------------------------------------------------------
\* _drive

\* Faulty variant of DriveTop: progress is not reset for each pass.
DriveTopKeepsProgress(t) ==
  /\ pc[t] = "top"
  /\ Goto(t, "scan")
  /\ index' = [index EXCEPT ![t] = 1]
  /\ phase' = [phase EXCEPT ![t] = NoPhase]
  /\ UNCHANGED <<store, held, obj, progress, snapshot>>

\* The head of `while True': return a run that is over, or begin a pass.
DriveTop(t) ==
  /\ pc[t] = "top"
  /\ IF obj[t].status \in Terminal
     THEN Return(t)
     ELSE /\ Goto(t, "scan")
          /\ index'    = [index EXCEPT ![t] = 1]
          /\ progress' = [progress EXCEPT ![t] = FALSE]
          /\ phase'    = [phase EXCEPT ![t] = NoPhase]
          /\ UNCHANGED <<held, obj, snapshot>>
  /\ UNCHANGED store

Scanned(t) == NODES[index[t]]

Scanning(t) == pc[t] = "scan" /\ index[t] \in 1..Len(NODES)

ScanOn(t) == index' = [index EXCEPT ![t] = @ + 1]

\* The scan of NODES, one node per step: a node that is not ready,
PassOver(t) ==
  /\ Scanning(t)
  /\ ~Ready(obj[t], Scanned(t))
  /\ ScanOn(t)
  /\ UNCHANGED <<store, pc, held, obj, progress, phase, snapshot>>

\* a node whose condition does not hold,
Skip(t) ==
  /\ Scanning(t)
  /\ Ready(obj[t], Scanned(t))
  /\ ~ConditionHolds(obj[t], Scanned(t))
  /\ obj' = [obj EXCEPT ![t] = SkipNode(@, Scanned(t))]
  /\ progress' = [progress EXCEPT ![t] = TRUE]
  /\ ScanOn(t)
  /\ UNCHANGED <<store, pc, held, phase, snapshot>>

\* a gate, which ends the request,
AskApproval(t) ==
  /\ Scanning(t)
  /\ Ready(obj[t], Scanned(t))
  /\ ConditionHolds(obj[t], Scanned(t))
  /\ Scanned(t) \in Gates
  /\ Save(held[t], RequestApproval(obj[t], Scanned(t)))
  /\ Return(t)

\* a node for the batch.
Enqueue(t) ==
  /\ Scanning(t)
  /\ Ready(obj[t], Scanned(t))
  /\ ConditionHolds(obj[t], Scanned(t))
  /\ Scanned(t) \in Agents
  /\ phase' = [phase EXCEPT ![t][Scanned(t)] = "queued"]
  /\ ScanOn(t)
  /\ UNCHANGED <<store, pc, held, obj, progress, snapshot>>

Batch(t) == {n \in Nodes : phase[t][n] # "none"}

\* The end of the scan: gather the batch if there is one.
ScanDone(t) ==
  /\ pc[t] = "scan"
  /\ index[t] > Len(NODES)
  /\ Goto(t, IF Batch(t) # {} THEN "gather" ELSE "final")
  /\ progress' = [progress EXCEPT ![t] = @ \/ Batch(t) # {}]
  /\ UNCHANGED <<store, held, obj, index, phase, snapshot>>

\* The gather returns and the run is saved.
GatherDone(t) ==
  /\ LoopFree
  /\ pc[t] = "gather"
  /\ \A n \in Batch(t) : phase[t][n] = "done"
  /\ Save(held[t], obj[t])
  /\ Goto(t, "settle")
  /\ UNCHANGED <<held, obj, index, progress, phase, snapshot>>

\* A failed node ends the run.
SettleFailed(t) ==
  /\ pc[t] = "settle"
  /\ SomeNode(obj[t], {"FAILED", "SAFE_STOP"})
  /\ Save(held[t], SettleFailure(obj[t]))
  /\ Return(t)

SettleOk(t) ==
  /\ pc[t] = "settle"
  /\ ~SomeNode(obj[t], {"FAILED", "SAFE_STOP"})
  /\ Goto(t, "final")
  /\ UNCHANGED <<store, held, obj, index, progress, phase, snapshot>>

Complete(t) ==
  /\ pc[t] = "final"
  /\ Status(obj[t], Final) = "SUCCESS"
  /\ Save(held[t], EndWith(obj[t], "COMPLETED"))
  /\ Return(t)

\* Faulty variant of Blocked: the failed run is not saved.
BlockedUnsaved(t) ==
  /\ pc[t] = "final"
  /\ Status(obj[t], Final) # "SUCCESS"
  /\ ~progress[t]
  /\ UNCHANGED store
  /\ Return(t)

\* Nothing moved in this pass: the graph is blocked if anything is pending.
Blocked(t) ==
  /\ pc[t] = "final"
  /\ Status(obj[t], Final) # "SUCCESS"
  /\ ~progress[t]
  /\ IF SomeNode(obj[t], {"PENDING"})
     THEN Save(held[t], EndWith(obj[t], "FAILED"))
     ELSE UNCHANGED store
  /\ Return(t)

NextPass(t) ==
  /\ pc[t] = "final"
  /\ Status(obj[t], Final) # "SUCCESS"
  /\ progress[t]
  /\ Goto(t, "top")
  /\ UNCHANGED <<store, held, obj, index, progress, phase, snapshot>>

-----------------------------------------------------------------------------
\* _execute_node, from one suspension to the next.

InBatch(t, n, phases) ==
  LoopFree /\ pc[t] = "gather" /\ phase[t][n] \in phases

\* Node n of task t is now in phase p, and the task's run has become `run'.
NodeStep(t, n, p, run) ==
  /\ phase' = [phase EXCEPT ![t][n] = p]
  /\ obj' = [obj EXCEPT ![t] = run]
  /\ UNCHANGED <<store, pc, held, index, progress>>

\* Faulty variant of BeginNode: no snapshot is taken.
BeginNodeUnsaved(t, n) ==
  /\ InBatch(t, n, {"queued"})
  /\ NodeStep(t, n, "agent", StartNode(obj[t], n))
  /\ UNCHANGED snapshot

BeginNode(t, n) ==
  /\ InBatch(t, n, {"queued"})
  /\ snapshot' = IF n \in Mutating
                 THEN [snapshot EXCEPT ![t][n] = obj[t].artifacts] ELSE snapshot
  /\ NodeStep(t, n, "agent", StartNode(obj[t], n))

\* The artifacts the node goes back to; of no account if it is not mutating.
SnapshotOf(t, n) == IF n \in Mutating THEN snapshot[t][n] ELSE NoArtifacts

Answers(t, n, outcome) ==
  InBatch(t, n, {"agent"}) /\ outcome \in AgentOutcomes(obj[t], n)

AgentSucceeds(t, n) ==
  /\ Answers(t, n, "ok")
  /\ NodeStep(t, n, "done", AcceptResult(obj[t], n))
  /\ UNCHANGED snapshot

AgentUnsafe(t, n) ==
  /\ Answers(t, n, "critical")
  /\ NodeStep(t, n, "done", PolicyStop(obj[t], n, SnapshotOf(t, n)))
  /\ UNCHANGED snapshot

\* Faulty variant of AttemptsLeft: one attempt too many.
AttemptsLeftOver(t, n) == obj[t].nodes[n].attempts <= NODE_MAP[n].max_attempts

AttemptsLeft(t, n) == obj[t].nodes[n].attempts < NODE_MAP[n].max_attempts

\* A failed attempt that is not the last one.
AgentFailsEarly(t, n) ==
  /\ Answers(t, n, "fail")
  /\ AttemptsLeft(t, n)
  /\ NodeStep(t, n, "sleep", CountRetry(NoteFailure(obj[t], n)))
  /\ UNCHANGED snapshot

\* Faulty variant of AgentFailsFinally: the fallback agent is not called.
AgentFailsForGood(t, n) ==
  /\ Answers(t, n, "fail")
  /\ ~AttemptsLeft(t, n)
  /\ NodeStep(t, n, "done",
              GiveUp(NoteFailure(obj[t], n), n, SnapshotOf(t, n)))
  /\ UNCHANGED snapshot

\* The last attempt fails: the fallback agent is called if there is one.
AgentFailsFinally(t, n) ==
  /\ Answers(t, n, "fail")
  /\ ~AttemptsLeft(t, n)
  /\ IF NODE_MAP[n].fallback_agent
     THEN NodeStep(t, n, "fallback", NoteFailure(obj[t], n))
     ELSE NodeStep(t, n, "done",
                   GiveUp(NoteFailure(obj[t], n), n, SnapshotOf(t, n)))
  /\ UNCHANGED snapshot

\* An exception that no clause catches ends the gather and the request; what
\* the other nodes of the batch still do to the copy is never saved.
AgentEscapes(t, n) ==
  /\ Answers(t, n, "escape")
  /\ Return(t)
  /\ UNCHANGED store

Wake(t, n) ==
  /\ InBatch(t, n, {"sleep"})
  /\ NodeStep(t, n, "agent", NextAttempt(obj[t], n))
  /\ UNCHANGED snapshot

FallbackAnswers(t, n, outcome) ==
  InBatch(t, n, {"fallback"}) /\ outcome \in FallbackOutcomes(obj[t], n)

\* The fallback's result is validated, not scanned.
FallbackSucceeds(t, n) ==
  \E outcome \in {"ok", "critical"} :
    /\ FallbackAnswers(t, n, outcome)
    /\ NodeStep(t, n, "done", AcceptFallback(obj[t], n, outcome = "critical"))
    /\ UNCHANGED snapshot

\* Whatever the fallback raises is caught.
FallbackFails(t, n) ==
  /\ \E outcome \in {"fail", "escape"} : FallbackAnswers(t, n, outcome)
  /\ NodeStep(t, n, "done", GiveUp(obj[t], n, SnapshotOf(t, n)))
  /\ UNCHANGED snapshot

-----------------------------------------------------------------------------

\* What the task does next ends with a save.
SavesNext(t) ==
  \/ /\ Scanning(t)
     /\ Ready(obj[t], Scanned(t))
     /\ ConditionHolds(obj[t], Scanned(t))
     /\ Scanned(t) \in Gates
  \/ LoopFree /\ pc[t] = "gather" /\ \A n \in Batch(t) : phase[t][n] = "done"
  \/ pc[t] = "settle" /\ SomeNode(obj[t], {"FAILED", "SAFE_STOP"})
  \/ pc[t] = "final" /\ (Status(obj[t], Final) = "SUCCESS" \/ ~progress[t])

\* The store raises (see WorkflowStore), nothing catches it, and the request is
\* over.  If that happens to its first save, nothing has happened at all.
SaveFails(t) ==
  /\ FaultsEnabled
  /\ SavesNext(t)
  /\ Return(t)
  /\ UNCHANGED store

\* The process dies and is started again: the file is all that is left.
Crash ==
  /\ FaultsEnabled
  /\ \E t \in Tasks : pc[t] # "idle"
  /\ pc'       = [t \in Tasks |-> "idle"]
  /\ held'     = [t \in Tasks |-> NoRun]
  /\ obj'      = [t \in Tasks |-> NoRun]
  /\ index'    = [t \in Tasks |-> 0]
  /\ progress' = [t \in Tasks |-> FALSE]
  /\ phase'    = [t \in Tasks |-> NoPhase]
  /\ snapshot' = [t \in Tasks |-> NoSnapshot]
  /\ UNCHANGED store

\* The routes.  What the guards of a request refuse (404, 409) changes nothing.
PostRun(t) ==
  \E r \in Runs, requirement \in Requirements, scenario_type \in Scenarios,
     metadata \in Metadata :
    StartRun(t, r, requirement, scenario_type, metadata)

PostApproval(t) ==
  \E r \in Runs, g \in Gates : Approve(t, r, g) \/ Reject(t, r, g)

PostReplan(t) ==
  \E r \in Runs, requirement \in Requirements : Replan(t, r, requirement)

Request(t) == PostRun(t) \/ PostApproval(t) \/ PostReplan(t)

NodeProgress(t, n) ==
  \/ BeginNode(t, n) \/ AgentSucceeds(t, n) \/ AgentUnsafe(t, n)
  \/ AgentFailsEarly(t, n) \/ AgentFailsFinally(t, n) \/ Wake(t, n)
  \/ FallbackSucceeds(t, n) \/ FallbackFails(t, n)

DriveStep(t) ==
  \/ DriveTop(t)
  \/ PassOver(t) \/ Skip(t) \/ AskApproval(t) \/ Enqueue(t) \/ ScanDone(t)
  \/ GatherDone(t) \/ SettleFailed(t) \/ SettleOk(t)
  \/ Complete(t) \/ Blocked(t) \/ NextPass(t)

TaskStep(t) == DriveStep(t) \/ \E n \in Nodes : NodeProgress(t, n)

Next ==
  \/ \E t \in Tasks :
       \/ Request(t) \/ TaskStep(t) \/ SaveFails(t)
       \/ \E n \in Nodes : AgentEscapes(t, n)
  \/ Crash

Spec == Init /\ [][Next]_vars

\* A request that is being served goes on, unless the process dies; nobody has
\* to send a request, and neither an agent nor the store has to raise.
FairSpec == Spec /\ \A t \in Tasks : WF_vars(TaskStep(t))

=============================================================================
