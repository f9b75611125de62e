--------------------------- MODULE RunOutcomeProofs ---------------------------
(***************************************************************************)
(* How runs end, what they wait for, who works on them, where their        *)
(* counters go and how long a request lasts, for every well-formed         *)
(* graph, any number of requests at once, agents that may answer anything, *)
(* saves that fail, and crashes; and with the repository's graph and       *)
(* agents, why a run failed or was stopped and what its agents are given   *)
(* to read.                                                                *)
(***************************************************************************)
EXTENDS OrchestratorProofs, SdlcWorkflow

-----------------------------------------------------------------------------
(***************************************************************************)
(* What a step within one node leaves alone: the other nodes, what the run *)
(* was told and whether it is over.                                        *)
(***************************************************************************)
Within(run, new, n) ==
  /\ new \in WorkflowRun
  /\ new.status       = run.status
  /\ new.completed_at = run.completed_at
  /\ new.plan_version = run.plan_version
  /\ new.approvals    = run.approvals
  /\ \A m \in Nodes \ {n} : new.nodes[m] = run.nodes[m]

LEMMA WithinTwice ==
  ASSUME NEW a, NEW b, NEW c, NEW n, Within(a, b, n), Within(b, c, n)
  PROVE  Within(a, c, n)
BY DEF Within

LEMMA SetNodeWithin ==
  ASSUME NEW run \in WorkflowRun, NEW n \in Nodes, NEW e \in NodeExecution
  PROVE  /\ Within(run, SetNode(run, n, e), n)
         /\ SetNode(run, n, e).nodes[n] = e
BY DEF SetNode, Within, WorkflowRun

LEMMA SetStatusWithin ==
  ASSUME NEW run \in WorkflowRun, NEW n \in Nodes, NEW s \in NodeStatus
  PROVE  Within(run, SetStatus(run, n, s), n)
<1> DEFINE e == [run.nodes[n] EXCEPT !.status = s]
<1>1. e \in NodeExecution
  BY DEF WorkflowRun, NodeExecution
<1> HIDE DEF e
<1>2. SetStatus(run, n, s) = SetNode(run, n, e)
  BY DEF e, SetStatus
<1> QED
  BY <1>1, <1>2, SetNodeWithin

LEMMA StartNodeWithin ==
  ASSUME NEW run \in WorkflowRun, NEW n \in Nodes
  PROVE  Within(run, StartNode(run, n), n)
<1> DEFINE e == [run.nodes[n] EXCEPT !.status = "RUNNING", !.attempts = 1]
<1>1. e \in NodeExecution /\ e.status = "RUNNING"
  BY DEF WorkflowRun, NodeExecution, NodeStatus
<1> HIDE DEF e
<1>2. StartNode(run, n) = SetNode(run, n, e)
  BY DEF e, StartNode
<1> QED
  BY <1>1, <1>2, SetNodeWithin

LEMMA NextAttemptWithin ==
  ASSUME NEW run \in WorkflowRun, NEW n \in Nodes
  PROVE  Within(run, NextAttempt(run, n), n)
<1> DEFINE e == [run.nodes[n] EXCEPT !.attempts = @ + 1]
<1>1. e \in NodeExecution
  BY DEF WorkflowRun, NodeExecution
<1> HIDE DEF e
<1>2. NextAttempt(run, n) = SetNode(run, n, e)
  BY DEF e, NextAttempt
<1> QED
  BY <1>1, <1>2, SetNodeWithin

LEMMA StoreResultWithin ==
  ASSUME NEW run \in WorkflowRun, NEW n \in Nodes, NEW c \in BOOLEAN
  PROVE  Within(run, StoreResult(run, n, c), n) /\ StoreResult(run, n, c).nodes = run.nodes
<1>1. /\ StoreResult(run, n, c) \in WorkflowRun
      /\ StoreResult(run, n, c).nodes = run.nodes
      /\ StoreResult(run, n, c).approvals = run.approvals
  BY StoreResultEffect DEF Local
<1> DEFINE x == [run.artifacts EXCEPT ![n] =
                   [plan           |-> run.plan_version,
                    critical       |-> c,
                    open_questions |-> OpenQuestions(run, n)]]
           d == IF n \in Deciders
                THEN run.decisions \cup {<<n, run.plan_version>>} ELSE run.decisions
<1>2. StoreResult(run, n, c) = [run EXCEPT !.artifacts = x, !.decisions = d]
  BY DEF StoreResult, WorkflowRun
<1> HIDE DEF x, d
<1>3. /\ StoreResult(run, n, c).status = run.status
      /\ StoreResult(run, n, c).completed_at = run.completed_at
      /\ StoreResult(run, n, c).plan_version = run.plan_version
  BY <1>2 DEF WorkflowRun
<1> QED
  BY <1>1, <1>3 DEF Within

LEMMA BooksWithin ==
  ASSUME NEW run \in WorkflowRun, NEW n \in Nodes
  PROVE  /\ Within(run, NoteFailure(run, n), n)
         /\ Within(run, CountRetry(run), n)
         /\ Within(run, NoteRecovery(run), n)
<1>1. Untouched(run, NoteFailure(run, n)) /\ Untouched(run, CountRetry(run))
  BY BookkeepingEffect
<1>2. /\ NoteFailure(run, n).status = run.status
      /\ NoteFailure(run, n).completed_at = run.completed_at
      /\ CountRetry(run).status = run.status
      /\ CountRetry(run).completed_at = run.completed_at
  BY DEF NoteFailure, CountRetry, WorkflowRun
<1>3. Within(run, NoteRecovery(run), n)
  <2> DEFINE b == run.recovered_at \/ run.first_failure_at # NoNode
  <2>1. b \in BOOLEAN /\ NoteRecovery(run) = [run EXCEPT !.recovered_at = b]
    BY DEF NoteRecovery, WorkflowRun
  <2> HIDE DEF b
  <2> QED
    BY <2>1 DEF Within, WorkflowRun
<1> QED
  BY <1>1, <1>2, <1>3 DEF Within, Untouched

LEMMA RestoreSnapshotWithin ==
  ASSUME NEW run \in WorkflowRun, NEW n \in Nodes, NEW artifacts \in [Nodes -> Artifact]
  PROVE  Within(run, RestoreSnapshot(run, n, artifacts), n)
<1>1. CASE n \in Mutating
  <2>1. run.rollback_count + 1 \in Nat
    BY DEF WorkflowRun
  <2> QED
    BY <1>1, <2>1 DEF RestoreSnapshot, Within, WorkflowRun
<1>2. CASE n \notin Mutating
  BY <1>2 DEF RestoreSnapshot, Within
<1> QED
  BY <1>1, <1>2

\* The steps of _execute_node.
LEMMA ExecutionWithin ==
  ASSUME NEW run \in WorkflowRun, NEW n \in Nodes, NEW c \in BOOLEAN,
         NEW artifacts \in [Nodes -> Artifact]
  PROVE  /\ Within(run, AcceptResult(run, n), n)
         /\ Within(run, AcceptFallback(run, n, c), n)
         /\ Within(run, CountRetry(NoteFailure(run, n)), n)
         /\ Within(run, PolicyStop(run, n, artifacts), n)
         /\ Within(run, GiveUp(run, n, artifacts), n)
<1>1. Within(run, AcceptResult(run, n), n)
  <2> DEFINE a == StoreResult(run, n, FALSE)
             b == SetStatus(a, n, "SUCCESS")
  <2>1. Within(run, a, n)
    BY StoreResultWithin
  <2>2. AcceptResult(run, n) = NoteRecovery(b)
    BY DEF AcceptResult
  <2> HIDE DEF a
  <2>3. Within(a, b, n)
    BY <2>1, SetStatusWithin, StatusNames DEF Within
  <2> HIDE DEF b
  <2>4. Within(b, NoteRecovery(b), n)
    BY <2>3, BooksWithin DEF Within
  <2> QED
    BY <2>1, <2>2, <2>3, <2>4, WithinTwice
<1>2. Within(run, AcceptFallback(run, n, c), n)
  <2> DEFINE a == StoreResult(run, n, c)
             e == [run.nodes[n] EXCEPT !.status = "SUCCESS", !.used_fallback = TRUE]
  <2>1. Within(run, a, n)
    BY StoreResultWithin
  <2>2. e \in NodeExecution /\ e.status = "SUCCESS"
    BY DEF WorkflowRun, NodeExecution, NodeStatus
  <2>3. AcceptFallback(run, n, c) = SetNode(a, n, e)
    BY DEF AcceptFallback
  <2> HIDE DEF a, e
  <2>4. Within(a, SetNode(a, n, e), n)
    BY <2>1, <2>2, SetNodeWithin DEF Within
  <2> QED
    BY <2>1, <2>3, <2>4, WithinTwice
<1>3. Within(run, CountRetry(NoteFailure(run, n)), n)
  <2> DEFINE a == NoteFailure(run, n)
  <2>1. Within(run, a, n)
    BY BooksWithin
  <2> HIDE DEF a
  <2>2. Within(a, CountRetry(a), n)
    BY <2>1, BooksWithin DEF Within
  <2>3. Within(run, CountRetry(a), n)
    BY <2>1, <2>2, WithinTwice
  <2> QED
    BY <2>3 DEF a
<1>4. ASSUME NEW s \in NodeStatus
      PROVE  Within(run, RestoreSnapshot(SetStatus(run, n, s), n, artifacts), n)
  <2> DEFINE a == SetStatus(run, n, s)
  <2>1. Within(run, a, n)
    BY SetStatusWithin
  <2> HIDE DEF a
  <2>2. Within(a, RestoreSnapshot(a, n, artifacts), n)
    BY <2>1, RestoreSnapshotWithin DEF Within
  <2>3. Within(run, RestoreSnapshot(a, n, artifacts), n)
    BY <2>1, <2>2, WithinTwice
  <2> QED
    BY <2>3 DEF a
<1>5. "SAFE_STOP" \in NodeStatus /\ GiveUpStatus(n) \in NodeStatus
  BY DEF NodeStatus, GiveUpStatus
<1> QED
  BY <1>1, <1>2, <1>3, <1>4, <1>5 DEF PolicyStop, GiveUp

LEMMA FallbackAttempts ==
  ASSUME NEW run \in WorkflowRun, NEW n \in Nodes, NEW c \in BOOLEAN
  PROVE  AcceptFallback(run, n, c).nodes[n].attempts = run.nodes[n].attempts
<1> DEFINE a == StoreResult(run, n, c)
           e == [run.nodes[n] EXCEPT !.status = "SUCCESS", !.used_fallback = TRUE]
<1>1. a \in WorkflowRun
  BY StoreResultWithin DEF Within
<1>2. e \in NodeExecution /\ e.attempts = run.nodes[n].attempts
  BY DEF WorkflowRun, NodeExecution, NodeStatus
<1>3. AcceptFallback(run, n, c) = SetNode(a, n, e)
  BY DEF AcceptFallback
<1> HIDE DEF a, e
<1> QED
  BY <1>1, <1>2, <1>3, SetNodeWithin

-----------------------------------------------------------------------------
(***************************************************************************)
(* A step of _execute_node, whichever it is: the node is in execution with *)
(* its status RUNNING, or it is done and has come to an end.               *)
(***************************************************************************)
Ended == {"SUCCESS", "SAFE_STOP", "FAILED", "ROLLED_BACK"}

OthersKept(run, new, n) ==
  /\ Within(run, new, n)
  /\ Local(run, new, n)
  /\ Status(run, n) \in {"PENDING", "RUNNING"}
  /\ \A m \in Nodes \ {n} : new.artifacts[m] = run.artifacts[m]

SameAttempts(run, new, n) == new.nodes[n].attempts = run.nodes[n].attempts

\* The failure of node n is noted, unless an earlier one is.
FailureNoted(run, new, n) ==
  /\ new.recovered_at = run.recovered_at
  /\ new.first_failure_at = (IF run.first_failure_at = NoNode THEN n ELSE run.first_failure_at)

\* Node n has ended without a result; a mutating one was rolled back.
RolledBackIfMutating(run, new, n) ==
  /\ SameAttempts(run, new, n)
  /\ new.retry_count = run.retry_count
  /\ new.rollback_count
       = (IF n \in Mutating THEN run.rollback_count + 1 ELSE run.rollback_count)

\* The kinds of steps, by the phases p and q of the node before and after.  An
\* attempt begins, the first one or a further one.
Begins(run, new, n, p, q) ==
  /\ q = "agent"
  /\ \/ p = "queued" /\ Status(run, n) = "PENDING" /\ new.nodes[n].attempts = 1
     \/ p = "sleep" /\ new.nodes[n].attempts = run.nodes[n].attempts + 1
  /\ SameBooks(run, new)

\* A failed attempt will be repeated.
Repeats(run, new, n, p, q) ==
  /\ p = "agent" /\ q = "sleep" /\ "fail" \in AgentOutcomes(run, n)
  /\ SameAttempts(run, new, n)
  /\ new.retry_count = run.retry_count + 1
  /\ new.rollback_count = run.rollback_count
  /\ FailureNoted(run, new, n)

\* The agent delivers, or the fallback agent does, which is no recovery.
Delivers(run, new, n, p, q) ==
  /\ p \in {"agent", "fallback"} /\ q = "done"
  /\ Status(new, n) = "SUCCESS"
  /\ SameAttempts(run, new, n)
  /\ SameCounts(run, new)
  /\ new.first_failure_at = run.first_failure_at
  /\ p = "agent" => (new.recovered_at <=> run.recovered_at \/ run.first_failure_at # NoNode)
  /\ p = "fallback" => new.recovered_at = run.recovered_at

\* The policy stops the run.
Stops(run, new, n, p, q) ==
  /\ p = "agent" /\ q = "done" /\ "critical" \in AgentOutcomes(run, n)
  /\ Status(new, n) = "SAFE_STOP"
  /\ SameOutage(run, new)
  /\ RolledBackIfMutating(run, new, n)

\* The last attempt has failed and the fallback agent is called.
FallsBack(run, new, n, p, q) ==
  /\ p = "agent" /\ q = "fallback" /\ "fail" \in AgentOutcomes(run, n)
  /\ ~(run.nodes[n].attempts < NODE_MAP[n].max_attempts)
  /\ SameAttempts(run, new, n)
  /\ SameCounts(run, new)
  /\ FailureNoted(run, new, n)

\* The last attempt has failed and there is no fallback agent, or it has failed.
GivesUp(run, new, n, p, q) ==
  /\ q = "done"
  /\ \/ /\ p = "agent" /\ "fail" \in AgentOutcomes(run, n) /\ ~NODE_MAP[n].fallback_agent
        /\ FailureNoted(run, new, n)
     \/ /\ p = "fallback" /\ FallbackOutcomes(run, n) \cap {"fail", "escape"} # {}
        /\ SameOutage(run, new)
  /\ Status(new, n) = GiveUpStatus(n)
  /\ RolledBackIfMutating(run, new, n)

Effect(run, new, n, p, q) ==
  \/ Begins(run, new, n, p, q) \/ Repeats(run, new, n, p, q) \/ Delivers(run, new, n, p, q)
  \/ Stops(run, new, n, p, q) \/ FallsBack(run, new, n, p, q) \/ GivesUp(run, new, n, p, q)

NodeMove(t, n, p, run) ==
  /\ LoopFree /\ pc[t] = "gather" /\ phase[t][n] # "none"
  /\ p \in Active \cup {"done"}
  /\ NodeStep(t, n, p, run)
  /\ OthersKept(obj[t], run, n)
  /\ p \in Active => Status(run, n) = "RUNNING"
  /\ p \notin Active => Status(run, n) \in Ended
  /\ Effect(obj[t], run, n, phase[t][n], p)

\* A move that leaves the node in execution, and one that ends it.
LEMMA ActiveMove ==
  ASSUME IInv, NEW t \in Tasks, NEW n \in Nodes, NEW p \in Active, NEW run,
         LoopFree, pc[t] = "gather", phase[t][n] # "none", NodeStep(t, n, p, run),
         OthersKept(obj[t], run, n), Status(run, n) = "RUNNING",
         Effect(obj[t], run, n, phase[t][n], p)
  PROVE  \E q, new : NodeMove(t, n, q, new)
<1>1. NodeMove(t, n, p, run)
  BY DEF NodeMove
<1> QED
  BY <1>1

LEMMA LastMove ==
  ASSUME IInv, NEW t \in Tasks, NEW n \in Nodes, NEW run,
         LoopFree, pc[t] = "gather", phase[t][n] # "none", NodeStep(t, n, "done", run),
         OthersKept(obj[t], run, n), Status(run, n) \in Ended,
         Effect(obj[t], run, n, phase[t][n], "done")
  PROVE  \E q, new : NodeMove(t, n, q, new)
<1>1. NodeMove(t, n, "done", run)
  BY PhaseFacts DEF NodeMove
<1> QED
  BY <1>1

\* A node in execution, and its phase.
LEMMA MovingNode ==
  ASSUME IInv, NEW t \in Tasks, NEW n \in Nodes, NEW p \in Active, InBatch(t, n, {p})
  PROVE  /\ obj[t] \in WorkflowRun /\ pc[t] = "gather" /\ LoopFree
         /\ phase[t][n] = p /\ phase[t][n] # "none"
         /\ Status(obj[t], n) = "RUNNING"
         /\ SnapshotOf(t, n) \in [Nodes -> Artifact]
         /\ n \in Mutating => SnapshotOf(t, n) = obj[t].artifacts
<1>1. {p} \in SUBSET Active
  OBVIOUS
<1>2. /\ obj[t] \in WorkflowRun /\ pc[t] = "gather" /\ phase[t][n] # "none"
      /\ Status(obj[t], n) = "RUNNING"
      /\ n \in Mutating => SnapshotOf(t, n) = obj[t].artifacts
  BY <1>1, ActiveNode
<1>3. SnapshotOf(t, n) \in [Nodes -> Artifact]
  BY SnapshotType DEF IInv
<1> QED
  BY <1>2, <1>3 DEF InBatch

LEMMA NodeProgressMove ==
  ASSUME IInv, NEW t \in Tasks, NEW n \in Nodes, NodeProgress(t, n)
  PROVE  \E p, run : NodeMove(t, n, p, run)
<1> USE DEF Ended
<1>1. CASE BeginNode(t, n)
  <2> DEFINE new == StartNode(obj[t], n)
  <2>1. LoopFree /\ pc[t] = "gather" /\ phase[t][n] = "queued" /\ NodeStep(t, n, "agent", new)
    BY <1>1 DEF BeginNode, InBatch
  <2>2. obj[t] \in WorkflowRun /\ Status(obj[t], n) = "PENDING"
    BY <2>1 DEF IInv, TypeOK, TaskSound, BatchSound
  <2>3. OthersKept(obj[t], new, n) /\ Status(new, n) = "RUNNING"
    BY <2>2, StartNodeWithin, StartNodeEffect, PhaseFacts DEF OthersKept
  <2>4. Effect(obj[t], new, n, "queued", "agent")
    BY <2>2, AttemptSpends, NodeBooks DEF Spends, Begins, Effect
  <2> HIDE DEF new
  <2> QED
    BY <2>1, <2>3, <2>4, ActiveMove DEF Active
<1>2. CASE AgentSucceeds(t, n)
  <2> DEFINE new == AcceptResult(obj[t], n)
  <2>1. InBatch(t, n, {"agent"}) /\ NodeStep(t, n, "done", new)
    BY <1>2 DEF AgentSucceeds, Answers
  <2>2. /\ obj[t] \in WorkflowRun /\ pc[t] = "gather" /\ LoopFree
        /\ phase[t][n] = "agent" /\ Status(obj[t], n) = "RUNNING"
    BY <2>1, MovingNode DEF Active
  <2>3. OthersKept(obj[t], new, n) /\ Status(new, n) = "SUCCESS"
    BY <2>2, ExecutionWithin, NullFacts, AcceptResultEffect, PhaseFacts DEF OthersKept
  <2>4. SameAttempts(obj[t], new, n)
    BY <2>2, ExecutionSpends, NullFacts DEF SpendsNothing, Spends, SameAttempts
  <2>5. /\ SameCounts(obj[t], new) /\ new.first_failure_at = obj[t].first_failure_at
        /\ new.recovered_at <=> obj[t].recovered_at \/ obj[t].first_failure_at # NoNode
    BY <2>2, AcceptResultBooks
  <2> HIDE DEF new
  <2>6. Effect(obj[t], new, n, "agent", "done")
    BY <2>3, <2>4, <2>5, Zenon DEF Delivers, Effect
  <2> QED
    BY <2>1, <2>2, <2>3, <2>6, LastMove
<1>3. CASE AgentUnsafe(t, n)
  <2> DEFINE new == PolicyStop(obj[t], n, SnapshotOf(t, n))
  <2>1. /\ InBatch(t, n, {"agent"}) /\ NodeStep(t, n, "done", new)
        /\ "critical" \in AgentOutcomes(obj[t], n)
    BY <1>3 DEF AgentUnsafe, Answers
  <2>2. /\ obj[t] \in WorkflowRun /\ pc[t] = "gather" /\ LoopFree
        /\ phase[t][n] = "agent" /\ Status(obj[t], n) = "RUNNING"
        /\ SnapshotOf(t, n) \in [Nodes -> Artifact]
        /\ n \in Mutating => SnapshotOf(t, n) = obj[t].artifacts
    BY <2>1, MovingNode DEF Active
  <2>3. OthersKept(obj[t], new, n) /\ Status(new, n) = "SAFE_STOP"
    BY <2>2, ExecutionWithin, PolicyStopEffect, PhaseFacts DEF OthersKept
  <2>4. SameOutage(obj[t], new) /\ RolledBackIfMutating(obj[t], new, n)
    BY <2>2, ExecutionSpends, EndNodeBooks
    DEF SpendsNothing, Spends, SameAttempts, RolledBackIfMutating
  <2> HIDE DEF new
  <2>5. Effect(obj[t], new, n, "agent", "done")
    BY <2>1, <2>3, <2>4 DEF Stops, Effect
  <2> QED
    BY <2>1, <2>2, <2>3, <2>5, LastMove
<1>4. CASE AgentFailsEarly(t, n)
  <2> DEFINE new == CountRetry(NoteFailure(obj[t], n))
  <2>1. /\ InBatch(t, n, {"agent"}) /\ NodeStep(t, n, "sleep", new)
        /\ "fail" \in AgentOutcomes(obj[t], n)
    BY <1>4 DEF AgentFailsEarly, Answers
  <2>2. /\ obj[t] \in WorkflowRun /\ pc[t] = "gather" /\ LoopFree
        /\ phase[t][n] = "agent" /\ Status(obj[t], n) = "RUNNING"
    BY <2>1, MovingNode DEF Active
  <2>3. Within(obj[t], new, n) /\ Untouched(obj[t], new)
    BY <2>2, ExecutionWithin, NullFacts, RetryEffect
  <2>4. /\ new.retry_count = obj[t].retry_count + 1
        /\ new.rollback_count = obj[t].rollback_count
        /\ FailureNoted(obj[t], new, n)
    BY <2>2, FailureBooks DEF FailureNoted, SameCounts, SameOutage
  <2> HIDE DEF new
  <2>5. OthersKept(obj[t], new, n) /\ SameAttempts(obj[t], new, n) /\ Status(new, n) = "RUNNING"
    BY <2>2, <2>3 DEF Untouched, Local, Status, OthersKept, SameAttempts
  <2>6. Effect(obj[t], new, n, "agent", "sleep")
    BY <2>1, <2>4, <2>5 DEF Repeats, Effect
  <2> QED
    BY <2>1, <2>2, <2>5, <2>6, ActiveMove DEF Active
<1>5. CASE AgentFailsFinally(t, n)
  <2> DEFINE noted == NoteFailure(obj[t], n)
             new   == GiveUp(noted, n, SnapshotOf(t, n))
  <2>1. /\ InBatch(t, n, {"agent"}) /\ "fail" \in AgentOutcomes(obj[t], n)
        /\ ~(obj[t].nodes[n].attempts < NODE_MAP[n].max_attempts)
        /\ IF NODE_MAP[n].fallback_agent THEN NodeStep(t, n, "fallback", noted)
           ELSE NodeStep(t, n, "done", new)
    BY <1>5 DEF AgentFailsFinally, Answers, AttemptsLeft
  <2>2. /\ obj[t] \in WorkflowRun /\ pc[t] = "gather" /\ LoopFree
        /\ phase[t][n] = "agent" /\ Status(obj[t], n) = "RUNNING"
        /\ SnapshotOf(t, n) \in [Nodes -> Artifact]
        /\ n \in Mutating => SnapshotOf(t, n) = obj[t].artifacts
    BY <2>1, MovingNode DEF Active
  <2>3. Within(obj[t], noted, n) /\ Untouched(obj[t], noted)
    BY <2>2, BooksWithin, BookkeepingEffect
  <2>4. SameCounts(obj[t], noted) /\ FailureNoted(obj[t], noted, n)
    BY <2>2, FailureBooks DEF FailureNoted
  <2> HIDE DEF noted
  <2>5. /\ noted \in WorkflowRun /\ noted.artifacts = obj[t].artifacts
        /\ SameAttempts(obj[t], noted, n) /\ Status(noted, n) = "RUNNING"
        /\ OthersKept(obj[t], noted, n)
    BY <2>2, <2>3 DEF Untouched, Local, Status, SameAttempts, OthersKept
  <2>6. /\ Within(noted, new, n) /\ Local(noted, new, n)
        /\ Status(new, n) = GiveUpStatus(n) /\ Status(new, n) \in {"ROLLED_BACK", "FAILED"}
        /\ new.artifacts = noted.artifacts
    BY <2>2, <2>5, ExecutionWithin, GiveUpEffect
  <2>7. SameOutage(noted, new) /\ RolledBackIfMutating(noted, new, n)
    BY <2>2, <2>5, ExecutionSpends, EndNodeBooks
    DEF SpendsNothing, Spends, SameAttempts, RolledBackIfMutating
  <2> HIDE DEF new
  <2>8. OthersKept(obj[t], new, n)
    BY <2>5, <2>6, WithinTwice DEF OthersKept, Local
  <2>9. FailureNoted(obj[t], new, n) /\ RolledBackIfMutating(obj[t], new, n)
    BY <2>4, <2>5, <2>7
    DEF FailureNoted, SameOutage, SameCounts, SameAttempts, RolledBackIfMutating
  <2>10. CASE NODE_MAP[n].fallback_agent
    <3>1. Effect(obj[t], noted, n, "agent", "fallback")
      BY <2>1, <2>4, <2>5 DEF FallsBack, Effect
    <3> QED
      BY <2>1, <2>2, <2>5, <2>10, <3>1, ActiveMove DEF Active
  <2>11. CASE ~NODE_MAP[n].fallback_agent
    <3>1. Effect(obj[t], new, n, "agent", "done")
      BY <2>1, <2>6, <2>9, <2>11 DEF GivesUp, Effect
    <3> QED
      BY <2>1, <2>2, <2>6, <2>8, <2>11, <3>1, LastMove
  <2> QED
    BY <2>10, <2>11
<1>6. CASE Wake(t, n)
  <2> DEFINE new == NextAttempt(obj[t], n)
  <2>1. InBatch(t, n, {"sleep"}) /\ NodeStep(t, n, "agent", new)
    BY <1>6 DEF Wake
  <2>2. /\ obj[t] \in WorkflowRun /\ pc[t] = "gather" /\ LoopFree
        /\ phase[t][n] = "sleep" /\ Status(obj[t], n) = "RUNNING"
    BY <2>1, MovingNode DEF Active
  <2>3. OthersKept(obj[t], new, n) /\ Status(new, n) = "RUNNING"
    BY <2>2, NextAttemptWithin, NextAttemptEffect, PhaseFacts DEF OthersKept
  <2>4. Effect(obj[t], new, n, "sleep", "agent")
    BY <2>2, AttemptSpends, NodeBooks DEF Spends, Begins, Effect
  <2> HIDE DEF new
  <2> QED
    BY <2>1, <2>2, <2>3, <2>4, ActiveMove DEF Active
<1>7. CASE FallbackSucceeds(t, n)
  <2> PICK outcome \in {"ok", "critical"} :
             /\ FallbackAnswers(t, n, outcome)
             /\ NodeStep(t, n, "done", AcceptFallback(obj[t], n, outcome = "critical"))
    BY <1>7 DEF FallbackSucceeds
  <2> DEFINE isCritical == outcome = "critical"
             new == AcceptFallback(obj[t], n, isCritical)
  <2>1. InBatch(t, n, {"fallback"}) /\ NodeStep(t, n, "done", new)
    BY DEF FallbackAnswers
  <2>2. /\ obj[t] \in WorkflowRun /\ pc[t] = "gather" /\ LoopFree
        /\ phase[t][n] = "fallback" /\ Status(obj[t], n) = "RUNNING"
        /\ isCritical \in BOOLEAN
    BY <2>1, MovingNode DEF Active
  <2> HIDE DEF isCritical
  <2>3. OthersKept(obj[t], new, n) /\ Status(new, n) = "SUCCESS"
    BY <2>2, ExecutionWithin, NullFacts, AcceptFallbackEffect, PhaseFacts DEF OthersKept
  <2>4. SameAttempts(obj[t], new, n) /\ SameBooks(obj[t], new)
    BY <2>2, FallbackAttempts, AcceptFallbackBooks DEF SameAttempts
  <2> HIDE DEF new
  <2>5. Effect(obj[t], new, n, "fallback", "done")
    BY <2>3, <2>4 DEF Delivers, Effect, SameBooks, SameOutage
  <2> QED
    BY <2>1, <2>2, <2>3, <2>5, LastMove
<1>8. CASE FallbackFails(t, n)
  <2> DEFINE new == GiveUp(obj[t], n, SnapshotOf(t, n))
  <2>1. /\ InBatch(t, n, {"fallback"}) /\ NodeStep(t, n, "done", new)
        /\ FallbackOutcomes(obj[t], n) \cap {"fail", "escape"} # {}
    BY <1>8 DEF FallbackFails, FallbackAnswers
  <2>2. /\ obj[t] \in WorkflowRun /\ pc[t] = "gather" /\ LoopFree
        /\ phase[t][n] = "fallback" /\ Status(obj[t], n) = "RUNNING"
        /\ SnapshotOf(t, n) \in [Nodes -> Artifact]
        /\ n \in Mutating => SnapshotOf(t, n) = obj[t].artifacts
    BY <2>1, MovingNode DEF Active
  <2>3. /\ OthersKept(obj[t], new, n)
        /\ Status(new, n) = GiveUpStatus(n) /\ Status(new, n) \in {"ROLLED_BACK", "FAILED"}
    BY <2>2, ExecutionWithin, GiveUpEffect, PhaseFacts DEF OthersKept
  <2>4. SameOutage(obj[t], new) /\ RolledBackIfMutating(obj[t], new, n)
    BY <2>2, ExecutionSpends, EndNodeBooks
    DEF SpendsNothing, Spends, SameAttempts, RolledBackIfMutating
  <2> HIDE DEF new
  <2>5. Effect(obj[t], new, n, "fallback", "done")
    BY <2>1, <2>3, <2>4 DEF GivesUp, Effect
  <2> QED
    BY <2>1, <2>2, <2>3, <2>5, LastMove
<1> QED
  BY <1>1, <1>2, <1>3, <1>4, <1>5, <1>6, <1>7, <1>8 DEF NodeProgress

\* Whatever the step is, the books only grow.
LEMMA EffectGrown ==
  ASSUME NEW run \in WorkflowRun, NEW new \in WorkflowRun, NEW n \in Nodes,
         NEW p, NEW q, Effect(run, new, n, p, q)
  PROVE  Grown(run, new)
<1>1. ASSUME SameCounts(run, new) \/ RolledBackIfMutating(run, new, n)
      PROVE  new.retry_count >= run.retry_count /\ new.rollback_count >= run.rollback_count
  BY <1>1 DEF SameCounts, RolledBackIfMutating, WorkflowRun
<1>2. ASSUME SameOutage(run, new) \/ FailureNoted(run, new, n)
      PROVE  Noted(run, new) /\ (run.recovered_at => new.recovered_at)
  BY <1>2, NoNodeIsNone DEF SameOutage, FailureNoted, Noted, NoNodeIsNone
<1>3. CASE Begins(run, new, n, p, q)
  BY <1>3, SameBooksGrown DEF Begins
<1>4. CASE Repeats(run, new, n, p, q)
  BY <1>2, <1>4 DEF Repeats, Grown, WorkflowRun
<1>5. CASE Delivers(run, new, n, p, q)
  <2>1. SameCounts(run, new) /\ Noted(run, new)
    BY <1>5 DEF Delivers, Noted
  <2>2. run.recovered_at => new.recovered_at
    BY <1>5, Zenon DEF Delivers
  <2> QED
    BY <1>1, <2>1, <2>2 DEF Grown
<1>6. CASE Stops(run, new, n, p, q)
  BY <1>1, <1>2, <1>6 DEF Stops, Grown
<1>7. CASE FallsBack(run, new, n, p, q)
  BY <1>1, <1>2, <1>7 DEF FallsBack, Grown
<1>8. CASE GivesUp(run, new, n, p, q)
  BY <1>1, <1>2, <1>8 DEF GivesUp, Grown
<1> QED
  BY <1>3, <1>4, <1>5, <1>6, <1>7, <1>8 DEF Effect

-----------------------------------------------------------------------------
(***************************************************************************)
(* The runs the store shows, and the copies tasks work on.  A run that is  *)
(* stored can be answered for: it ended for a cause, or it waits for one   *)
(* gate, or it is between two passes.                                      *)
(***************************************************************************)
Unbroken(run) == \A n \in Nodes : Status(run, n) \notin {"FAILED", "SAFE_STOP"}

Answerable(run) ==
  /\ EndExplained(run)
  /\ \A n \in Nodes :
       /\ Status(run, n) # "RUNNING"
       /\ Status(run, n) = "WAITING_APPROVAL" =>
            n \in Gates /\ run.status = "WAITING_APPROVAL"
  /\ \A m, n \in Nodes :
       Status(run, m) = "WAITING_APPROVAL" /\ Status(run, n) = "WAITING_APPROVAL" => m = n
  /\ run.status = "WAITING_APPROVAL" =>
       Unbroken(run) /\ \E n \in Nodes : Status(run, n) = "WAITING_APPROVAL"

InWork(run) ==
  /\ run \in WorkflowRun
  /\ run.status = "RUNNING"
  /\ ~run.completed_at
  /\ \A n \in Nodes : Status(run, n) # "WAITING_APPROVAL"

AtRest(run) == InWork(run) /\ \A n \in Nodes : Status(run, n) # "RUNNING"

\* No node executes or waits.
Still(run) ==
  \A n \in Nodes : Status(run, n) # "RUNNING" /\ Status(run, n) # "WAITING_APPROVAL"

LEMMA StillAnswerable ==
  ASSUME NEW run, Still(run), EndExplained(run), run.status # "WAITING_APPROVAL"
  PROVE  Answerable(run)
BY DEF Still, Answerable

LEMMA AtRestAnswerable ==
  ASSUME NEW run, AtRest(run)
  PROVE  Answerable(run) /\ Still(run)
<1>1. Still(run)
  BY DEF AtRest, InWork, Still
<1>2. EndExplained(run) /\ run.status # "WAITING_APPROVAL"
  BY DEF AtRest, InWork, EndExplained, Terminal
<1> QED
  BY <1>1, <1>2, StillAnswerable

LEMMA EndWithEffect ==
  ASSUME NEW run \in WorkflowRun, NEW s \in RunStatus
  PROVE  /\ EndWith(run, s).status = s
         /\ EndWith(run, s).completed_at
         /\ \A n \in Nodes : Status(EndWith(run, s), n) = Status(run, n)
BY DEF EndWith, WorkflowRun, Status

\* A run that ends at rest can be answered for if its end has a cause.
LEMMA EndAnswerable ==
  ASSUME NEW run, AtRest(run), NEW s \in Terminal,
         s = "COMPLETED" => \A n \in Nodes : Status(run, n) \in Acceptable,
         s = "FAILED" => /\ SomeNode(run, {"FAILED", "ROLLED_BACK"})
                         /\ ~SomeNode(run, {"SAFE_STOP"}),
         s = "SAFE_STOP" => SomeNode(run, {"SAFE_STOP"})
  PROVE  Answerable(EndWith(run, s))
<1>1. s \in RunStatus /\ run \in WorkflowRun
  BY DEF Terminal, RunStatus, AtRest, InWork
<1> DEFINE new == EndWith(run, s)
<1>2. /\ new.status = s
      /\ new.completed_at
      /\ \A n \in Nodes : Status(new, n) = Status(run, n)
  BY <1>1, EndWithEffect
<1> HIDE DEF new
<1>3. EndExplained(new)
  BY <1>2 DEF EndExplained, SomeNode
<1>4. Still(new)
  BY <1>2, AtRestAnswerable DEF Still
<1>5. new.status # "WAITING_APPROVAL"
  BY <1>2 DEF Terminal
<1> QED
  BY <1>3, <1>4, <1>5, StillAnswerable DEF new

\* The last node succeeded: every node is done, for it is downstream of all.
LEMMA CompleteAnswerable ==
  ASSUME NEW run, AtRest(run), Sound(run), Status(run, Final) = "SUCCESS"
  PROVE  Answerable(EndWith(run, "COMPLETED"))
<1>1. ASSUME NEW n \in Nodes, Status(run, n) \notin Acceptable
      PROVE  FALSE
  <2>1. n # Final
    BY <1>1 DEF Acceptable
  <2>2. Final \in Descendants[n]
    BY <2>1, FinalCovers DEF FinalCovers
  <2>3. Status(run, Final) = "PENDING"
    BY <1>1, <2>2, DownstreamBlocked DEF Sound
  <2> QED
    BY <2>3
<1> QED
  BY <1>1, EndAnswerable DEF Terminal

LEMMA SettleAnswerable ==
  ASSUME NEW run, AtRest(run), SomeNode(run, {"FAILED", "SAFE_STOP"})
  PROVE  Answerable(SettleFailure(run))
<1>1. CASE SomeNode(run, {"SAFE_STOP"})
  BY <1>1, EndAnswerable DEF SettleFailure, Terminal
<1>2. CASE ~SomeNode(run, {"SAFE_STOP"})
  <2>1. SomeNode(run, {"FAILED", "ROLLED_BACK"})
    BY <1>2 DEF SomeNode
  <2> QED
    BY <1>2, <2>1, EndAnswerable DEF SettleFailure, Terminal
<1> QED
  BY <1>1, <1>2

\* Nothing is ready, nothing failed and something is pending: since the graph
\* is acyclic, a pending node depends on nothing pending, so what holds it up
\* is a node that was rolled back.
LEMMA BlockedAnswerable ==
  ASSUME NEW run, AtRest(run), Unbroken(run), SomeNode(run, {"PENDING"}),
         \A n \in Nodes : ~Ready(run, n)
  PROVE  Answerable(EndWith(run, "FAILED"))
<1> DEFINE S == {n \in Nodes : Status(run, n) = "PENDING"}
<1>1. S \in (SUBSET Nodes) \ {{}}
  BY DEF SomeNode
<1>2. PICK n \in S : Deps[n] \cap S = {}
  BY <1>1, Acyclic DEF Acyclic
<1>3. n \in Nodes /\ Status(run, n) = "PENDING" /\ Deps[n] = NODE_MAP[n].dependencies
  BY DEF Deps
<1>4. PICK d \in NODE_MAP[n].dependencies : Status(run, d) \notin Acceptable
  BY <1>3 DEF Ready, DependenciesSatisfied
<1>5. d \in Nodes
  BY <1>3, <1>4, NodeFacts
<1>6. Status(run, d) # "PENDING"
  BY <1>2, <1>3, <1>5
<1>7. Status(run, d) \in NodeStatus
  BY <1>5 DEF AtRest, InWork, WorkflowRun, NodeExecution, Status
<1>8. Status(run, d) = "ROLLED_BACK"
  BY <1>4, <1>5, <1>6, <1>7 DEF NodeStatus, Acceptable, AtRest, InWork, Unbroken
<1>9. SomeNode(run, {"FAILED", "ROLLED_BACK"})
  BY <1>5, <1>8 DEF SomeNode
<1>10. ~SomeNode(run, {"SAFE_STOP"})
  BY DEF Unbroken, SomeNode
<1> QED
  BY <1>9, <1>10, EndAnswerable DEF Terminal

LEMMA AskAnswerable ==
  ASSUME NEW run, AtRest(run), Unbroken(run), NEW g \in Gates
  PROVE  Answerable(RequestApproval(run, g))
<1>1. run \in WorkflowRun /\ g \in Nodes
  BY DEF AtRest, InWork, Gates
<1> DEFINE a   == SetStatus(run, g, "WAITING_APPROVAL")
           new == RequestApproval(run, g)
<1>2. Local(run, new, g) /\ Status(new, g) = "WAITING_APPROVAL"
  BY <1>1, RequestApprovalEffect
<1>3. Within(run, a, g)
  BY <1>1, SetStatusWithin, StatusNames
<1>4. new = SetRunStatus(a, "WAITING_APPROVAL")
  BY DEF RequestApproval
<1> HIDE DEF a, new
<1>5. new.status = "WAITING_APPROVAL" /\ new.completed_at = run.completed_at
  BY <1>3, <1>4 DEF Within, SetRunStatus, WorkflowRun
<1>6. ~new.completed_at
  BY <1>5 DEF AtRest, InWork
<1>7. \A n \in Nodes \ {g} : Status(new, n) = Status(run, n)
  BY <1>2 DEF Local
<1>8. EndExplained(new)
  BY <1>5, <1>6 DEF EndExplained, Terminal
<1>9. Unbroken(new)
  BY <1>2, <1>7 DEF Unbroken
<1>10. \A n \in Nodes :
         /\ Status(new, n) # "RUNNING"
         /\ Status(new, n) = "WAITING_APPROVAL" => n = g
  BY <1>1, <1>2, <1>7, AtRestAnswerable DEF Still
<1> QED
  BY <1>1, <1>2, <1>5, <1>8, <1>9, <1>10 DEF Answerable, new

\* Only the gate that is decided was waiting.
LEMMA OthersStill ==
  ASSUME NEW run, Answerable(run), NEW g \in Nodes, Status(run, g) = "WAITING_APPROVAL"
  PROVE  \A n \in Nodes \ {g} :
           Status(run, n) # "RUNNING" /\ Status(run, n) # "WAITING_APPROVAL"
<1> TAKE n \in Nodes \ {g}
<1>1. n \in Nodes /\ n # g
  OBVIOUS
<1>2. Status(run, n) # "RUNNING"
  BY <1>1 DEF Answerable
<1>3. Status(run, n) # "WAITING_APPROVAL"
  BY <1>1 DEF Answerable
<1> QED
  BY <1>2, <1>3

LEMMA ApproveAtRest ==
  ASSUME NEW run \in WorkflowRun, Answerable(run),
         NEW g \in Gates, Status(run, g) = "WAITING_APPROVAL"
  PROVE  AtRest(ApproveGate(run, g)) /\ Unbroken(ApproveGate(run, g))
<1>1. g \in Nodes /\ run.status = "WAITING_APPROVAL"
  BY DEF Answerable, Gates
<1> DEFINE a   == RecordApproval(run, g, TRUE)
           b   == SetStatus(a, g, "SUCCESS")
           new == ApproveGate(run, g)
<1>2. Local(run, new, g) /\ Status(new, g) = "SUCCESS"
  BY <1>1, ApproveGateEffect
<1>3. a \in WorkflowRun /\ a.completed_at = run.completed_at
  <2>1. a \in WorkflowRun
    BY <1>1, RecordApprovalEffect DEF Local
  <2>2. a.completed_at = run.completed_at
    BY DEF RecordApproval, WorkflowRun
  <2> QED
    BY <2>1, <2>2
<1> HIDE DEF a
<1>4. Within(a, b, g)
  BY <1>1, <1>3, SetStatusWithin, StatusNames
<1>5. new = SetRunStatus(b, "RUNNING")
  BY DEF ApproveGate, a
<1> HIDE DEF b, new
<1>6. new.status = "RUNNING" /\ new.completed_at = run.completed_at
  BY <1>3, <1>4, <1>5 DEF Within, SetRunStatus, WorkflowRun
<1>7. ~run.completed_at
  BY <1>1 DEF Answerable, EndExplained, Terminal
<1>8. \A n \in Nodes \ {g} : Status(new, n) = Status(run, n)
  BY <1>2 DEF Local
<1>9. Still(new)
  <2>1. \A n \in Nodes \ {g} : Status(run, n) # "RUNNING" /\ Status(run, n) # "WAITING_APPROVAL"
    BY <1>1, OthersStill
  <2> QED
    BY <1>2, <1>8, <2>1 DEF Still
<1>10. Unbroken(new)
  <2>1. Unbroken(run)
    BY <1>1 DEF Answerable
  <2> QED
    BY <1>1, <1>2, <1>8, <2>1 DEF Unbroken
<1>11. new \in WorkflowRun /\ ~new.completed_at
  BY <1>2, <1>6, <1>7 DEF Local
<1>12. AtRest(new)
  BY <1>6, <1>9, <1>11 DEF AtRest, InWork, Still
<1> QED
  BY <1>10, <1>12 DEF new

LEMMA RejectAnswerable ==
  ASSUME NEW run \in WorkflowRun, Answerable(run),
         NEW g \in Gates, Status(run, g) = "WAITING_APPROVAL"
  PROVE  Answerable(RejectGate(run, g))
<1>1. g \in Nodes
  BY DEF Gates
<1> DEFINE b   == SetStatus(RecordApproval(run, g, FALSE), g, "SAFE_STOP")
           new == RejectGate(run, g)
<1>2. Local(run, new, g) /\ Status(new, g) = "SAFE_STOP"
  BY <1>1, RejectGateEffect
<1>3. b \in WorkflowRun
  <2>1. RecordApproval(run, g, FALSE) \in WorkflowRun
    BY <1>1, RecordApprovalEffect DEF Local
  <2> QED
    BY <1>1, <2>1, SetStatusWithin, StatusNames DEF Within
<1>4. new = EndWith(b, "SAFE_STOP")
  BY DEF RejectGate
<1> HIDE DEF b, new
<1>5. new.status = "SAFE_STOP" /\ new.completed_at
  BY <1>3, <1>4, EndWithEffect DEF RunStatus
<1>6. \A n \in Nodes \ {g} : Status(new, n) = Status(run, n)
  BY <1>2 DEF Local
<1>7. Still(new)
  <2>1. \A n \in Nodes \ {g} : Status(run, n) # "RUNNING" /\ Status(run, n) # "WAITING_APPROVAL"
    BY <1>1, OthersStill
  <2> QED
    BY <1>2, <1>6, <2>1 DEF Still
<1>8. SomeNode(new, {"SAFE_STOP"})
  BY <1>1, <1>2 DEF SomeNode
<1>9. EndExplained(new)
  BY <1>5, <1>8 DEF EndExplained, Terminal
<1> QED
  BY <1>5, <1>7, <1>9, StillAnswerable DEF new

\* A new run, and a run with a new plan.
LEMMA FreshAtRest ==
  ASSUME NEW run, Fresh(run), run.status = "RUNNING", ~run.completed_at
  PROVE  AtRest(run) /\ Unbroken(run)
BY DEF Fresh, AtRest, InWork, Unbroken

LEMMA NewRunAtRest ==
  ASSUME NEW requirement \in SUBSET RequirementTraits,
         NEW scenario_type \in ScenarioTypes,
         NEW metadata \in SUBSET MetadataFlags
  PROVE  LET run == NewRun(requirement, scenario_type, metadata)
         IN  AtRest(run) /\ Unbroken(run)
<1> DEFINE run == NewRun(requirement, scenario_type, metadata)
<1>1. Fresh(run)
  BY NewRunFresh
<1>2. run.status = "RUNNING" /\ ~run.completed_at
  BY DEF NewRun
<1> HIDE DEF run
<1>3. AtRest(run) /\ Unbroken(run)
  BY <1>1, <1>2, FreshAtRest
<1> QED
  BY <1>3 DEF run

LEMMA ReplanRunAtRest ==
  ASSUME NEW run \in WorkflowRun, NEW requirement \in SUBSET RequirementTraits
  PROVE  LET new == ReplanRun(run, requirement)
         IN  AtRest(new) /\ Unbroken(new)
<1> DEFINE new == ReplanRun(run, requirement)
<1>1. Fresh(new)
  BY ReplanRunFresh
<1>2. new.status = "RUNNING" /\ ~new.completed_at
  BY DEF ReplanRun, NewPlan, WorkflowRun
<1> HIDE DEF new
<1>3. AtRest(new) /\ Unbroken(new)
  BY <1>1, <1>2, FreshAtRest
<1> QED
  BY <1>3 DEF new

-----------------------------------------------------------------------------
(***************************************************************************)
(* The inductive invariant.  EndsForCause needs to know of each point of   *)
(* _drive what the pass has found so far: that nothing was ready as far as *)
(* the scan has come, unless something moved or joined the batch.          *)
(***************************************************************************)
WorkSound(label, run, batch, moved, i) ==
  /\ InWork(run)
  /\ \A n \in Nodes : Status(run, n) = "RUNNING" => label = "gather" /\ batch[n] \in Active
  /\ label \in {"top", "scan", "final"} => Unbroken(run)
  /\ label \in {"gather", "settle"} => moved
  /\ label = "scan" /\ ~moved =>
       \A j \in 1..Len(NODES) : j < i => ~Ready(run, NODES[j]) \/ batch[NODES[j]] # "none"
  /\ label = "final" /\ ~moved => \A n \in Nodes : ~Ready(run, n)

AtWork(t) == WorkSound(pc[t], obj[t], phase[t], progress[t], index[t])

StoreAnswerable == \A r \in Runs : store[r] # NoRun => Answerable(store[r])

OInv ==
  /\ IInv
  /\ StoreAnswerable
  /\ \A t \in Tasks : pc[t] # "idle" => AtWork(t)

\* Outside the gather no node executes.
LEMMA WorkAtRest ==
  ASSUME OInv, NEW t \in Tasks, pc[t] # "idle", pc[t] # "gather"
  PROVE  AtRest(obj[t]) /\ Sound(obj[t])
<1>1. AtWork(t) /\ Sound(obj[t])
  BY DEF OInv, IInv, TaskSound
<1> QED
  BY <1>1 DEF AtWork, WorkSound, AtRest

LEMMA SaveAnswerable ==
  ASSUME OInv, NEW r \in Runs, NEW run, Answerable(run), Save(r, run)
  PROVE  StoreAnswerable'
<1>1. store \in [Runs -> WorkflowRun \cup {NoRun}]
  BY DEF OInv, IInv, TypeOK
<1> QED
  BY <1>1 DEF OInv, StoreAnswerable, Save

LEMMA KeptAnswerable ==
  ASSUME OInv, UNCHANGED store
  PROVE  StoreAnswerable'
BY DEF OInv, StoreAnswerable

\* A step of one task, as the others see it.
LEMMA OthersAtWork ==
  ASSUME OInv, IInv', NEW t \in Tasks, StoreAnswerable', pc'[t] # "idle" => AtWork(t)',
         \A u \in Tasks \ {t} :
           /\ pc'[u] = pc[u]
           /\ obj'[u] = obj[u]
           /\ phase'[u] = phase[u]
           /\ progress'[u] = progress[u]
           /\ index'[u] = index[u]
  PROVE  OInv'
<1> SUFFICES ASSUME NEW u \in Tasks, u # t, pc'[u] # "idle"
             PROVE  AtWork(u)'
  BY DEF OInv
<1>1. AtWork(u)
  BY DEF OInv
<1> QED
  BY <1>1 DEF AtWork

\* A request begins its work on a run it has just saved.
LEMMA EnterDriveWork ==
  ASSUME OInv, IInv', NEW t \in Tasks, NEW r \in Runs, NEW run, AtRest(run), Unbroken(run),
         Save(r, run), EnterDrive(t, r, run)
  PROVE  OInv'
<1>1. StoreAnswerable'
  BY AtRestAnswerable, SaveAnswerable
<1>2. TypeOK
  BY DEF OInv, IInv
<1>3. pc'[t] = "top" /\ obj'[t] = run
  BY <1>2 DEF EnterDrive, TypeOK
<1>4. \A u \in Tasks \ {t} :
        /\ pc'[u] = pc[u]
        /\ obj'[u] = obj[u]
        /\ phase'[u] = phase[u]
        /\ progress'[u] = progress[u]
        /\ index'[u] = index[u]
  BY <1>2 DEF EnterDrive, TypeOK
<1>5. AtWork(t)'
  BY <1>3 DEF AtWork, WorkSound, AtRest
<1> QED
  BY <1>1, <1>4, <1>5, OthersAtWork

LEMMA ReturnWork ==
  ASSUME OInv, IInv', NEW t \in Tasks, StoreAnswerable', Return(t)
  PROVE  OInv'
<1>1. TypeOK
  BY DEF OInv, IInv
<1>2. pc'[t] = "idle"
  BY <1>1 DEF Return, TypeOK
<1>3. \A u \in Tasks \ {t} :
        /\ pc'[u] = pc[u]
        /\ obj'[u] = obj[u]
        /\ phase'[u] = phase[u]
        /\ progress'[u] = progress[u]
        /\ index'[u] = index[u]
  BY <1>1 DEF Return, TypeOK
<1> QED
  BY <1>2, <1>3, OthersAtWork

LEMMA SaveReturnWork ==
  ASSUME OInv, IInv', NEW t \in Tasks, NEW run, Answerable(run),
         pc[t] # "idle", Save(held[t], run), Return(t)
  PROVE  OInv'
<1>1. held[t] \in Runs
  BY DEF OInv, IInv, TypeOK
<1> QED
  BY <1>1, SaveAnswerable, ReturnWork

-----------------------------------------------------------------------------
\* The steps.

LEMMA RequestWork ==
  ASSUME OInv, IInv', NEW t \in Tasks, Request(t)
  PROVE  OInv'
<1> SUFFICES ASSUME NEW r \in Runs,
         \/ \E requirement \in Requirements, scenario_type \in Scenarios,
               metadata \in Metadata :
              StartRun(t, r, requirement, scenario_type, metadata)
         \/ \E g \in Gates : Approve(t, r, g) \/ Reject(t, r, g)
         \/ \E requirement \in Requirements : Replan(t, r, requirement)
             PROVE  OInv'
  BY DEF Request, PostRun, PostApproval, PostReplan
<1>1. ASSUME NEW requirement \in Requirements, NEW scenario_type \in Scenarios,
             NEW metadata \in Metadata,
             StartRun(t, r, requirement, scenario_type, metadata)
      PROVE  OInv'
  <2> DEFINE run == NewRun(requirement, scenario_type, metadata)
  <2>1. AtRest(run) /\ Unbroken(run)
    BY OrchestratorConstants, NewRunAtRest DEF OrchestratorConstants
  <2>2. Save(r, run) /\ EnterDrive(t, r, run)
    BY <1>1 DEF StartRun
  <2> HIDE DEF run
  <2> QED
    BY <2>1, <2>2, EnterDriveWork
<1>2. ASSUME NEW g \in Gates, Waiting(r, g)
      PROVE  store[r] \in WorkflowRun /\ Answerable(store[r])
             /\ Status(store[r], g) = "WAITING_APPROVAL"
  BY <1>2, WaitingGate DEF OInv, StoreAnswerable, Waiting
<1>3. ASSUME NEW g \in Gates, Approve(t, r, g)
      PROVE  OInv'
  <2> DEFINE run == ApproveGate(store[r], g)
  <2>1. Waiting(r, g) /\ Save(r, run) /\ EnterDrive(t, r, run)
    BY <1>3 DEF Approve
  <2>2. AtRest(run) /\ Unbroken(run)
    BY <1>2, <2>1, ApproveAtRest
  <2> HIDE DEF run
  <2> QED
    BY <2>1, <2>2, EnterDriveWork
<1>4. ASSUME NEW g \in Gates, Reject(t, r, g)
      PROVE  OInv'
  <2> DEFINE run == RejectGate(store[r], g)
  <2>1. Waiting(r, g) /\ Save(r, run)
        /\ UNCHANGED <<pc, held, obj, index, progress, phase, snapshot>>
    BY <1>4 DEF Reject
  <2>2. Answerable(run)
    BY <1>2, <2>1, RejectAnswerable
  <2> HIDE DEF run
  <2>3. StoreAnswerable'
    BY <2>1, <2>2, SaveAnswerable
  <2> QED
    BY <2>1, <2>3 DEF OInv, AtWork
<1>5. ASSUME NEW requirement \in Requirements, Replan(t, r, requirement)
      PROVE  OInv'
  <2> DEFINE run == ReplanRun(store[r], requirement)
  <2>1. store[r] # NoRun /\ Save(r, run) /\ EnterDrive(t, r, run)
    BY <1>5 DEF Replan
  <2>2. store[r] \in WorkflowRun
    BY <2>1 DEF OInv, IInv, TypeOK
  <2>3. AtRest(run) /\ Unbroken(run)
    BY <2>2, OrchestratorConstants, ReplanRunAtRest DEF OrchestratorConstants
  <2> HIDE DEF run
  <2> QED
    BY <2>1, <2>3, EnterDriveWork
<1> QED
  BY <1>1, <1>3, <1>4, <1>5

LEMMA NodeProgressWork ==
  ASSUME OInv, IInv', NEW t \in Tasks, NEW n \in Nodes, NodeProgress(t, n)
  PROVE  OInv'
<1>1. PICK p, run : NodeMove(t, n, p, run)
  BY NodeProgressMove DEF OInv
<1>2. TypeOK /\ AtWork(t)
  BY <1>1 DEF OInv, IInv, NodeMove
<1>3. /\ pc[t] = "gather" /\ pc' = pc /\ store' = store
      /\ progress' = progress /\ index' = index
      /\ obj'[t] = run
      /\ phase'[t] = [phase[t] EXCEPT ![n] = p]
      /\ \A u \in Tasks \ {t} : obj'[u] = obj[u] /\ phase'[u] = phase[u]
  BY <1>1, <1>2 DEF NodeMove, NodeStep, TypeOK
<1>4. phase[t] \in [Nodes -> Phases]
  BY <1>2 DEF TypeOK
<1>5. WorkSound("gather", obj[t], phase[t], progress[t], index[t])
  BY <1>2, <1>3 DEF AtWork
<1>6. /\ Within(obj[t], run, n)
      /\ p \in Active \/ Status(run, n) \in Ended
      /\ p \in Active => Status(run, n) = "RUNNING"
  BY <1>1 DEF NodeMove, OthersKept
<1>7. Status(run, n) # "WAITING_APPROVAL" /\ (Status(run, n) = "RUNNING" => p \in Active)
  BY <1>6 DEF Ended
<1>8. \A m \in Nodes \ {n} : Status(run, m) = Status(obj[t], m)
  BY <1>6 DEF Within, Status
<1>9. InWork(run)
  BY <1>5, <1>6, <1>7, <1>8 DEF WorkSound, InWork, Within
<1>10. \A m \in Nodes : Status(run, m) = "RUNNING" => phase'[t][m] \in Active
  BY <1>3, <1>4, <1>5, <1>7, <1>8 DEF WorkSound
<1>11. WorkSound("gather", run, phase'[t], progress[t], index[t])
  BY <1>5, <1>9, <1>10 DEF WorkSound
<1>12. AtWork(t)'
  BY <1>3, <1>11 DEF AtWork
<1>13. StoreAnswerable'
  BY <1>3, KeptAnswerable
<1> QED
  BY <1>3, <1>12, <1>13, OthersAtWork

LEMMA DriveTopWork ==
  ASSUME OInv, IInv', NEW t \in Tasks, DriveTop(t)
  PROVE  OInv'
<1>1. pc[t] = "top" /\ store' = store
  BY DEF DriveTop
<1>2. TypeOK /\ WorkSound("top", obj[t], phase[t], progress[t], index[t])
  BY <1>1 DEF OInv, IInv, AtWork
<1>3. obj[t].status \notin Terminal
  BY <1>2 DEF WorkSound, InWork, Terminal
<1>4. /\ pc' = [pc EXCEPT ![t] = "scan"]
      /\ index' = [index EXCEPT ![t] = 1]
      /\ progress' = [progress EXCEPT ![t] = FALSE]
      /\ phase' = [phase EXCEPT ![t] = NoPhase]
      /\ UNCHANGED <<held, obj, snapshot>>
  BY <1>3 DEF DriveTop, Goto
<1>5. pc'[t] = "scan" /\ index'[t] = 1 /\ obj' = obj
  BY <1>2, <1>4 DEF TypeOK
<1>6. /\ InWork(obj[t])
      /\ Unbroken(obj[t])
      /\ \A n \in Nodes : Status(obj[t], n) # "RUNNING"
  BY <1>2 DEF WorkSound
<1>7. ~ \E j \in 1..Len(NODES) : j < 1
  OBVIOUS
<1>8. WorkSound("scan", obj[t], phase'[t], progress'[t], 1)
  BY <1>6, <1>7 DEF WorkSound
<1>9. AtWork(t)'
  BY <1>5, <1>8 DEF AtWork
<1>10. StoreAnswerable'
  BY <1>1, KeptAnswerable
<1> QED
  BY <1>2, <1>4, <1>9, <1>10, OthersAtWork DEF TypeOK

\* What a step of the scan starts from.
LEMMA ScanWork ==
  ASSUME OInv, NEW t \in Tasks, Scanning(t)
  PROVE  /\ TypeOK
         /\ pc[t] = "scan" /\ index[t] \in 1..Len(NODES) /\ Scanned(t) \in Nodes
         /\ WorkSound("scan", obj[t], phase[t], progress[t], index[t])
         /\ \A j \in 1..Len(NODES) :
              /\ NODES[j] \in Nodes
              /\ j < index[t] + 1 => j < index[t] \/ NODES[j] = Scanned(t)
<1>1. TypeOK /\ pc[t] = "scan" /\ index[t] \in 1..Len(NODES)
  BY DEF OInv, IInv, Scanning
<1>2. WorkSound("scan", obj[t], phase[t], progress[t], index[t])
  BY <1>1 DEF OInv, AtWork
<1>3. \A j \in 1..Len(NODES) : NODES[j] \in Nodes
  BY GraphType DEF GraphType
<1>4. \A j \in 1..Len(NODES) : j < index[t] + 1 => j < index[t] \/ j = index[t]
  BY <1>1
<1> QED
  BY <1>1, <1>2, <1>3, <1>4 DEF Scanned

LEMMA PassOverWork ==
  ASSUME OInv, IInv', NEW t \in Tasks, PassOver(t)
  PROVE  OInv'
<1>1. /\ TypeOK
      /\ pc[t] = "scan"
      /\ WorkSound("scan", obj[t], phase[t], progress[t], index[t])
      /\ \A j \in 1..Len(NODES) : j < index[t] + 1 => j < index[t] \/ NODES[j] = Scanned(t)
  BY ScanWork DEF PassOver
<1>2. /\ ~Ready(obj[t], Scanned(t))
      /\ index' = [index EXCEPT ![t] = @ + 1]
      /\ UNCHANGED <<store, pc, held, obj, progress, phase, snapshot>>
  BY DEF PassOver, ScanOn
<1>3. index'[t] = index[t] + 1 /\ \A u \in Tasks \ {t} : index'[u] = index[u]
  BY <1>1, <1>2 DEF TypeOK
<1>4. WorkSound("scan", obj[t], phase[t], progress[t], index[t] + 1)
  BY <1>1, <1>2 DEF WorkSound
<1>5. AtWork(t)'
  BY <1>1, <1>2, <1>3, <1>4 DEF AtWork
<1> QED
  BY <1>2, <1>3, <1>5, KeptAnswerable, OthersAtWork

LEMMA SkipWork ==
  ASSUME OInv, IInv', NEW t \in Tasks, Skip(t)
  PROVE  OInv'
<1> DEFINE n   == Scanned(t)
           run == SkipNode(obj[t], n)
<1>1. /\ TypeOK
      /\ pc[t] = "scan" /\ n \in Nodes
      /\ WorkSound("scan", obj[t], phase[t], progress[t], index[t])
  BY ScanWork DEF Skip
<1>2. /\ obj' = [obj EXCEPT ![t] = run]
      /\ progress' = [progress EXCEPT ![t] = TRUE]
      /\ index' = [index EXCEPT ![t] = @ + 1]
      /\ UNCHANGED <<store, pc, held, phase, snapshot>>
  BY DEF Skip, ScanOn
<1>3. /\ Within(obj[t], run, n)
      /\ Status(run, n) = "SKIPPED"
  <2>1. obj[t] \in WorkflowRun
    BY <1>1 DEF WorkSound, InWork
  <2> QED
    BY <1>1, <2>1, SetStatusWithin, SetStatusEffect, StatusNames DEF SkipNode
<1> HIDE DEF n, run
<1>4. /\ obj'[t] = run /\ progress'[t] = TRUE /\ index'[t] = index[t] + 1
      /\ \A u \in Tasks \ {t} :
           obj'[u] = obj[u] /\ progress'[u] = progress[u] /\ index'[u] = index[u]
  BY <1>1, <1>2 DEF TypeOK
<1>5. \A m \in Nodes \ {n} : Status(run, m) = Status(obj[t], m)
  BY <1>3 DEF Within, Status
<1>6. InWork(run)
  BY <1>1, <1>3, <1>5 DEF WorkSound, InWork, Within
<1>7. Unbroken(run) /\ \A m \in Nodes : Status(run, m) # "RUNNING"
  BY <1>1, <1>3, <1>5 DEF WorkSound, Unbroken
<1>8. WorkSound("scan", run, phase[t], TRUE, index[t] + 1)
  BY <1>6, <1>7 DEF WorkSound
<1>9. AtWork(t)'
  BY <1>1, <1>2, <1>4, <1>8 DEF AtWork
<1> QED
  BY <1>2, <1>4, <1>9, KeptAnswerable, OthersAtWork

LEMMA AskApprovalWork ==
  ASSUME OInv, IInv', NEW t \in Tasks, AskApproval(t)
  PROVE  OInv'
<1>1. pc[t] = "scan" /\ Unbroken(obj[t])
  BY ScanWork DEF AskApproval, WorkSound
<1>2. AtRest(obj[t])
  BY <1>1, WorkAtRest
<1>3. Answerable(RequestApproval(obj[t], Scanned(t)))
  BY <1>1, <1>2, AskAnswerable DEF AskApproval
<1> QED
  BY <1>1, <1>3, SaveReturnWork DEF AskApproval

LEMMA EnqueueWork ==
  ASSUME OInv, IInv', NEW t \in Tasks, Enqueue(t)
  PROVE  OInv'
<1>1. /\ TypeOK
      /\ pc[t] = "scan" /\ Scanned(t) \in Nodes
      /\ WorkSound("scan", obj[t], phase[t], progress[t], index[t])
      /\ \A j \in 1..Len(NODES) :
           /\ NODES[j] \in Nodes
           /\ j < index[t] + 1 => j < index[t] \/ NODES[j] = Scanned(t)
  BY ScanWork DEF Enqueue
<1>2. /\ phase' = [phase EXCEPT ![t][Scanned(t)] = "queued"]
      /\ index' = [index EXCEPT ![t] = @ + 1]
      /\ UNCHANGED <<store, pc, held, obj, progress, snapshot>>
  BY DEF Enqueue, ScanOn
<1>3. /\ index'[t] = index[t] + 1
      /\ phase'[t] = [phase[t] EXCEPT ![Scanned(t)] = "queued"]
      /\ phase[t] \in [Nodes -> Phases]
      /\ \A u \in Tasks \ {t} : index'[u] = index[u] /\ phase'[u] = phase[u]
  BY <1>1, <1>2 DEF TypeOK
<1>4. \A k \in Nodes : /\ phase[t][k] # "none" => phase'[t][k] # "none"
                       /\ k = Scanned(t) => phase'[t][k] # "none"
  BY <1>3
<1>5. ~progress[t] =>
        \A j \in 1..Len(NODES) :
          j < index[t] + 1 => ~Ready(obj[t], NODES[j]) \/ phase'[t][NODES[j]] # "none"
  BY <1>1, <1>4 DEF WorkSound
<1>6. WorkSound("scan", obj[t], phase'[t], progress[t], index[t] + 1)
  BY <1>1, <1>5 DEF WorkSound
<1>7. AtWork(t)'
  BY <1>1, <1>2, <1>3, <1>6 DEF AtWork
<1> QED
  BY <1>2, <1>3, <1>7, KeptAnswerable, OthersAtWork

\* The scan has come to the end of NODES.
LEMMA ScanDoneWork ==
  ASSUME OInv, IInv', NEW t \in Tasks, ScanDone(t)
  PROVE  OInv'
<1> DEFINE label == IF Batch(t) # {} THEN "gather" ELSE "final"
           moved == progress[t] \/ Batch(t) # {}
<1>1. /\ pc[t] = "scan" /\ index[t] > Len(NODES)
      /\ pc' = [pc EXCEPT ![t] = label]
      /\ progress' = [progress EXCEPT ![t] = moved]
      /\ UNCHANGED <<store, held, obj, index, phase, snapshot>>
  <2>1. progress' = [progress EXCEPT ![t] = moved]
    BY DEF ScanDone
  <2> QED
    BY <2>1 DEF ScanDone, Goto
<1>2. TypeOK /\ WorkSound("scan", obj[t], phase[t], progress[t], index[t])
  BY <1>1 DEF OInv, IInv, AtWork
<1>3. /\ pc'[t] = label /\ progress'[t] = moved
      /\ \A u \in Tasks \ {t} : pc'[u] = pc[u] /\ progress'[u] = progress[u]
  BY <1>1, <1>2 DEF TypeOK
<1>4. /\ InWork(obj[t])
      /\ Unbroken(obj[t])
      /\ \A n \in Nodes : Status(obj[t], n) # "RUNNING"
  BY <1>2 DEF WorkSound
<1>5. WorkSound(label, obj[t], phase[t], moved, index[t])
  <2>1. CASE Batch(t) # {}
    BY <1>4, <2>1 DEF WorkSound
  <2>2. CASE Batch(t) = {}
    <3>1. ASSUME ~progress[t], NEW n \in Nodes
          PROVE  ~Ready(obj[t], n)
      <4>1. PICK j \in 1..Len(NODES) : NODES[j] = n
        BY GraphType DEF GraphType
      <4>2. j < index[t]
        BY <1>1, <1>2, GraphType DEF TypeOK, GraphType
      <4>3. phase[t][n] = "none"
        BY <2>2 DEF Batch
      <4> QED
        BY <1>2, <3>1, <4>1, <4>2, <4>3 DEF WorkSound
    <3>2. label = "final" /\ moved = progress[t]
      BY <1>2, <2>2 DEF TypeOK
    <3> HIDE DEF label, moved
    <3> QED
      BY <1>4, <3>1, <3>2 DEF WorkSound
  <2> QED
    BY <2>1, <2>2
<1> HIDE DEF label, moved
<1>6. AtWork(t)'
  BY <1>1, <1>3, <1>5 DEF AtWork
<1> QED
  BY <1>1, <1>3, <1>6, KeptAnswerable, OthersAtWork

LEMMA GatherDoneWork ==
  ASSUME OInv, IInv', NEW t \in Tasks, GatherDone(t)
  PROVE  OInv'
<1>1. /\ pc[t] = "gather"
      /\ \A n \in Batch(t) : phase[t][n] = "done"
      /\ Save(held[t], obj[t])
      /\ pc' = [pc EXCEPT ![t] = "settle"]
      /\ UNCHANGED <<held, obj, index, progress, phase, snapshot>>
  BY DEF GatherDone, Goto
<1>2. /\ TypeOK /\ held[t] \in Runs
      /\ WorkSound("gather", obj[t], phase[t], progress[t], index[t])
  BY <1>1 DEF OInv, IInv, TypeOK, AtWork
<1>3. ASSUME NEW n \in Nodes
      PROVE  phase[t][n] \notin Active
  BY <1>1 DEF Batch, Active
<1>4. InWork(obj[t]) /\ progress[t] /\ \A n \in Nodes : Status(obj[t], n) # "RUNNING"
  BY <1>2, <1>3 DEF WorkSound
<1>5. AtRest(obj[t])
  BY <1>4 DEF AtRest
<1>6. StoreAnswerable'
  BY <1>1, <1>2, <1>5, AtRestAnswerable, SaveAnswerable
<1>7. pc'[t] = "settle" /\ \A u \in Tasks \ {t} : pc'[u] = pc[u]
  BY <1>1, <1>2 DEF TypeOK
<1>8. WorkSound("settle", obj[t], phase[t], progress[t], index[t])
  BY <1>4 DEF WorkSound
<1>9. AtWork(t)'
  BY <1>1, <1>7, <1>8 DEF AtWork
<1> QED
  BY <1>1, <1>6, <1>7, <1>9, OthersAtWork

LEMMA SettleFailedWork ==
  ASSUME OInv, IInv', NEW t \in Tasks, SettleFailed(t)
  PROVE  OInv'
<1>1. pc[t] = "settle"
  BY DEF SettleFailed
<1>2. AtRest(obj[t])
  BY <1>1, WorkAtRest
<1> QED
  BY <1>1, <1>2, SettleAnswerable, SaveReturnWork DEF SettleFailed

LEMMA SettleOkWork ==
  ASSUME OInv, IInv', NEW t \in Tasks, SettleOk(t)
  PROVE  OInv'
<1>1. /\ pc[t] = "settle"
      /\ ~SomeNode(obj[t], {"FAILED", "SAFE_STOP"})
      /\ pc' = [pc EXCEPT ![t] = "final"]
      /\ UNCHANGED <<store, held, obj, index, progress, phase, snapshot>>
  BY DEF SettleOk, Goto
<1>2. /\ TypeOK
      /\ WorkSound("settle", obj[t], phase[t], progress[t], index[t])
  BY <1>1 DEF OInv, IInv, AtWork
<1>3. Unbroken(obj[t])
  BY <1>1 DEF Unbroken, SomeNode
<1>4. WorkSound("final", obj[t], phase[t], progress[t], index[t])
  BY <1>2, <1>3 DEF WorkSound
<1>5. pc'[t] = "final" /\ \A u \in Tasks \ {t} : pc'[u] = pc[u]
  BY <1>1, <1>2 DEF TypeOK
<1>6. AtWork(t)'
  BY <1>1, <1>4, <1>5 DEF AtWork
<1> QED
  BY <1>1, <1>5, <1>6, KeptAnswerable, OthersAtWork

LEMMA CompleteWork ==
  ASSUME OInv, IInv', NEW t \in Tasks, Complete(t)
  PROVE  OInv'
<1>1. pc[t] = "final"
  BY DEF Complete
<1>2. AtRest(obj[t]) /\ Sound(obj[t])
  BY <1>1, WorkAtRest
<1> QED
  BY <1>1, <1>2, CompleteAnswerable, SaveReturnWork DEF Complete

LEMMA BlockedWork ==
  ASSUME OInv, IInv', NEW t \in Tasks, Blocked(t)
  PROVE  OInv'
<1>1. pc[t] = "final" /\ ~progress[t] /\ Return(t)
  BY DEF Blocked
<1>2. AtRest(obj[t])
  BY <1>1, WorkAtRest
<1>3. Unbroken(obj[t]) /\ \A n \in Nodes : ~Ready(obj[t], n)
  BY <1>1 DEF OInv, AtWork, WorkSound
<1>4. CASE SomeNode(obj[t], {"PENDING"})
  <2>1. Answerable(EndWith(obj[t], "FAILED"))
    BY <1>2, <1>3, <1>4, BlockedAnswerable
  <2> QED
    BY <1>1, <1>4, <2>1, SaveReturnWork DEF Blocked
<1>5. CASE ~SomeNode(obj[t], {"PENDING"})
  BY <1>1, <1>5, KeptAnswerable, ReturnWork DEF Blocked
<1> QED
  BY <1>4, <1>5

LEMMA NextPassWork ==
  ASSUME OInv, IInv', NEW t \in Tasks, NextPass(t)
  PROVE  OInv'
<1>1. /\ pc[t] = "final"
      /\ pc' = [pc EXCEPT ![t] = "top"]
      /\ UNCHANGED <<store, held, obj, index, progress, phase, snapshot>>
  BY DEF NextPass, Goto
<1>2. TypeOK /\ WorkSound("final", obj[t], phase[t], progress[t], index[t])
  BY <1>1 DEF OInv, IInv, AtWork
<1>3. WorkSound("top", obj[t], phase[t], progress[t], index[t])
  BY <1>2 DEF WorkSound
<1>4. pc'[t] = "top" /\ \A u \in Tasks \ {t} : pc'[u] = pc[u]
  BY <1>1, <1>2 DEF TypeOK
<1>5. AtWork(t)'
  BY <1>1, <1>3, <1>4 DEF AtWork
<1> QED
  BY <1>1, <1>4, <1>5, KeptAnswerable, OthersAtWork

-----------------------------------------------------------------------------

LEMMA OInvInit == Init => OInv
<1> SUFFICES ASSUME Init
             PROVE  OInv
  OBVIOUS
<1>1. IInv
  BY IInvInit
<1> QED
  BY <1>1 DEF Init, OInv, StoreAnswerable

LEMMA OInvNext == OInv /\ [Next]_vars => OInv'
<1> SUFFICES ASSUME OInv, [Next]_vars
             PROVE  OInv'
  OBVIOUS
<1>0. IInv'
  BY IInvNext DEF OInv
<1>1. CASE UNCHANGED vars
  BY <1>0, <1>1 DEF vars, OInv, StoreAnswerable, AtWork
<1>2. ASSUME NEW t \in Tasks, Request(t)
      PROVE  OInv'
  BY <1>0, <1>2, RequestWork
<1>3. ASSUME NEW t \in Tasks, DriveStep(t)
      PROVE  OInv'
  BY <1>0, <1>3, DriveTopWork, PassOverWork, SkipWork, AskApprovalWork, EnqueueWork,
     ScanDoneWork, GatherDoneWork, SettleFailedWork, SettleOkWork, CompleteWork,
     BlockedWork, NextPassWork DEF DriveStep
<1>4. ASSUME NEW t \in Tasks, NEW n \in Nodes, NodeProgress(t, n)
      PROVE  OInv'
  BY <1>0, <1>4, NodeProgressWork
<1>5. ASSUME NEW t \in Tasks, (\E n \in Nodes : AgentEscapes(t, n)) \/ SaveFails(t)
      PROVE  OInv'
  BY <1>0, <1>5, KeptAnswerable, ReturnWork DEF AgentEscapes, SaveFails
<1>6. CASE Crash
  BY <1>0, <1>6, KeptAnswerable DEF Crash, OInv
<1> QED
  BY <1>1, <1>2, <1>3, <1>4, <1>5, <1>6 DEF Next, TaskStep

LEMMA OInvHolds == Spec => []OInv
BY OInvInit, OInvNext, PTL DEF Spec

\* A run is completed only when every node is done, failed or stopped only
\* when a node was, and given up as blocked by _drive only when a node was
\* rolled back; it has its time of completion exactly when it is over.
THEOREM EndsExplained == Spec => []EndsForCause
<1>1. OInv => EndsForCause
  <2> SUFFICES ASSUME OInv, NEW run \in Copies
               PROVE  EndExplained(run)
    BY DEF EndsForCause
  <2>1. CASE run \in Stored
    BY <2>1 DEF Stored, OInv, StoreAnswerable, Answerable
  <2>2. ASSUME NEW t \in Tasks, pc[t] # "idle", run = obj[t]
        PROVE  EndExplained(run)
    BY <2>2 DEF OInv, AtWork, WorkSound, InWork, EndExplained, Terminal
  <2> QED
    BY <2>1, <2>2 DEF Copies
<1> QED
  BY <1>1, OInvHolds, PTL

\* Whatever is in the store can be answered by approve: a run waits exactly
\* when one of its gates does, and no node is left executing, wherever a save
\* failed, an agent's exception escaped or the process died.
THEOREM StoreAnswers == Spec => []StoreAnswersRequests
<1>1. OInv => StoreAnswersRequests
  <2> SUFFICES ASSUME OInv, NEW run \in Stored
               PROVE  WaitsForOneGate(run) /\ ~SomeNode(run, {"RUNNING"})
    BY DEF StoreAnswersRequests
  <2>1. Answerable(run)
    BY DEF Stored, OInv, StoreAnswerable
  <2> DEFINE waiting == {n \in Nodes : Status(run, n) = "WAITING_APPROVAL"}
  <2>2. Cardinality(waiting) <= 1
    <3>1. CASE waiting = {}
      <4> HIDE DEF waiting
      <4>1. Cardinality(waiting) = 0
        BY <3>1, FS_EmptySet
      <4> QED
        BY <4>1
    <3>2. CASE waiting # {}
      <4>1. PICK g \in Nodes : Status(run, g) = "WAITING_APPROVAL"
        BY <3>2
      <4>2. waiting = {g}
        BY <2>1, <4>1 DEF Answerable
      <4> HIDE DEF waiting
      <4>3. Cardinality(waiting) = 1
        BY <4>2, FS_Singleton
      <4> QED
        BY <4>3
    <3> QED
      BY <3>1, <3>2
  <2>3. waiting # {} <=> run.status = "WAITING_APPROVAL"
    BY <2>1 DEF Answerable
  <2>4. waiting \subseteq Gates
    BY <2>1 DEF Answerable
  <2>5. ~SomeNode(run, {"RUNNING"})
    BY <2>1 DEF Answerable, SomeNode
  <2> QED
    BY <2>2, <2>3, <2>4, <2>5 DEF WaitsForOneGate
<1> QED
  BY <1>1, OInvHolds, PTL

\* A run that _drive completed has each of its gates approved for the plan it
\* completed, but for those whose condition does not hold, however many
\* requests, replans, failed saves and crashes there were.
THEOREM CompletionApproved ==
  Spec => [](\A run \in Stored : run.status = "COMPLETED" =>
               \A g \in Gates : GateOpen(run, g))
<1>1. OInv => \A run \in Stored : run.status = "COMPLETED" =>
                \A g \in Gates : GateOpen(run, g)
  <2> SUFFICES ASSUME OInv, NEW r \in Runs, store[r] # NoRun, store[r].status = "COMPLETED",
                      NEW g \in Gates
               PROVE  GateOpen(store[r], g)
    BY DEF Stored
  <2>1. Sound(store[r]) /\ EndExplained(store[r])
    BY DEF OInv, IInv, StoreSound, StoreAnswerable, Answerable
  <2>2. g \in Nodes /\ Status(store[r], g) \in Acceptable
    BY <2>1 DEF EndExplained, Gates
  <2> QED
    BY <2>1, <2>2 DEF Sound, GatesDecided
<1> QED
  BY <1>1, OInvHolds, PTL

-----------------------------------------------------------------------------
(***************************************************************************)
(* Who works on a run.  Two requests on one plan would need a gate that    *)
(* waits while the first of them is at work; a run that a request on its   *)
(* first plan works on shows no such gate, and a later plan is allowed for *)
(* in the property.                                                        *)
(***************************************************************************)
Ungated(run) == \A n \in Nodes : Status(run, n) # "WAITING_APPROVAL"

Holds(t) ==
  IF pc[t] = "idle" THEN held[t] = NoRun
  ELSE /\ store[held[t]] # NoRun
       /\ obj[t].plan_version >= 1
       /\ obj[t].plan_version = 1 /\ store[held[t]].plan_version = 1 =>
            Ungated(store[held[t]])

XInv ==
  /\ OInv
  /\ \A r \in Runs : store[r] # NoRun => store[r].plan_version >= 1
  /\ \A t \in Tasks : Holds(t)
  /\ ExclusiveUnlessReplanned

\* A task that goes on with the plan it had, and one that returns.
GoesOn(u) ==
  /\ pc[u] # "idle" /\ pc'[u] # "idle" /\ held'[u] = held[u]
  /\ obj'[u].plan_version = obj[u].plan_version

StaysIdle(u) == pc'[u] = "idle" /\ held'[u] = NoRun

\* What the store shows of a run is what it showed, or waits for no gate.
Keeps(r) ==
  \/ store'[r] = store[r]
  \/ store'[r] # NoRun /\ store'[r].plan_version >= 1 /\ Ungated(store'[r])

LEMMA ActiveHolds ==
  ASSUME XInv, NEW t \in Tasks, pc[t] # "idle"
  PROVE  /\ held[t] \in Runs /\ store[held[t]] # NoRun /\ obj[t] \in WorkflowRun
         /\ obj[t].plan_version \in Nat /\ obj[t].plan_version >= 1
         /\ held[t] # NoRun
<1>1. held[t] \in Runs /\ obj[t] \in WorkflowRun
  BY DEF XInv, OInv, IInv, TypeOK
<1>2. store[held[t]] # NoRun /\ obj[t].plan_version >= 1
  BY DEF XInv, Holds
<1> QED
  BY <1>1, <1>2, OrchestratorConstants DEF WorkflowRun, OrchestratorConstants

\* No request comes in, and no run the store shows gets a waiting gate.
LEMMA NobodyComes ==
  ASSUME XInv, OInv',
         \A u \in Tasks : GoesOn(u) \/ StaysIdle(u),
         \A r \in Runs : Keeps(r)
  PROVE  XInv'
<1>1. \A r \in Runs : store'[r] # NoRun => store'[r].plan_version >= 1
  BY DEF XInv, Keeps
<1>2. ASSUME NEW t \in Tasks
      PROVE  Holds(t)'
  <2>1. CASE StaysIdle(t)
    BY <2>1 DEF StaysIdle, Holds
  <2>2. CASE GoesOn(t)
    <3>1. held[t] \in Runs /\ store[held[t]] # NoRun
      BY <2>2, ActiveHolds DEF GoesOn
    <3>2. Holds(t)
      BY DEF XInv
    <3>3. \/ store'[held[t]] = store[held[t]]
          \/ store'[held[t]] # NoRun /\ Ungated(store'[held[t]])
      BY <3>1 DEF Keeps
    <3>4. Ungated(store[held[t]]) /\ store'[held[t]] = store[held[t]] =>
            Ungated(store'[held[t]])
      OBVIOUS
    <3>5. Ungated(store[held[t]])' = Ungated(store'[held'[t]])
      BY DEF Ungated, Status
    <3> QED
      BY <2>2, <3>1, <3>2, <3>3, <3>4, <3>5 DEF GoesOn, Holds
  <2> QED
    BY <2>1, <2>2
<1>3. ExclusiveUnlessReplanned'
  <2> SUFFICES ASSUME NEW t \in Tasks, NEW u \in Tasks, t # u,
                      held'[t] = held'[u], held'[t] # NoRun
               PROVE  obj'[t].plan_version > 1 \/ obj'[u].plan_version > 1
    BY DEF ExclusiveUnlessReplanned
  <2>1. GoesOn(t) /\ GoesOn(u)
    BY DEF StaysIdle
  <2>2. obj[t].plan_version > 1 \/ obj[u].plan_version > 1
    BY <2>1 DEF XInv, ExclusiveUnlessReplanned, GoesOn
  <2> QED
    BY <2>1, <2>2 DEF GoesOn
<1> QED
  BY <1>1, <1>2, <1>3 DEF XInv

\* A step of one task that is in service, which goes on or returns, and saves
\* nothing or a run without a waiting gate.
LEMMA OneGoesOn ==
  ASSUME XInv, OInv', NEW t \in Tasks, pc[t] # "idle",
         GoesOn(t) \/ StaysIdle(t),
         \A u \in Tasks \ {t} : pc'[u] = pc[u] /\ held'[u] = held[u] /\ obj'[u] = obj[u],
         \/ UNCHANGED store
         \/ \E run \in WorkflowRun : /\ Save(held[t], run)
                                     /\ run.plan_version = obj[t].plan_version
                                     /\ Ungated(run)
  PROVE  XInv'
<1>1. ASSUME NEW u \in Tasks
      PROVE  GoesOn(u) \/ StaysIdle(u)
  <2>1. CASE u = t
    BY <2>1
  <2>2. CASE u # t /\ pc[u] = "idle"
    BY <2>2 DEF XInv, Holds, StaysIdle
  <2>3. CASE u # t /\ pc[u] # "idle"
    BY <2>3 DEF GoesOn
  <2> QED
    BY <2>1, <2>2, <2>3
<1>2. ASSUME NEW r \in Runs
      PROVE  Keeps(r)
  <2>1. CASE UNCHANGED store
    BY <2>1 DEF Keeps
  <2>2. ASSUME NEW run \in WorkflowRun, Save(held[t], run),
               run.plan_version = obj[t].plan_version, Ungated(run)
        PROVE  Keeps(r)
    <3>1. store'[r] = IF r = held[t] THEN run ELSE store[r]
      BY <2>2 DEF Save, XInv, OInv, IInv, TypeOK
    <3>2. run # NoRun /\ run.plan_version >= 1
      BY <2>2, ActiveHolds, OrchestratorConstants DEF OrchestratorConstants
    <3> QED
      BY <2>2, <3>1, <3>2 DEF Keeps
  <2> QED
    BY <2>1, <2>2
<1> QED
  BY <1>1, <1>2, NobodyComes

\* A request begins its work: on a later plan, or on a run that no request is
\* at work on with its first plan.
LEMMA EnterDriveAlone ==
  ASSUME XInv, OInv', NEW t \in Tasks, NEW r \in Runs, NEW run,
         AtRest(run), run.plan_version >= 1,
         pc[t] = "idle", Save(r, run), EnterDrive(t, r, run),
         run.plan_version = 1 =>
           \A u \in Tasks : pc[u] # "idle" /\ held[u] = r => obj[u].plan_version > 1
  PROVE  XInv'
<1>1. TypeOK /\ run \in WorkflowRun /\ Ungated(run) /\ run # NoRun
  BY OrchestratorConstants
  DEF XInv, OInv, IInv, AtRest, InWork, Ungated, OrchestratorConstants
<1>2. run.plan_version \in Nat
  BY <1>1 DEF WorkflowRun
<1>3. /\ \A s \in Runs : store'[s] = IF s = r THEN run ELSE store[s]
      /\ pc'[t] = "top" /\ held'[t] = r /\ obj'[t] = run
      /\ \A u \in Tasks \ {t} : pc'[u] = pc[u] /\ held'[u] = held[u] /\ obj'[u] = obj[u]
  BY <1>1 DEF EnterDrive, Save, TypeOK
<1>4. \A s \in Runs : store'[s] # NoRun => store'[s].plan_version >= 1
  BY <1>3 DEF XInv
<1>5. ASSUME NEW u \in Tasks
      PROVE  Holds(u)'
  <2>1. Ungated(store[held[u]])' = Ungated(store'[held'[u]])
    BY DEF Ungated, Status
  <2>2. CASE u = t
    BY <1>1, <1>3, <2>1, <2>2 DEF Holds
  <2>3. CASE u # t /\ pc[u] = "idle"
    BY <1>3, <2>3 DEF Holds, XInv
  <2>4. CASE u # t /\ pc[u] # "idle"
    <3>1. /\ held[u] \in Runs /\ store[held[u]] # NoRun
          /\ obj[u].plan_version >= 1
      BY <2>4, ActiveHolds
    <3>2. CASE held[u] = r
      BY <1>1, <1>3, <2>1, <2>4, <3>1, <3>2 DEF Holds
    <3>3. CASE held[u] # r
      <4>1. store'[held[u]] = store[held[u]]
        BY <1>3, <3>1, <3>3
      <4>2. Holds(u)
        BY DEF XInv
      <4> QED
        BY <1>3, <2>1, <2>4, <3>1, <4>1, <4>2 DEF Holds
    <3> QED
      BY <3>2, <3>3
  <2> QED
    BY <2>2, <2>3, <2>4
<1>6. ASSUME NEW u \in Tasks \ {t}, held'[u] = r
      PROVE  obj'[u].plan_version > 1 \/ run.plan_version > 1
  <2>1. held[u] = r /\ r # NoRun
    BY <1>3, <1>6, OrchestratorConstants DEF OrchestratorConstants
  <2>2. pc[u] # "idle"
    BY <2>1 DEF XInv, Holds
  <2>3. run.plan_version = 1 \/ run.plan_version > 1
    BY <1>2
  <2> QED
    BY <1>3, <2>1, <2>2, <2>3
<1>7. ExclusiveUnlessReplanned'
  <2> SUFFICES ASSUME NEW u \in Tasks, NEW v \in Tasks, u # v,
                      held'[u] = held'[v], held'[u] # NoRun
               PROVE  obj'[u].plan_version > 1 \/ obj'[v].plan_version > 1
    BY DEF ExclusiveUnlessReplanned
  <2>1. CASE u = t
    BY <1>3, <1>6, <2>1
  <2>2. CASE v = t
    BY <1>3, <1>6, <2>2
  <2>3. CASE u # t /\ v # t
    BY <1>3, <2>3 DEF XInv, ExclusiveUnlessReplanned
  <2> QED
    BY <2>1, <2>2, <2>3
<1> QED
  BY <1>4, <1>5, <1>7 DEF XInv

LEMMA RequestAlone ==
  ASSUME XInv, OInv', NEW t \in Tasks, Request(t)
  PROVE  XInv'
<1> SUFFICES ASSUME NEW r \in Runs,
         \/ \E requirement \in Requirements, scenario_type \in Scenarios,
               metadata \in Metadata :
              StartRun(t, r, requirement, scenario_type, metadata)
         \/ \E g \in Gates : Approve(t, r, g) \/ Reject(t, r, g)
         \/ \E requirement \in Requirements : Replan(t, r, requirement)
             PROVE  XInv'
  BY DEF Request, PostRun, PostApproval, PostReplan
<1>1. ASSUME NEW requirement \in Requirements, NEW scenario_type \in Scenarios,
             NEW metadata \in Metadata,
             StartRun(t, r, requirement, scenario_type, metadata)
      PROVE  XInv'
  <2> DEFINE run == NewRun(requirement, scenario_type, metadata)
  <2>1. AtRest(run)
    BY OrchestratorConstants, NewRunAtRest DEF OrchestratorConstants
  <2>2. /\ pc[t] = "idle" /\ store[r] = NoRun
        /\ Save(r, run) /\ EnterDrive(t, r, run)
    BY <1>1 DEF StartRun, CanServe
  <2>3. run.plan_version = 1
    BY DEF NewRun
  <2> HIDE DEF run
  <2>4. \A u \in Tasks : pc[u] # "idle" => held[u] # r
    BY <2>2, ActiveHolds
  <2> QED
    BY <2>1, <2>2, <2>3, <2>4, EnterDriveAlone
<1>2. ASSUME NEW g \in Gates, Waiting(r, g)
      PROVE  /\ g \in Nodes /\ store[r] \in WorkflowRun /\ Answerable(store[r])
             /\ Status(store[r], g) = "WAITING_APPROVAL"
             /\ store[r].plan_version >= 1
  BY <1>2, WaitingGate DEF XInv, OInv, StoreAnswerable, Waiting
<1>3. ASSUME NEW g \in Gates, Approve(t, r, g)
      PROVE  XInv'
  <2> DEFINE run == ApproveGate(store[r], g)
  <2>1. pc[t] = "idle" /\ Waiting(r, g) /\ Save(r, run) /\ EnterDrive(t, r, run)
    BY <1>3 DEF Approve, CanServe
  <2>2. AtRest(run)
    BY <1>2, <2>1, ApproveAtRest
  <2>3. run.plan_version = store[r].plan_version
    BY <1>2, <2>1, ApproveGateEffect DEF Local
  <2> HIDE DEF run
  <2>4. ASSUME run.plan_version = 1, NEW u \in Tasks, pc[u] # "idle", held[u] = r
        PROVE  obj[u].plan_version > 1
    <3>1. ~Ungated(store[held[u]])
      BY <1>2, <2>1, <2>4 DEF Ungated
    <3>2. Holds(u)
      BY DEF XInv
    <3>3. obj[u].plan_version # 1
      BY <2>3, <2>4, <3>1, <3>2 DEF Holds
    <3> QED
      BY <2>4, <3>3, ActiveHolds
  <2> QED
    BY <1>2, <2>1, <2>2, <2>3, <2>4, EnterDriveAlone
<1>4. ASSUME NEW g \in Gates, Reject(t, r, g)
      PROVE  XInv'
  <2> DEFINE run == RejectGate(store[r], g)
  <2>1. Waiting(r, g) /\ Save(r, run)
        /\ UNCHANGED <<pc, held, obj, index, progress, phase, snapshot>>
    BY <1>4 DEF Reject
  <2>2. Local(store[r], run, g) /\ Status(run, g) = "SAFE_STOP"
    BY <1>2, <2>1, RejectGateEffect
  <2> HIDE DEF run
  <2>3. Ungated(run)
    <3>1. \A n \in Nodes \ {g} : Status(run, n) = Status(store[r], n)
      BY <2>2 DEF Local
    <3>2. \A n \in Nodes \ {g} : Status(store[r], n) # "WAITING_APPROVAL"
      BY <1>2, <2>1, OthersStill
    <3> QED
      BY <2>2, <3>1, <3>2 DEF Ungated
  <2>4. run # NoRun /\ run.plan_version >= 1
    BY <1>2, <2>1, <2>2, OrchestratorConstants DEF Local, OrchestratorConstants
  <2>5. \A s \in Runs : Keeps(s)
    BY <2>1, <2>3, <2>4 DEF Keeps, Save, XInv, OInv, IInv, TypeOK
  <2>6. \A u \in Tasks : GoesOn(u) \/ StaysIdle(u)
    BY <2>1 DEF GoesOn, StaysIdle, XInv, Holds
  <2> QED
    BY <2>5, <2>6, NobodyComes
<1>5. ASSUME NEW requirement \in Requirements, Replan(t, r, requirement)
      PROVE  XInv'
  <2> DEFINE run == ReplanRun(store[r], requirement)
  <2>1. pc[t] = "idle" /\ store[r] # NoRun /\ Save(r, run) /\ EnterDrive(t, r, run)
    BY <1>5 DEF Replan, CanServe
  <2>2. store[r] \in WorkflowRun /\ store[r].plan_version >= 1
    BY <2>1 DEF XInv, OInv, IInv, TypeOK
  <2>3. AtRest(run)
    BY <2>2, OrchestratorConstants, ReplanRunAtRest DEF OrchestratorConstants
  <2>4. run.plan_version = store[r].plan_version + 1
    BY <2>2 DEF ReplanRun, NewPlan, WorkflowRun
  <2>5. store[r].plan_version \in Nat
    BY <2>2 DEF WorkflowRun
  <2> HIDE DEF run
  <2>6. run.plan_version > 1 /\ run.plan_version >= 1 /\ run.plan_version # 1
    BY <2>2, <2>4, <2>5
  <2> QED
    BY <2>1, <2>3, <2>6, EnterDriveAlone
<1> QED
  BY <1>1, <1>3, <1>4, <1>5

LEMMA NodeProgressAlone ==
  ASSUME XInv, OInv', NEW t \in Tasks, NEW n \in Nodes, NodeProgress(t, n)
  PROVE  XInv'
<1>1. PICK p, run : NodeMove(t, n, p, run)
  BY NodeProgressMove DEF XInv, OInv
<1>2. TypeOK
  BY DEF XInv, OInv, IInv
<1>3. /\ pc[t] = "gather" /\ pc' = pc /\ held' = held /\ store' = store
      /\ obj'[t] = run
      /\ \A u \in Tasks \ {t} : obj'[u] = obj[u]
  BY <1>1, <1>2 DEF NodeMove, NodeStep, TypeOK
<1>4. run.plan_version = obj[t].plan_version
  BY <1>1 DEF NodeMove, OthersKept, Within
<1>5. GoesOn(t)
  BY <1>3, <1>4 DEF GoesOn
<1> QED
  BY <1>3, <1>5, OneGoesOn

\* The request asks for a decision on a gate and is over.
LEMMA AskApprovalAlone ==
  ASSUME XInv, OInv', NEW t \in Tasks, AskApproval(t)
  PROVE  XInv'
<1> DEFINE run == RequestApproval(obj[t], Scanned(t))
<1>1. pc[t] # "idle" /\ Save(held[t], run) /\ Return(t) /\ Scanned(t) \in Nodes
  BY DEF AskApproval, Scanning, Gates
<1>2. /\ held[t] \in Runs /\ obj[t] \in WorkflowRun
      /\ held[t] # NoRun
      /\ obj[t].plan_version >= 1
  BY <1>1, ActiveHolds
<1>3. run \in WorkflowRun /\ run.plan_version = obj[t].plan_version
  BY <1>1, <1>2, RequestApprovalEffect DEF Local
<1> HIDE DEF run
<1>4. run # NoRun /\ TypeOK
  BY <1>3, OrchestratorConstants DEF OrchestratorConstants, XInv, OInv, IInv
<1>5. /\ \A s \in Runs : store'[s] = IF s = held[t] THEN run ELSE store[s]
      /\ pc'[t] = "idle" /\ held'[t] = NoRun
      /\ \A u \in Tasks \ {t} : pc'[u] = pc[u] /\ held'[u] = held[u] /\ obj'[u] = obj[u]
  BY <1>1, <1>2, <1>4 DEF Return, Save, TypeOK
<1>6. \A s \in Runs : store'[s] # NoRun => store'[s].plan_version >= 1
  BY <1>2, <1>3, <1>5 DEF XInv
<1>7. ASSUME NEW u \in Tasks
      PROVE  Holds(u)'
  <2>1. Ungated(store[held[u]])' = Ungated(store'[held'[u]])
    BY DEF Ungated, Status
  <2>2. Holds(u)
    BY DEF XInv
  <2>3. CASE u = t
    BY <1>5, <2>3 DEF Holds
  <2>4. CASE u # t /\ pc[u] = "idle"
    BY <1>5, <2>2, <2>4 DEF Holds
  <2>5. CASE u # t /\ pc[u] # "idle"
    <3>1. held[u] \in Runs /\ store[held[u]] # NoRun /\ obj[u].plan_version >= 1
      BY <2>5, ActiveHolds
    <3>2. CASE held[u] = held[t]
      <4>1. obj[t].plan_version > 1 \/ obj[u].plan_version > 1
        BY <1>2, <2>5, <3>2 DEF XInv, ExclusiveUnlessReplanned
      <4>2. ~(obj[u].plan_version = 1 /\ run.plan_version = 1)
        BY <1>3, <4>1
      <4>3. store'[held'[u]] = run /\ obj'[u] = obj[u] /\ pc'[u] # "idle"
        BY <1>2, <1>5, <2>5, <3>2
      <4> QED
        BY <1>4, <3>1, <4>2, <4>3 DEF Holds
    <3>3. CASE held[u] # held[t]
      <4>1. store'[held[u]] = store[held[u]]
        BY <1>5, <3>1, <3>3
      <4> QED
        BY <1>5, <2>1, <2>2, <2>5, <3>1, <4>1 DEF Holds
    <3> QED
      BY <3>2, <3>3
  <2> QED
    BY <2>3, <2>4, <2>5
<1>8. ExclusiveUnlessReplanned'
  <2> SUFFICES ASSUME NEW u \in Tasks, NEW v \in Tasks, u # v,
                      held'[u] = held'[v], held'[u] # NoRun
               PROVE  obj'[u].plan_version > 1 \/ obj'[v].plan_version > 1
    BY DEF ExclusiveUnlessReplanned
  <2>1. u # t /\ v # t
    BY <1>5
  <2> QED
    BY <1>5, <2>1 DEF XInv, ExclusiveUnlessReplanned
<1> QED
  BY <1>6, <1>7, <1>8 DEF XInv

\* The steps of _drive that save nothing and go on.
LEMMA MoveAlone ==
  ASSUME XInv, OInv', NEW t \in Tasks,
         PassOver(t) \/ Enqueue(t) \/ ScanDone(t) \/ SettleOk(t) \/ NextPass(t)
  PROVE  XInv'
<1>1. TypeOK
  BY DEF XInv, OInv, IInv
<1>2. /\ UNCHANGED <<store, held, obj>>
      /\ pc[t] # "idle" /\ pc'[t] # "idle"
      /\ \A u \in Tasks \ {t} : pc'[u] = pc[u]
  BY <1>1 DEF PassOver, Enqueue, ScanDone, SettleOk, NextPass, Scanning, Goto, TypeOK
<1> QED
  BY <1>2, OneGoesOn DEF GoesOn

LEMMA ReturnAlone ==
  ASSUME XInv, OInv', NEW t \in Tasks, pc[t] # "idle", Return(t),
         \/ UNCHANGED store
         \/ \E run \in WorkflowRun : /\ Save(held[t], run)
                                     /\ run.plan_version = obj[t].plan_version
                                     /\ Ungated(run)
  PROVE  XInv'
<1>1. TypeOK
  BY DEF XInv, OInv, IInv
<1>2. StaysIdle(t)
  BY <1>1 DEF Return, TypeOK, StaysIdle
<1>3. \A u \in Tasks \ {t} : pc'[u] = pc[u] /\ held'[u] = held[u] /\ obj'[u] = obj[u]
  BY <1>1 DEF Return, TypeOK
<1> QED
  BY <1>2, <1>3, OneGoesOn

LEMMA EndAlone ==
  ASSUME XInv, OInv', NEW t \in Tasks, SettleFailed(t) \/ Complete(t) \/ Blocked(t)
  PROVE  XInv'
<1>1. pc[t] # "idle" /\ pc[t] # "gather" /\ Return(t)
  BY DEF SettleFailed, Complete, Blocked
<1>2. AtRest(obj[t]) /\ obj[t] \in WorkflowRun
  BY <1>1, WorkAtRest DEF XInv, AtRest, InWork
<1>3. ASSUME NEW s \in RunStatus, Save(held[t], EndWith(obj[t], s))
      PROVE  XInv'
  <2> DEFINE run == EndWith(obj[t], s)
  <2>1. run \in WorkflowRun /\ run.plan_version = obj[t].plan_version
    BY <1>2, BookkeepingEffect DEF Untouched
  <2>2. \A n \in Nodes : Status(run, n) = Status(obj[t], n)
    BY <1>2, EndWithEffect
  <2>3. Save(held[t], run)
    BY <1>3
  <2> HIDE DEF run
  <2>4. Ungated(run)
    BY <1>2, <2>2 DEF AtRest, InWork, Ungated
  <2> QED
    BY <1>1, <2>1, <2>3, <2>4, ReturnAlone
<1>4. CASE SettleFailed(t)
  BY <1>3, <1>4 DEF SettleFailed, SettleFailure, RunStatus
<1>5. CASE Complete(t)
  BY <1>3, <1>5 DEF Complete, RunStatus
<1>6. CASE Blocked(t)
  BY <1>1, <1>3, <1>6, ReturnAlone DEF Blocked, RunStatus
<1> QED
  BY <1>4, <1>5, <1>6

LEMMA DriveStepAlone ==
  ASSUME XInv, OInv', NEW t \in Tasks, DriveStep(t)
  PROVE  XInv'
<1>1. TypeOK
  BY DEF XInv, OInv, IInv
<1>2. CASE DriveTop(t)
  <2>1. pc[t] = "top" /\ store' = store
    BY <1>2 DEF DriveTop
  <2>2. CASE Return(t)
    BY <2>1, <2>2, ReturnAlone
  <2>3. CASE Goto(t, "scan") /\ UNCHANGED <<held, obj>>
    <3>1. pc'[t] # "idle" /\ \A u \in Tasks \ {t} : pc'[u] = pc[u]
      BY <1>1, <2>3 DEF Goto, TypeOK
    <3> QED
      BY <2>1, <2>3, <3>1, OneGoesOn DEF GoesOn
  <2> QED
    BY <1>2, <2>2, <2>3 DEF DriveTop
<1>3. CASE Skip(t)
  <2> DEFINE run == SkipNode(obj[t], Scanned(t))
  <2>1. /\ pc[t] = "scan" /\ obj[t] \in WorkflowRun /\ Scanned(t) \in Nodes
    BY <1>3, ReadyNode, ScanWork DEF Skip, XInv, OInv
  <2>2. run.plan_version = obj[t].plan_version
    BY <2>1, SetStatusWithin, StatusNames DEF SkipNode, Within
  <2>3. obj' = [obj EXCEPT ![t] = run] /\ UNCHANGED <<store, pc, held>>
    BY <1>3 DEF Skip
  <2> HIDE DEF run
  <2>4. GoesOn(t) /\ \A u \in Tasks \ {t} : obj'[u] = obj[u]
    BY <1>1, <2>1, <2>2, <2>3 DEF GoesOn, TypeOK
  <2> QED
    BY <2>1, <2>3, <2>4, OneGoesOn
<1>4. CASE GatherDone(t)
  <2>1. /\ pc[t] = "gather" /\ Save(held[t], obj[t])
        /\ pc' = [pc EXCEPT ![t] = "settle"] /\ UNCHANGED <<held, obj>>
    BY <1>4 DEF GatherDone, Goto
  <2>2. GoesOn(t) /\ \A u \in Tasks \ {t} : pc'[u] = pc[u]
    BY <1>1, <2>1 DEF GoesOn, TypeOK
  <2>3. obj[t] \in WorkflowRun /\ Ungated(obj[t])
    BY <2>1 DEF XInv, OInv, AtWork, WorkSound, InWork, Ungated
  <2> QED
    BY <2>1, <2>2, <2>3, OneGoesOn
<1> QED
  BY <1>2, <1>3, <1>4, MoveAlone, AskApprovalAlone, EndAlone DEF DriveStep

LEMMA XInvInit == Init => XInv
<1> SUFFICES ASSUME Init
             PROVE  XInv
  OBVIOUS
<1>1. OInv
  BY OInvInit
<1> QED
  BY <1>1 DEF Init, XInv, Holds, ExclusiveUnlessReplanned

LEMMA XInvNext == XInv /\ [Next]_vars => XInv'
<1> SUFFICES ASSUME XInv, [Next]_vars
             PROVE  XInv'
  OBVIOUS
<1>0. OInv'
  BY OInvNext DEF XInv
<1>1. CASE UNCHANGED vars
  BY <1>0, <1>1 DEF vars, XInv, Holds, ExclusiveUnlessReplanned, Ungated, Status
<1>2. ASSUME NEW t \in Tasks, Request(t)
      PROVE  XInv'
  BY <1>0, <1>2, RequestAlone
<1>3. ASSUME NEW t \in Tasks, DriveStep(t)
      PROVE  XInv'
  BY <1>0, <1>3, DriveStepAlone
<1>4. ASSUME NEW t \in Tasks, NEW n \in Nodes, NodeProgress(t, n)
      PROVE  XInv'
  BY <1>0, <1>4, NodeProgressAlone
<1>5. ASSUME NEW t \in Tasks, NEW n \in Nodes, AgentEscapes(t, n)
      PROVE  XInv'
  <2>1. pc[t] # "idle"
    BY <1>5 DEF AgentEscapes, Answers, InBatch
  <2> QED
    BY <1>0, <1>5, <2>1, ReturnAlone DEF AgentEscapes
<1>6. ASSUME NEW t \in Tasks, SaveFails(t)
      PROVE  XInv'
  <2>1. pc[t] # "idle"
    BY <1>6 DEF SaveFails, SavesNext, Scanning
  <2> QED
    BY <1>0, <1>6, <2>1, ReturnAlone DEF SaveFails
<1>7. CASE Crash
  <2>1. \A u \in Tasks : StaysIdle(u)
    BY <1>7 DEF Crash, StaysIdle
  <2>2. \A r \in Runs : Keeps(r)
    BY <1>7 DEF Crash, Keeps
  <2> QED
    BY <1>0, <2>1, <2>2, NobodyComes
<1> QED
  BY <1>1, <1>2, <1>3, <1>4, <1>5, <1>6, <1>7 DEF Next, TaskStep

LEMMA XInvHolds == Spec => []XInv
BY XInvInit, XInvNext, PTL DEF Spec

\* Two requests are at work on the same run only if a replan came between
\* them: approve finds no gate to decide on while a request is at work on the
\* first plan, for the store shows none.
THEOREM ExclusiveKept == Spec => []ExclusiveUnlessReplanned
<1>1. XInv => ExclusiveUnlessReplanned
  BY DEF XInv
<1> QED
  BY <1>1, XInvHolds, PTL

-----------------------------------------------------------------------------
(***************************************************************************)
(* What a copy of a run accounts for: how its nodes were attempted, and    *)
(* what its counters hold beyond what the nodes show; and with the         *)
(* repository's graph and agents, how its nodes ended, by what was         *)
(* injected.  All speak of the phase of a node too: a retry is counted     *)
(* when the pause begins and the attempt when it ends, and that the        *)
(* fallback agent is called says how the attempts went.                    *)
(***************************************************************************)
RetriesOf(attempts, p) ==
  (IF attempts = 0 THEN 0 ELSE attempts - 1) + (IF p = "sleep" THEN 1 ELSE 0)

Retried(run, batch) == [n \in Nodes |-> RetriesOf(run.nodes[n].attempts, batch[n])]

\* A node that is pending has attempted nothing; one that is awaited has.
Attempted(run, batch) ==
  \A n \in Nodes : /\ Status(run, n) = "PENDING" => run.nodes[n].attempts = 0
                   /\ batch[n] \in Active => run.nodes[n].attempts >= 1

\* What the counters hold that neither the nodes nor their phases show.
Carried(run, batch) ==
  [retries   |-> run.retry_count - SumFunctionOnSet(Retried(run, batch), Nodes),
   rollbacks |-> run.rollback_count - Cardinality(RolledBack(run))]

\* No agent is awaited.
Resting(batch) == \A n \in Nodes : batch[n] \notin Active

LEMMA Finite ==
  /\ IsFiniteSet(Nodes) /\ IsFiniteSet(Mutating) /\ Cardinality(Mutating) \in Nat
  /\ \A run : /\ IsFiniteSet(RolledBack(run)) /\ Cardinality(RolledBack(run)) \in Nat
              /\ Cardinality(RolledBack(run)) <= Cardinality(Mutating)
<1>1. IsFiniteSet(Nodes)
  <2>1. Len(NODES) \in Nat /\ NODES \in [1..Len(NODES) -> Nodes]
    BY GraphType DEF GraphType
  <2>2. \A n \in Nodes : \E i \in 1..Len(NODES) : NODES[i] = n
    BY GraphType DEF GraphType
  <2>3. NODES \in Surjection(1..Len(NODES), Nodes)
    BY <2>1, <2>2 DEF Surjection
  <2>4. ExistsSurjection(1..Len(NODES), Nodes)
    BY <2>3 DEF ExistsSurjection
  <2> QED
    BY <2>1, <2>4, FS_NatSurjection
<1>2. IsFiniteSet(Mutating) /\ Cardinality(Mutating) \in Nat
  BY <1>1, NullFacts, FS_Subset, FS_CardinalityType
<1>3. ASSUME NEW run
      PROVE  /\ IsFiniteSet(RolledBack(run)) /\ Cardinality(RolledBack(run)) \in Nat
             /\ Cardinality(RolledBack(run)) <= Cardinality(Mutating)
  <2>1. RolledBack(run) \subseteq Mutating
    BY DEF RolledBack
  <2> QED
    BY <1>2, <2>1, FS_Subset, FS_CardinalityType
<1> QED
  BY <1>1, <1>2, <1>3

LEMMA RetriedNat ==
  ASSUME NEW run \in WorkflowRun, NEW batch
  PROVE  \A n \in Nodes : Retried(run, batch)[n] \in Nat
BY DEF Retried, RetriesOf, WorkflowRun, NodeExecution

\* Between the batches the attempts and the counts are in the run alone.
LEMMA RestingAttempted ==
  ASSUME NEW run, NEW b, NEW c, Attempted(run, b), Resting(c)
  PROVE  Attempted(run, c)
BY DEF Attempted, Resting

LEMMA RestingCarried ==
  ASSUME NEW run, NEW b, NEW c, Resting(b), Resting(c)
  PROVE  Carried(run, b) = Carried(run, c)
<1>1. Retried(run, b) = Retried(run, c)
  BY DEF Resting, Active, Retried, RetriesOf
<1> QED
  BY <1>1 DEF Carried

LEMMA CarriedOverIs ==
  ASSUME NEW run \in WorkflowRun
  PROVE  CarriedOver(run) = Carried(run, NoPhase)
<1> DEFINE r == [n \in Nodes |-> IF run.nodes[n].attempts = 0 THEN 0
                                 ELSE run.nodes[n].attempts - 1]
<1>1. r = Retried(run, NoPhase)
  BY DEF Retried, RetriesOf, NoPhase, WorkflowRun, NodeExecution
<1>2. Retries(run) = SumFunctionOnSet(Retried(run, NoPhase), Nodes)
  BY <1>1, Zenon DEF Retries
<1> QED
  BY <1>2 DEF CarriedOver, Carried

\* A step that neither attempts anything nor rolls anything back.
LEMMA AttemptedKept ==
  ASSUME NEW run, NEW new, NEW batch, Attempted(run, batch),
         \A n \in Nodes : /\ new.nodes[n].attempts = run.nodes[n].attempts
                          /\ Status(new, n) = "PENDING" => Status(run, n) = "PENDING"
  PROVE  Attempted(new, batch)
BY DEF Attempted

LEMMA CarriedKept ==
  ASSUME NEW run, NEW new, NEW batch, SameCounts(run, new),
         RolledBack(new) = RolledBack(run),
         \A n \in Nodes : new.nodes[n].attempts = run.nodes[n].attempts
  PROVE  Carried(new, batch) = Carried(run, batch)
<1>1. Retried(new, batch) = Retried(run, batch)
  BY DEF Retried
<1> QED
  BY <1>1 DEF Carried, SameCounts

\* A run that starts, and one that is planned again.
LEMMA FreshCarried ==
  ASSUME NEW run \in WorkflowRun, Fresh(run), \A n \in Nodes : run.nodes[n].attempts = 0
  PROVE  Attempted(run, NoPhase) /\ Carried(run, NoPhase) = Counted(run)
<1>1. \A n \in Nodes : Retried(run, NoPhase)[n] = 0
  BY DEF Retried, RetriesOf, NoPhase
<1>2. SumFunctionOnSet(Retried(run, NoPhase), Nodes) = 0
  BY <1>1, Finite, SumZero
<1>3. RolledBack(run) = {}
  BY NullFacts DEF RolledBack, Fresh
<1>4. Cardinality(RolledBack(run)) = 0
  BY <1>3, FS_EmptySet
<1>5. run.retry_count - 0 = run.retry_count /\ run.rollback_count - 0 = run.rollback_count
  BY DEF WorkflowRun
<1>6. \A n \in Nodes : NoPhase[n] \notin Active
  BY DEF NoPhase, Active
<1> QED
  BY <1>2, <1>4, <1>5, <1>6 DEF Attempted, Carried, Counted

LEMMA NewRunCarried ==
  ASSUME NEW requirement \in SUBSET RequirementTraits,
         NEW scenario_type \in ScenarioTypes,
         NEW metadata \in SUBSET MetadataFlags
  PROVE  LET run == NewRun(requirement, scenario_type, metadata)
         IN  /\ Attempted(run, NoPhase)
             /\ Carried(run, NoPhase) = [retries |-> 0, rollbacks |-> 0]
<1> DEFINE run == NewRun(requirement, scenario_type, metadata)
<1>1. Fresh(run)
  BY NewRunFresh
<1>2. /\ run.retry_count = 0 /\ run.rollback_count = 0
      /\ \A n \in Nodes : run.nodes[n].attempts = 0
  BY DEF NewRun, NewExecution
<1> HIDE DEF run
<1>3. Attempted(run, NoPhase) /\ Carried(run, NoPhase) = Counted(run)
  BY <1>1, <1>2, FreshCarried DEF Fresh
<1>4. Counted(run) = [retries |-> 0, rollbacks |-> 0]
  BY <1>2 DEF Counted
<1> QED
  BY <1>3, <1>4 DEF run

LEMMA ReplanRunCarried ==
  ASSUME NEW run \in WorkflowRun, NEW requirement \in SUBSET RequirementTraits
  PROVE  LET new == ReplanRun(run, requirement)
         IN  /\ Attempted(new, NoPhase)
             /\ Carried(new, NoPhase) = Counted(run)
             /\ new.plan_version # run.plan_version
<1> DEFINE new == ReplanRun(run, requirement)
<1>1. Fresh(new)
  BY ReplanRunFresh
<1>2. \A n \in Nodes : new.nodes[n].attempts = 0
  <2>1. Affected = Nodes
    BY RootCovers DEF RootCovers, Affected
  <2> QED
    BY <2>1 DEF ReplanRun, NewPlan, WorkflowRun, NewExecution
<1>3. /\ new.plan_version = run.plan_version + 1 /\ run.plan_version \in Nat
      /\ new.retry_count = run.retry_count /\ new.rollback_count = run.rollback_count
  BY DEF ReplanRun, NewPlan, WorkflowRun
<1> HIDE DEF new
<1>4. Attempted(new, NoPhase) /\ Carried(new, NoPhase) = Counted(new)
  BY <1>1, <1>2, FreshCarried DEF Fresh
<1>5. Counted(new) = Counted(run)
  BY <1>3 DEF Counted
<1> QED
  BY <1>3, <1>4, <1>5 DEF new

\* A step of _execute_node.
LEMMA AttemptedMove ==
  ASSUME NEW run \in WorkflowRun, NEW new \in WorkflowRun, NEW n \in Nodes,
         NEW batch \in [Nodes -> Phases], NEW p, Attempted(run, batch),
         OthersKept(run, new, n),
         p \in Active => Status(new, n) = "RUNNING",
         p \notin Active => Status(new, n) \in Ended,
         Effect(run, new, n, batch[n], p)
  PROVE  /\ Attempted(new, [batch EXCEPT ![n] = p])
         /\ Carried(new, [batch EXCEPT ![n] = p]) = Carried(run, batch)
<1> DEFINE after == [batch EXCEPT ![n] = p]
           f == Retried(run, batch)
           e == Retried(new, after)
           a == run.nodes[n].attempts
           b == new.nodes[n].attempts
<1>1. /\ after[n] = p
      /\ \A m \in Nodes \ {n} : after[m] = batch[m]
      /\ \A m \in Nodes \ {n} : new.nodes[m] = run.nodes[m]
  BY DEF OthersKept, Within
<1>2. f[n] = RetriesOf(a, batch[n]) /\ e[n] = RetriesOf(b, p)
  BY <1>1 DEF Retried
<1>3. /\ \A m \in Nodes : f[m] \in Nat /\ e[m] \in Nat
      /\ \A m \in Nodes \ {n} : f[m] = e[m]
  <2>1. \A m \in Nodes \ {n} : f[m] = e[m]
    BY <1>1 DEF Retried
  <2> QED
    BY <2>1, RetriedNat
<1>4. a \in Nat /\ b \in Nat /\ run.retry_count \in Nat /\ new.retry_count \in Nat
      /\ run.rollback_count \in Nat /\ new.rollback_count \in Nat
  BY DEF WorkflowRun, NodeExecution
<1>5. /\ Status(run, n) = "PENDING" => a = 0
      /\ batch[n] \in Active => a >= 1
  BY DEF Attempted
<1> HIDE DEF after, f, e, a, b
<1>6. /\ new.retry_count + f[n] = run.retry_count + e[n]
      /\ p \in Active => b >= 1
  <2>1. CASE Begins(run, new, n, batch[n], p)
    <3>1. \/ batch[n] = "queued" /\ p = "agent" /\ a = 0 /\ b = 1
          \/ batch[n] = "sleep" /\ p = "agent" /\ b = a + 1 /\ a >= 1
      BY <1>5, <2>1 DEF Begins, Active, a, b
    <3>2. f[n] = e[n] /\ b >= 1
      BY <1>2, <1>4, <3>1 DEF RetriesOf
    <3> QED
      BY <1>4, <2>1, <3>2 DEF Begins, SameBooks, SameCounts
  <2>2. CASE Repeats(run, new, n, batch[n], p)
    <3>1. batch[n] = "agent" /\ p = "sleep" /\ b = a /\ a >= 1
      BY <1>5, <2>2 DEF Repeats, SameAttempts, Active, a, b
    <3>2. e[n] = f[n] + 1
      BY <1>2, <1>4, <3>1 DEF RetriesOf
    <3> QED
      BY <1>3, <1>4, <2>2, <3>1, <3>2 DEF Repeats
  <2>3. CASE \/ Delivers(run, new, n, batch[n], p) \/ Stops(run, new, n, batch[n], p)
             \/ FallsBack(run, new, n, batch[n], p) \/ GivesUp(run, new, n, batch[n], p)
    <3>1. /\ batch[n] \in {"agent", "fallback"} /\ p \in {"done", "fallback"}
          /\ SameAttempts(run, new, n) /\ new.retry_count = run.retry_count
      BY <2>3
      DEF Delivers, Stops, FallsBack, GivesUp, RolledBackIfMutating, SameCounts
    <3>2. b = a /\ a >= 1
      BY <1>5, <3>1 DEF SameAttempts, Active, a, b
    <3>3. f[n] = e[n]
      BY <1>2, <1>4, <3>1, <3>2 DEF RetriesOf
    <3> QED
      BY <1>3, <1>4, <3>1, <3>2, <3>3
  <2> QED
    BY <2>1, <2>2, <2>3 DEF Effect
<1>7. new.retry_count - SumFunctionOnSet(e, Nodes) = run.retry_count - SumFunctionOnSet(f, Nodes)
  <2> DEFINE s == SumFunctionOnSet(f, Nodes)
             u == SumFunctionOnSet(e, Nodes)
  <2>1. u + f[n] = s + e[n]
    BY <1>3, Finite, SumChange
  <2>2. s \in Nat /\ u \in Nat
    BY <1>3, Finite, SumNat
  <2> HIDE DEF s, u
  <2>3. f[n] \in Nat /\ e[n] \in Nat
    BY <1>3
  <2>4. new.retry_count - u = run.retry_count - s
    BY <1>4, <1>6, <2>1, <2>2, <2>3
  <2> QED
    BY <2>4 DEF s, u
<1>8. Status(run, n) \notin {"ROLLED_BACK", "SAFE_STOP"}
      /\ \A m \in Nodes \ {n} : Status(new, m) = Status(run, m)
  BY <1>1 DEF OthersKept, Status
<1>9. \/ /\ RolledBack(new) = RolledBack(run)
         /\ new.rollback_count = run.rollback_count
      \/ /\ RolledBack(new) = RolledBack(run) \cup {n} /\ n \notin RolledBack(run)
         /\ new.rollback_count = run.rollback_count + 1
  <2>1. n \notin Mutating => RolledBack(new) = RolledBack(run)
    BY <1>8, NullFacts DEF RolledBack
  <2>2. n \in Mutating /\ Status(new, n) \in {"ROLLED_BACK", "SAFE_STOP"} =>
          RolledBack(new) = RolledBack(run) \cup {n} /\ n \notin RolledBack(run)
    BY <1>8, NullFacts DEF RolledBack
  <2>3. Status(new, n) \notin {"ROLLED_BACK", "SAFE_STOP"} => RolledBack(new) = RolledBack(run)
    BY <1>8, NullFacts DEF RolledBack
  <2>4. CASE Begins(run, new, n, batch[n], p) \/ Repeats(run, new, n, batch[n], p)
             \/ FallsBack(run, new, n, batch[n], p)
    <3>1. p \in Active /\ new.rollback_count = run.rollback_count
      BY <2>4 DEF Begins, Repeats, FallsBack, SameBooks, SameCounts, Active
    <3> QED
      BY <2>3, <3>1
  <2>5. CASE Delivers(run, new, n, batch[n], p)
    BY <2>3, <2>5 DEF Delivers, SameCounts
  <2>6. CASE Stops(run, new, n, batch[n], p)
    BY <2>1, <2>2, <2>6 DEF Stops, RolledBackIfMutating
  <2>7. CASE GivesUp(run, new, n, batch[n], p)
    BY <2>1, <2>2, <2>7 DEF GivesUp, RolledBackIfMutating, GiveUpStatus
  <2> QED
    BY <2>4, <2>5, <2>6, <2>7 DEF Effect
<1>10. new.rollback_count - Cardinality(RolledBack(new))
         = run.rollback_count - Cardinality(RolledBack(run))
  <2> DEFINE i == Cardinality(RolledBack(run))
             j == Cardinality(RolledBack(new))
  <2>1. i \in Nat /\ j \in Nat
    BY Finite
  <2>2. \/ j = i /\ new.rollback_count = run.rollback_count
        \/ j = i + 1 /\ new.rollback_count = run.rollback_count + 1
    BY <1>9, Finite, FS_AddElement
  <2> HIDE DEF i, j
  <2>3. new.rollback_count - j = run.rollback_count - i
    BY <1>4, <2>1, <2>2
  <2> QED
    BY <2>3 DEF i, j
<1>11. \A m \in Nodes : /\ Status(new, m) = "PENDING" => new.nodes[m].attempts = 0
                        /\ after[m] \in Active => new.nodes[m].attempts >= 1
  <2> TAKE m \in Nodes
  <2>1. CASE m = n
    <3>1. Status(new, n) # "PENDING"
      BY DEF Ended
    <3> QED
      BY <1>1, <1>6, <2>1, <3>1 DEF b
  <2>2. CASE m # n
    BY <1>1, <1>8, <2>2 DEF Attempted
  <2> QED
    BY <2>1, <2>2
<1>12. Attempted(new, after)
  BY <1>11 DEF Attempted
<1>13. Carried(new, after) = Carried(run, batch)
  BY <1>7, <1>10 DEF Carried, e, f
<1> QED
  BY <1>12, <1>13 DEF after

-----------------------------------------------------------------------------
(***************************************************************************)
(* The repository: its graph, and agents that answer only what the agents  *)
(* of orchestration/agents.py can.                                         *)
(***************************************************************************)
Repository ==
  /\ Nodes = SdlcNodes /\ NODES = SDLC_NODES /\ NODE_MAP = SDLC_NODE_MAP
  /\ \A run \in WorkflowRun, n \in Nodes :
       /\ AgentOutcomes(run, n) \subseteq SdlcAgentOutcomes(run, n)
       /\ FallbackOutcomes(run, n) \subseteq SdlcFallbackOutcomes(run, n)

FailuresInjected(run) ==
  \A n \in Nodes : Status(run, n) \in {"FAILED", "ROLLED_BACK"} =>
    {"simulate_permanent_failure", "simulate_fallback_failure"} \subseteq run.metadata

Rejected(run, g) ==
  run.approvals[g].plan = run.plan_version /\ ~run.approvals[g].approved

StopsDue(run) ==
  \A n \in Nodes : Status(run, n) = "SAFE_STOP" =>
    \/ "secret_material" \in run.requirement
    \/ n \in Gates /\ Rejected(run, n)

\* A run recovers from a failure only, and from any that Final comes after.
OutageTold(run) ==
  /\ run.recovered_at => run.first_failure_at # NoNode
  /\ Status(run, Final) = "SUCCESS" /\ run.first_failure_at # NoNode => run.recovered_at

FallbackDue(run, batch) ==
  \A n \in Nodes : batch[n] = "fallback" =>
    n = "implementation" /\ "simulate_permanent_failure" \in run.metadata

Caused(run, batch) ==
  /\ FailuresInjected(run) /\ StopsDue(run) /\ OutageTold(run) /\ FallbackDue(run, batch)

\* Which agents fail, and when.
LEMMA InjectedOutcomes ==
  ASSUME Repository, NEW run \in WorkflowRun, NEW n \in Nodes
  PROVE  /\ "fail" \in AgentOutcomes(run, n) =>
              /\ n = "implementation"
              /\ NODE_MAP[n].fallback_agent /\ NODE_MAP[n].max_attempts = 3
              /\ \/ "simulate_permanent_failure" \in run.metadata
                 \/ run.nodes[n].attempts = 1
         /\ "critical" \in AgentOutcomes(run, n) => "secret_material" \in run.requirement
         /\ FallbackOutcomes(run, n) \cap {"fail", "escape"} # {} =>
              n = "implementation" /\ "simulate_fallback_failure" \in run.metadata
<1>1. /\ AgentOutcomes(run, n) \subseteq SdlcAgentOutcomes(run, n)
      /\ FallbackOutcomes(run, n) \subseteq SdlcFallbackOutcomes(run, n)
  BY DEF Repository
<1>2. CASE n = "implementation"
  <2>1. SdlcAgentOutcomes(run, n) = ImplementationOutcomes(run)
    BY <1>2 DEF SdlcAgentOutcomes
  <2>2. NODE_MAP[n] = SdlcNode("implementation")
    BY <1>2 DEF Repository, SDLC_NODE_MAP
  <2>3. NODE_MAP[n].fallback_agent /\ NODE_MAP[n].max_attempts = 3
    BY <2>2 DEF SdlcNode, NodeWith
  <2>4. /\ "critical" \notin AgentOutcomes(run, n)
        /\ "fail" \in AgentOutcomes(run, n) =>
             \/ "simulate_permanent_failure" \in run.metadata
             \/ run.nodes[n].attempts = 1
    BY <1>1, <1>2, <2>1 DEF ImplementationOutcomes
  <2>5. FallbackOutcomes(run, n) \cap {"fail", "escape"} # {} =>
          "simulate_fallback_failure" \in run.metadata
    BY <1>1 DEF SdlcFallbackOutcomes
  <2> QED
    BY <1>2, <2>3, <2>4, <2>5
<1>3. CASE n # "implementation"
  <2>1. SdlcAgentOutcomes(run, n)
          \in {RequirementOutcomes(run), CodebaseOutcomes, {"ok"}}
    BY <1>3 DEF SdlcAgentOutcomes
  <2>2. /\ "fail" \notin SdlcAgentOutcomes(run, n)
        /\ "critical" \in SdlcAgentOutcomes(run, n) => "secret_material" \in run.requirement
    BY <2>1 DEF RequirementOutcomes, CodebaseOutcomes
  <2>3. FallbackOutcomes(run, n) \cap {"fail", "escape"} = {}
    BY <1>1, <1>3 DEF SdlcFallbackOutcomes
  <2> QED
    BY <1>1, <2>2, <2>3
<1> QED
  BY <1>2, <1>3

LEMMA FinalFacts ==
  /\ Final \in Nodes /\ Final \notin Gates /\ Final # "implementation"
  /\ NODE_MAP[Final].condition = "none"
BY GraphType DEF GraphType, Gates, Final

\* A step of _execute_node.
LEMMA CausedMove ==
  ASSUME Repository, NEW run \in WorkflowRun, NEW new \in WorkflowRun, NEW n \in Nodes,
         NEW batch \in [Nodes -> Phases], NEW p, Sound(run), Caused(run, batch),
         OthersKept(run, new, n),
         p \in Active => Status(new, n) = "RUNNING",
         Effect(run, new, n, batch[n], p)
  PROVE  Caused(new, [batch EXCEPT ![n] = p])
<1> DEFINE after == [batch EXCEPT ![n] = p]
<1>1. /\ after[n] = p
      /\ \A m \in Nodes \ {n} : after[m] = batch[m]
      /\ new.metadata = run.metadata /\ new.requirement = run.requirement
      /\ new.plan_version = run.plan_version /\ new.approvals = run.approvals
      /\ \A m \in Nodes \ {n} : Status(new, m) = Status(run, m)
      /\ Status(run, n) \in {"PENDING", "RUNNING"}
  BY DEF OthersKept, Within, Local
<1>2. batch[n] = "fallback" =>
        n = "implementation" /\ "simulate_permanent_failure" \in run.metadata
  BY DEF Caused, FallbackDue
<1>3. ~(GivesUp(run, new, n, batch[n], p) /\ batch[n] = "agent")
  BY InjectedOutcomes DEF GivesUp
<1>4. GivesUp(run, new, n, batch[n], p) =>
        {"simulate_permanent_failure", "simulate_fallback_failure"} \subseteq run.metadata
  BY <1>2, <1>3, InjectedOutcomes DEF GivesUp
<1>5. Status(new, n) \in {"FAILED", "ROLLED_BACK", "SAFE_STOP", "SUCCESS"} =>
        p \notin Active
  OBVIOUS
<1>6. FailuresInjected(new)
  <2>1. Status(new, n) \in {"FAILED", "ROLLED_BACK"} => GivesUp(run, new, n, batch[n], p)
    BY <1>5 DEF Effect, Begins, Repeats, Delivers, Stops, FallsBack, Active
  <2> QED
    BY <1>1, <1>4, <2>1 DEF Caused, FailuresInjected
<1>7. StopsDue(new)
  <2>1. Status(new, n) = "SAFE_STOP" => "secret_material" \in run.requirement
    BY <1>5, InjectedOutcomes
    DEF Effect, Begins, Repeats, Delivers, Stops, FallsBack, GivesUp, GiveUpStatus, Active
  <2>2. \A m \in Nodes : Rejected(new, m) = Rejected(run, m)
    BY <1>1, Zenon DEF Rejected
  <2> QED
    BY <1>1, <2>1, <2>2 DEF Caused, StopsDue
<1>8. FallbackDue(new, after)
  <2>1. ASSUME p = "fallback"
        PROVE  n = "implementation" /\ "simulate_permanent_failure" \in run.metadata
    <3>1. FallsBack(run, new, n, batch[n], p)
      BY <2>1 DEF Effect, Begins, Repeats, Delivers, Stops, GivesUp
    <3>2. run.nodes[n].attempts \in Nat
      BY DEF WorkflowRun, NodeExecution
    <3> QED
      BY <3>1, <3>2, InjectedOutcomes DEF FallsBack
  <2> QED
    BY <1>1, <2>1 DEF Caused, FallbackDue
<1>9. OutageTold(new)
  <2>1. Status(run, Final) # "SUCCESS"
    <3>1. Status(run, n) \notin Acceptable
      BY <1>1, PhaseFacts
    <3>2. CASE n # Final
      <4>1. Final \in Descendants[n]
        BY <3>2, FinalCovers DEF FinalCovers
      <4>2. Status(run, Final) = "PENDING"
        BY <3>1, <4>1, DownstreamBlocked DEF Sound
      <4> QED
        BY <4>2
    <3>3. CASE n = Final
      BY <1>1, <3>3
    <3> QED
      BY <3>2, <3>3
  <2>2. Status(new, Final) = "SUCCESS" => n = Final /\ p \notin Active
    BY <1>1, <1>5, <2>1, FinalFacts
  <2>3. run.recovered_at => run.first_failure_at # NoNode
    BY DEF Caused, OutageTold
  <2>4. CASE Delivers(run, new, n, batch[n], p)
    <3>1. batch[n] = "fallback" => n # Final
      BY <1>2, FinalFacts
    <3>2. CASE batch[n] = "agent"
      <4>1. /\ new.first_failure_at = run.first_failure_at
            /\ new.recovered_at <=> run.recovered_at \/ run.first_failure_at # NoNode
        BY <2>4, <3>2 DEF Delivers
      <4> QED
        BY <2>3, <4>1, Zenon DEF OutageTold
    <3>3. CASE batch[n] = "fallback"
      <4>1. /\ new.first_failure_at = run.first_failure_at
            /\ new.recovered_at = run.recovered_at
        BY <2>4, <3>3 DEF Delivers
      <4> QED
        BY <2>2, <2>3, <3>1, <3>3, <4>1, Zenon DEF OutageTold
    <3> QED
      BY <2>4, <3>2, <3>3 DEF Delivers
  <2>5. CASE ~Delivers(run, new, n, batch[n], p)
    <3>1. SameOutage(run, new) \/ FailureNoted(run, new, n)
      BY <2>5 DEF Effect, Begins, Repeats, Stops, FallsBack, GivesUp, SameBooks
    <3>2. Status(new, Final) # "SUCCESS"
      <4>1. Status(new, n) = "SUCCESS" => Delivers(run, new, n, batch[n], p)
        BY <1>5
        DEF Effect, Begins, Repeats, Stops, FallsBack, GivesUp, GiveUpStatus, Active
      <4> QED
        BY <2>2, <2>5, <4>1
    <3>3. new.recovered_at = run.recovered_at
      BY <3>1 DEF SameOutage, FailureNoted
    <3>4. run.first_failure_at # NoNode => new.first_failure_at # NoNode
      BY <3>1, NoNodeIsNone DEF SameOutage, FailureNoted, NoNodeIsNone
    <3> QED
      BY <2>3, <3>2, <3>3, <3>4, Zenon DEF OutageTold
  <2> QED
    BY <2>4, <2>5
<1>10. Caused(new, after)
  BY <1>6, <1>7, <1>8, <1>9 DEF Caused
<1> QED
  BY <1>10 DEF after

-----------------------------------------------------------------------------
\* Both accounts together.
Accounted(run, batch) == Attempted(run, batch) /\ (Repository => Caused(run, batch))

LEMMA AccountMove ==
  ASSUME NEW run \in WorkflowRun, NEW new \in WorkflowRun, NEW n \in Nodes,
         NEW batch \in [Nodes -> Phases], NEW p, Sound(run), Accounted(run, batch),
         OthersKept(run, new, n),
         p \in Active => Status(new, n) = "RUNNING",
         p \notin Active => Status(new, n) \in Ended,
         Effect(run, new, n, batch[n], p)
  PROVE  Accounted(new, [batch EXCEPT ![n] = p])
BY AttemptedMove, CausedMove DEF Accounted

LEMMA RestingAccounted ==
  ASSUME NEW run, NEW b, NEW c, Accounted(run, b), Resting(b), Resting(c)
  PROVE  Accounted(run, c)
<1>1. FallbackDue(run, c)
  BY DEF Resting, Active, FallbackDue
<1> QED
  BY <1>1, RestingAttempted DEF Accounted, Caused

\* Whether the run is over changes nothing.
LEMMA BooksAccounted ==
  ASSUME NEW run \in WorkflowRun, NEW new, NEW batch, Accounted(run, batch),
         Untouched(run, new), SameBooks(run, new)
  PROVE  Accounted(new, batch)
<1>1. /\ new \in WorkflowRun /\ \A n \in Nodes : Status(new, n) = Status(run, n)
      /\ new.nodes = run.nodes /\ new.plan_version = run.plan_version
      /\ SameCounts(run, new)
  BY DEF Untouched, Status, SameBooks
<1>2. RolledBack(new) = RolledBack(run)
  BY <1>1, NullFacts DEF RolledBack
<1>3. Attempted(new, batch)
  BY <1>1, <1>2, AttemptedKept DEF Accounted
<1>4. ASSUME Caused(run, batch)
      PROVE  Caused(new, batch)
  <2>1. FailuresInjected(new) /\ FallbackDue(new, batch)
    BY <1>1, <1>4 DEF Caused, FailuresInjected, FallbackDue, Untouched
  <2>2. \A n \in Nodes : Rejected(new, n) = Rejected(run, n)
    BY Zenon DEF Rejected, Untouched
  <2>3. StopsDue(new)
    BY <1>1, <1>4, <2>2 DEF Caused, StopsDue, Untouched
  <2>4. Status(new, Final) = Status(run, Final)
    BY <1>1, FinalFacts
  <2>5. OutageTold(new)
    BY <1>4, <2>4, Zenon DEF Caused, OutageTold, SameBooks, SameOutage
  <2> QED
    BY <2>1, <2>3, <2>5 DEF Caused
<1> QED
  BY <1>3, <1>4 DEF Accounted

\* A node that is skipped, or a gate that is asked or answered for.
LEMMA LocalAccounted ==
  ASSUME NEW run \in WorkflowRun, NEW new, NEW n \in Nodes, NEW batch, Accounted(run, batch),
         Local(run, new, n), SpendsNothing(run, new, n), SameBooks(run, new),
         Status(run, n) \in {"PENDING", "WAITING_APPROVAL"},
         Status(new, n) \in {"SKIPPED", "WAITING_APPROVAL", "SUCCESS", "SAFE_STOP"},
         Status(new, n) \in {"SUCCESS", "SAFE_STOP"} => n \in Gates,
         Status(new, n) = "SAFE_STOP" => Rejected(new, n)
  PROVE  Accounted(new, batch)
<1>1. /\ new \in WorkflowRun /\ \A m \in Nodes \ {n} : Status(new, m) = Status(run, m)
      /\ new.plan_version = run.plan_version
      /\ new.metadata = run.metadata /\ new.requirement = run.requirement
      /\ \A m \in Nodes \ {n} : new.approvals[m] = run.approvals[m]
  BY DEF Local
<1>2. /\ \A m \in Nodes : new.nodes[m].attempts = run.nodes[m].attempts
      /\ SameCounts(run, new)
  BY DEF SpendsNothing, Spends, SameBooks
<1>3. n \in Gates => n \notin Mutating
  BY MutatingAgents DEF MutatingAgents, Agents
<1>4. RolledBack(new) = RolledBack(run)
  <2>1. \A m \in Mutating : Status(new, m) \in {"ROLLED_BACK", "SAFE_STOP"}
                              <=> Status(run, m) \in {"ROLLED_BACK", "SAFE_STOP"}
    BY <1>1, <1>3, NullFacts
  <2> QED
    BY <2>1 DEF RolledBack
<1>5. Attempted(new, batch)
  <2>1. \A m \in Nodes : Status(new, m) = "PENDING" => Status(run, m) = "PENDING"
    BY <1>1
  <2> QED
    BY <1>1, <1>2, <1>4, <2>1, AttemptedKept DEF Accounted
<1>6. ASSUME Caused(run, batch)
      PROVE  Caused(new, batch)
  <2>1. FailuresInjected(new) /\ FallbackDue(new, batch)
    BY <1>1, <1>6 DEF Caused, FailuresInjected, FallbackDue
  <2>2. \A m \in Nodes \ {n} : Rejected(new, m) = Rejected(run, m)
    BY <1>1, Zenon DEF Rejected
  <2>3. StopsDue(new)
    BY <1>1, <1>6, <2>2 DEF Caused, StopsDue
  <2>4. Status(new, Final) = "SUCCESS" => Status(run, Final) = "SUCCESS"
    BY <1>1, FinalFacts
  <2>5. OutageTold(new)
    BY <1>6, <2>4, Zenon DEF Caused, OutageTold, SameBooks, SameOutage
  <2> QED
    BY <2>1, <2>3, <2>5 DEF Caused
<1> QED
  BY <1>5, <1>6 DEF Accounted

\* The gates.
LEMMA GateAccounted ==
  ASSUME NEW run \in WorkflowRun, NEW g \in Gates, NEW batch, Accounted(run, batch),
         Status(run, g) \in {"PENDING", "WAITING_APPROVAL"}
  PROVE  /\ Accounted(RequestApproval(run, g), batch)
         /\ Accounted(ApproveGate(run, g), batch)
         /\ Accounted(RejectGate(run, g), batch)
<1>1. g \in Nodes
  BY NullFacts
<1>2. Accounted(RequestApproval(run, g), batch)
  <2> DEFINE new == RequestApproval(run, g)
  <2>1. Local(run, new, g) /\ Status(new, g) = "WAITING_APPROVAL"
    BY <1>1, RequestApprovalEffect
  <2>2. SpendsNothing(run, new, g) /\ SameBooks(run, new)
    BY <1>1, RequestSpends, RequestBooks
  <2> HIDE DEF new
  <2>3. Accounted(new, batch)
    BY <1>1, <2>1, <2>2, LocalAccounted
  <2> QED
    BY <2>3 DEF new
<1>3. Accounted(ApproveGate(run, g), batch)
  <2> DEFINE new == ApproveGate(run, g)
  <2>1. Local(run, new, g) /\ Status(new, g) = "SUCCESS"
    BY <1>1, ApproveGateEffect
  <2>2. SpendsNothing(run, new, g) /\ SameBooks(run, new)
    BY <1>1, RequestSpends, RequestBooks
  <2> HIDE DEF new
  <2>3. Accounted(new, batch)
    BY <1>1, <2>1, <2>2, LocalAccounted
  <2> QED
    BY <2>3 DEF new
<1>4. Accounted(RejectGate(run, g), batch)
  <2> DEFINE new == RejectGate(run, g)
  <2>1. /\ Local(run, new, g) /\ Status(new, g) = "SAFE_STOP"
        /\ new.approvals[g] = [plan |-> run.plan_version, approved |-> FALSE]
    BY <1>1, RejectGateEffect
  <2>2. SpendsNothing(run, new, g) /\ SameBooks(run, new)
    BY <1>1, RequestSpends, RequestBooks
  <2> HIDE DEF new
  <2>3. Rejected(new, g)
    BY <2>1 DEF Rejected, Local
  <2>4. Accounted(new, batch)
    BY <1>1, <2>1, <2>2, <2>3, LocalAccounted
  <2> QED
    BY <2>4 DEF new
<1> QED
  BY <1>2, <1>3, <1>4

LEMMA FreshCaused ==
  ASSUME NEW run, Fresh(run), run.recovered_at => run.first_failure_at # NoNode
  PROVE  Caused(run, NoPhase)
<1>1. FailuresInjected(run) /\ StopsDue(run) /\ FallbackDue(run, NoPhase)
  BY DEF Fresh, FailuresInjected, StopsDue, FallbackDue, NoPhase
<1>2. Status(run, Final) # "SUCCESS"
  BY FinalFacts DEF Fresh
<1>3. OutageTold(run)
  BY <1>2, Zenon DEF OutageTold
<1> QED
  BY <1>1, <1>3 DEF Caused

LEMMA NewRunAccounted ==
  ASSUME NEW requirement \in SUBSET RequirementTraits,
         NEW scenario_type \in ScenarioTypes,
         NEW metadata \in SUBSET MetadataFlags
  PROVE  Accounted(NewRun(requirement, scenario_type, metadata), NoPhase)
<1> DEFINE run == NewRun(requirement, scenario_type, metadata)
<1>1. Fresh(run) /\ Attempted(run, NoPhase)
  BY NewRunFresh, NewRunCarried
<1>2. ~run.recovered_at
  BY DEF NewRun
<1> HIDE DEF run
<1>3. Caused(run, NoPhase)
  BY <1>1, <1>2, FreshCaused
<1> QED
  BY <1>1, <1>3 DEF Accounted, run

LEMMA ReplanRunAccounted ==
  ASSUME NEW run \in WorkflowRun, NEW batch, Accounted(run, batch),
         NEW requirement \in SUBSET RequirementTraits
  PROVE  Accounted(ReplanRun(run, requirement), NoPhase)
<1> DEFINE new == ReplanRun(run, requirement)
<1>1. Fresh(new) /\ Attempted(new, NoPhase)
  BY ReplanRunFresh, ReplanRunCarried DEF Accounted
<1>2. RU \in Nodes
  BY GraphType DEF GraphType
<1>3. SameBooks(run, new)
  BY <1>2, RequestBooks
<1> HIDE DEF new
<1>4. ASSUME Caused(run, batch)
      PROVE  Caused(new, NoPhase)
  <2>1. new.recovered_at => new.first_failure_at # NoNode
    BY <1>3, <1>4, Zenon DEF Caused, OutageTold, SameBooks, SameOutage
  <2> QED
    BY <1>1, <2>1, FreshCaused
<1>5. Accounted(new, NoPhase)
  BY <1>1, <1>4 DEF Accounted
<1> QED
  BY <1>5 DEF new

-----------------------------------------------------------------------------
(***************************************************************************)
(* The inductive invariant: what is stored is accounted for by the run     *)
(* alone, and no agent is awaited but in the gather.                       *)
(***************************************************************************)
CInv ==
  /\ IInv
  /\ \A r \in Runs : store[r] # NoRun => Accounted(store[r], NoPhase)
  /\ \A t \in Tasks : pc[t] # "idle" =>
       /\ Accounted(obj[t], phase[t])
       /\ pc[t] # "gather" => Resting(phase[t])

SavesAccounted ==
  \/ UNCHANGED store
  \/ \E r \in Runs, run \in WorkflowRun : Save(r, run) /\ Accounted(run, NoPhase)

LEMMA NoPhaseRests == Resting(NoPhase)
BY DEF Resting, NoPhase, Active

LEMMA AccountStep ==
  ASSUME CInv, IInv', NEW t \in Tasks, SavesAccounted, OthersStay(t),
         pc'[t] # "idle" => /\ Accounted(obj'[t], phase'[t])
                            /\ pc'[t] # "gather" => Resting(phase'[t])
  PROVE  CInv'
<1>1. ASSUME NEW r \in Runs, store'[r] # NoRun
      PROVE  Accounted(store'[r], NoPhase)
  <2>1. CASE UNCHANGED store
    BY <1>1, <2>1 DEF CInv
  <2>2. ASSUME NEW s \in Runs, NEW run \in WorkflowRun, Save(s, run), Accounted(run, NoPhase)
        PROVE  Accounted(store'[r], NoPhase)
    <3>1. store'[r] = IF r = s THEN run ELSE store[r]
      BY <2>2 DEF Save, CInv, IInv, TypeOK
    <3> QED
      BY <1>1, <2>2, <3>1 DEF CInv
  <2> QED
    BY <2>1, <2>2 DEF SavesAccounted
<1>2. ASSUME NEW u \in Tasks, pc'[u] # "idle"
      PROVE  Accounted(obj'[u], phase'[u]) /\ (pc'[u] # "gather" => Resting(phase'[u]))
  <2>1. CASE u = t
    BY <1>2, <2>1
  <2>2. CASE u # t
    BY <1>2, <2>2 DEF CInv, OthersStay
  <2> QED
    BY <2>1, <2>2
<1>3. /\ \A r \in Runs : Accounted(store[r], NoPhase)' = Accounted(store'[r], NoPhase)
      /\ \A u \in Tasks : /\ Accounted(obj[u], phase[u])' = Accounted(obj'[u], phase'[u])
                          /\ Resting(phase[u])' = Resting(phase'[u])
  BY DEF Accounted, Resting
<1> QED
  BY <1>1, <1>2, <1>3 DEF CInv

LEMMA ReturnAccounted ==
  ASSUME CInv, IInv', NEW t \in Tasks, Return(t), SavesAccounted
  PROVE  CInv'
<1>1. pc'[t] = "idle" /\ OthersStay(t)
  BY DEF Return, CInv, IInv, TypeOK, OthersStay
<1> QED
  BY <1>1, AccountStep

\* A request begins its work on a run it has just saved.
LEMMA EnterDriveAccounted ==
  ASSUME CInv, IInv', NEW t \in Tasks, NEW r \in Runs, NEW run \in WorkflowRun,
         pc[t] = "idle", Save(r, run), EnterDrive(t, r, run), Accounted(run, NoPhase)
  PROVE  CInv'
<1>1. obj'[t] = run /\ phase'[t] = phase[t] /\ OthersStay(t) /\ SavesAccounted
  BY DEF EnterDrive, CInv, IInv, TypeOK, OthersStay, SavesAccounted
<1>2. \A n \in Nodes : phase[t][n] = "none"
  BY DEF CInv, IInv, TaskSound, BatchSound
<1>3. Resting(phase'[t])
  BY <1>1, <1>2 DEF Resting, Active
<1>4. Accounted(obj'[t], phase'[t])
  BY <1>1, <1>3, NoPhaseRests, RestingAccounted
<1> QED
  BY <1>1, <1>3, <1>4, AccountStep

LEMMA RequestAccounted ==
  ASSUME CInv, IInv', NEW t \in Tasks, Request(t)
  PROVE  CInv'
<1> SUFFICES ASSUME NEW r \in Runs,
         \/ \E requirement \in Requirements, scenario_type \in Scenarios,
               metadata \in Metadata :
              StartRun(t, r, requirement, scenario_type, metadata)
         \/ \E g \in Gates : Approve(t, r, g) \/ Reject(t, r, g)
         \/ \E requirement \in Requirements : Replan(t, r, requirement)
             PROVE  CInv'
  BY DEF Request, PostRun, PostApproval, PostReplan
<1>1. ASSUME NEW requirement \in Requirements, NEW scenario_type \in Scenarios,
             NEW metadata \in Metadata,
             StartRun(t, r, requirement, scenario_type, metadata)
      PROVE  CInv'
  <2> DEFINE run == NewRun(requirement, scenario_type, metadata)
  <2>1. run \in WorkflowRun /\ Accounted(run, NoPhase)
    BY OrchestratorConstants, NewRunFresh, NewRunAccounted DEF OrchestratorConstants, Fresh
  <2>2. pc[t] = "idle" /\ Save(r, run) /\ EnterDrive(t, r, run)
    BY <1>1 DEF StartRun, CanServe
  <2> HIDE DEF run
  <2> QED
    BY <2>1, <2>2, EnterDriveAccounted
<1>2. ASSUME NEW g \in Gates, Waiting(r, g)
      PROVE  /\ store[r] \in WorkflowRun /\ g \in Nodes
             /\ Accounted(ApproveGate(store[r], g), NoPhase)
             /\ Accounted(RejectGate(store[r], g), NoPhase)
  <2>1. g \in Nodes /\ store[r] \in WorkflowRun /\ Status(store[r], g) = "WAITING_APPROVAL"
    BY <1>2, WaitingGate DEF CInv
  <2>2. Accounted(store[r], NoPhase)
    BY <1>2 DEF CInv, Waiting
  <2> QED
    BY <2>1, <2>2, GateAccounted
<1>3. ASSUME NEW g \in Gates, Approve(t, r, g)
      PROVE  CInv'
  <2> DEFINE run == ApproveGate(store[r], g)
  <2>1. Waiting(r, g) /\ pc[t] = "idle" /\ Save(r, run) /\ EnterDrive(t, r, run)
    BY <1>3 DEF Approve, CanServe
  <2>2. run \in WorkflowRun /\ Accounted(run, NoPhase)
    BY <1>2, <2>1, ApproveGateEffect DEF Local
  <2> HIDE DEF run
  <2> QED
    BY <2>1, <2>2, EnterDriveAccounted
<1>4. ASSUME NEW g \in Gates, Reject(t, r, g)
      PROVE  CInv'
  <2> DEFINE run == RejectGate(store[r], g)
  <2>1. Waiting(r, g) /\ pc[t] = "idle" /\ Save(r, run)
        /\ UNCHANGED <<pc, held, obj, index, progress, phase, snapshot>>
    BY <1>4 DEF Reject, CanServe
  <2>2. run \in WorkflowRun /\ Accounted(run, NoPhase)
    BY <1>2, <2>1, RejectGateEffect DEF Local
  <2> HIDE DEF run
  <2>3. SavesAccounted /\ OthersStay(t) /\ pc'[t] = "idle"
    BY <2>1, <2>2 DEF SavesAccounted, OthersStay
  <2> QED
    BY <2>3, AccountStep
<1>5. ASSUME NEW requirement \in Requirements, Replan(t, r, requirement)
      PROVE  CInv'
  <2> DEFINE run == ReplanRun(store[r], requirement)
  <2>1. pc[t] = "idle" /\ store[r] # NoRun /\ Save(r, run) /\ EnterDrive(t, r, run)
    BY <1>5 DEF Replan, CanServe
  <2>2. store[r] \in WorkflowRun /\ Accounted(store[r], NoPhase)
    BY <2>1 DEF CInv, IInv, TypeOK
  <2>3. run \in WorkflowRun /\ Accounted(run, NoPhase)
    BY <2>2, OrchestratorConstants, ReplanRunFresh, ReplanRunAccounted
    DEF OrchestratorConstants, Fresh
  <2> HIDE DEF run
  <2> QED
    BY <2>1, <2>3, EnterDriveAccounted
<1> QED
  BY <1>1, <1>3, <1>4, <1>5

LEMMA NodeProgressAccounted ==
  ASSUME CInv, IInv', NEW t \in Tasks, NEW n \in Nodes, NodeProgress(t, n)
  PROVE  CInv'
<1>1. PICK p, run : NodeMove(t, n, p, run)
  BY NodeProgressMove DEF CInv
<1>2. /\ pc[t] = "gather" /\ NodeStep(t, n, p, run)
      /\ OthersKept(obj[t], run, n)
      /\ p \in Active => Status(run, n) = "RUNNING"
      /\ p \notin Active => Status(run, n) \in Ended
      /\ Effect(obj[t], run, n, phase[t][n], p)
  BY <1>1 DEF NodeMove
<1>3. /\ obj[t] \in WorkflowRun /\ phase[t] \in [Nodes -> Phases] /\ Sound(obj[t])
      /\ Accounted(obj[t], phase[t])
  BY <1>2 DEF CInv, IInv, TypeOK, TaskSound
<1>4. run \in WorkflowRun
  BY <1>2 DEF OthersKept, Within
<1>5. /\ obj'[t] = run /\ phase'[t] = [phase[t] EXCEPT ![n] = p]
      /\ pc'[t] = "gather" /\ OthersStay(t) /\ SavesAccounted
  BY <1>2 DEF NodeStep, CInv, IInv, TypeOK, OthersStay, SavesAccounted
<1>6. Accounted(run, [phase[t] EXCEPT ![n] = p])
  BY <1>2, <1>3, <1>4, AccountMove
<1> QED
  BY <1>5, <1>6, AccountStep

LEMMA DriveStepAccounted ==
  ASSUME CInv, IInv', NEW t \in Tasks, DriveStep(t)
  PROVE  CInv'
<1>1. TypeOK
  BY DEF CInv, IInv
<1>2. /\ obj[t] \in WorkflowRun /\ held[t] \in Runs
      /\ Accounted(obj[t], phase[t]) /\ (pc[t] # "gather" => Resting(phase[t]))
  <2>1. pc[t] # "idle"
    BY DEF DriveStep, DriveTop, PassOver, Skip, AskApproval, Enqueue, ScanDone, GatherDone,
           SettleFailed, SettleOk, Complete, Blocked, NextPass, Scanning
  <2> QED
    BY <1>1, <2>1 DEF CInv, TypeOK
<1>3. pc[t] # "gather" => Accounted(obj[t], NoPhase)
  BY <1>2, NoPhaseRests, RestingAccounted
<1>4. CASE DriveTop(t)
  <2>1. CASE obj[t].status \in Terminal
    BY <1>4, <2>1, ReturnAccounted DEF DriveTop, SavesAccounted
  <2>2. CASE obj[t].status \notin Terminal
    <3>1. /\ phase'[t] = NoPhase /\ obj'[t] = obj[t] /\ pc[t] # "gather"
          /\ OthersStay(t) /\ SavesAccounted
      BY <1>1, <1>4, <2>2 DEF DriveTop, Goto, TypeOK, OthersStay, SavesAccounted
    <3> QED
      BY <1>3, <3>1, NoPhaseRests, AccountStep
  <2> QED
    BY <2>1, <2>2
<1>5. CASE PassOver(t) \/ ScanDone(t) \/ SettleOk(t) \/ NextPass(t)
  <2>1. UNCHANGED <<store, obj, phase>> /\ OthersStay(t) /\ pc[t] # "gather"
    BY <1>1, <1>5
    DEF PassOver, ScanDone, SettleOk, NextPass, Goto, Scanning, TypeOK, OthersStay
  <2> QED
    BY <1>2, <2>1, AccountStep DEF SavesAccounted
<1>6. CASE Skip(t)
  <2> DEFINE n   == Scanned(t)
             run == SkipNode(obj[t], n)
  <2>1. n \in Nodes /\ Status(obj[t], n) = "PENDING"
    BY <1>6, ReadyNode DEF Skip, CInv
  <2>2. /\ Local(obj[t], run, n) /\ Status(run, n) = "SKIPPED"
        /\ SpendsNothing(obj[t], run, n) /\ SameBooks(obj[t], run)
    BY <1>2, <2>1, SetStatusEffect, SetStatusSpends, NodeBooks, StatusNames DEF SkipNode
  <2>3. obj'[t] = run /\ phase' = phase /\ pc' = pc /\ pc[t] # "gather"
        /\ OthersStay(t) /\ SavesAccounted
    BY <1>1, <1>6 DEF Skip, Scanning, TypeOK, OthersStay, SavesAccounted
  <2> HIDE DEF run, n
  <2>4. Accounted(run, phase[t])
    BY <1>2, <2>1, <2>2, LocalAccounted
  <2> QED
    BY <1>2, <2>3, <2>4, AccountStep
<1>7. CASE AskApproval(t)
  <2> DEFINE n   == Scanned(t)
             run == RequestApproval(obj[t], n)
  <2>1. /\ n \in Gates /\ n \in Nodes /\ Status(obj[t], n) = "PENDING" /\ pc[t] # "gather"
        /\ Save(held[t], run) /\ Return(t)
    BY <1>7, ReadyNode DEF AskApproval, Scanning, CInv
  <2>2. run \in WorkflowRun
    BY <1>2, <2>1, RequestApprovalEffect DEF Local
  <2>3. Accounted(run, NoPhase)
    BY <1>2, <1>3, <2>1, GateAccounted
  <2> HIDE DEF run, n
  <2> QED
    BY <1>2, <2>1, <2>2, <2>3, ReturnAccounted DEF SavesAccounted
<1>8. CASE Enqueue(t)
  <2>1. /\ phase'[t] = [phase[t] EXCEPT ![Scanned(t)] = "queued"]
        /\ phase[t] \in [Nodes -> Phases] /\ pc[t] # "gather"
        /\ UNCHANGED <<store, obj>> /\ OthersStay(t)
    BY <1>1, <1>8 DEF Enqueue, Scanning, TypeOK, OthersStay
  <2>2. Resting(phase'[t])
    BY <1>2, <2>1 DEF Resting, Active
  <2>3. Accounted(obj'[t], phase'[t])
    BY <1>2, <2>1, <2>2, RestingAccounted
  <2> QED
    BY <2>1, <2>2, <2>3, AccountStep DEF SavesAccounted
<1>9. CASE GatherDone(t)
  <2>1. Resting(phase[t])
    BY <1>9, PhaseFacts DEF GatherDone, Batch, Resting, Active
  <2>2. Accounted(obj[t], NoPhase)
    BY <1>2, <2>1, NoPhaseRests, RestingAccounted
  <2>3. UNCHANGED <<obj, phase>> /\ OthersStay(t) /\ SavesAccounted
    BY <1>1, <1>2, <1>9, <2>2 DEF GatherDone, Goto, TypeOK, OthersStay, SavesAccounted
  <2> QED
    BY <1>2, <2>1, <2>3, AccountStep
<1>10. ASSUME NEW s \in RunStatus, pc[t] # "gather", Save(held[t], EndWith(obj[t], s)), Return(t)
       PROVE  CInv'
  <2>1. Untouched(obj[t], EndWith(obj[t], s)) /\ SameBooks(obj[t], EndWith(obj[t], s))
    BY <1>2, BookkeepingEffect, StatusBooks
  <2>2. EndWith(obj[t], s) \in WorkflowRun /\ Accounted(EndWith(obj[t], s), NoPhase)
    BY <1>2, <1>3, <1>10, <2>1, BooksAccounted DEF Untouched
  <2> QED
    BY <1>2, <1>10, <2>2, ReturnAccounted DEF SavesAccounted
<1>11. CASE SettleFailed(t)
  BY <1>10, <1>11 DEF SettleFailed, SettleFailure, RunStatus
<1>12. CASE Complete(t)
  BY <1>10, <1>12 DEF Complete, RunStatus
<1>13. CASE Blocked(t)
  BY <1>10, <1>13, ReturnAccounted DEF Blocked, RunStatus, SavesAccounted
<1> QED
  BY <1>4, <1>5, <1>6, <1>7, <1>8, <1>9, <1>11, <1>12, <1>13 DEF DriveStep

LEMMA CInvInit == Init => CInv
<1> SUFFICES ASSUME Init
             PROVE  CInv
  OBVIOUS
<1>1. \A r \in Runs : store[r] = NoRun
  BY DEF Init
<1>2. \A t \in Tasks : pc[t] = "idle"
  BY DEF Init
<1> QED
  BY <1>1, <1>2, IInvInit DEF CInv

LEMMA CInvNext == CInv /\ [Next]_vars => CInv'
<1> SUFFICES ASSUME CInv, [Next]_vars
             PROVE  CInv'
  OBVIOUS
<1>1. IInv'
  BY IInvNext DEF CInv
<1>2. /\ \A r \in Runs : Accounted(store[r], NoPhase)' = Accounted(store'[r], NoPhase)
      /\ \A u \in Tasks : /\ Accounted(obj[u], phase[u])' = Accounted(obj'[u], phase'[u])
                          /\ Resting(phase[u])' = Resting(phase'[u])
  BY DEF Accounted, Resting
<1>3. CASE UNCHANGED vars
  <2>1. UNCHANGED <<store, pc, obj, phase>>
    BY <1>3 DEF vars
  <2> QED
    BY <1>1, <1>2, <2>1 DEF CInv
<1>4. ASSUME NEW t \in Tasks, Request(t)
      PROVE  CInv'
  BY <1>1, <1>4, RequestAccounted
<1>5. ASSUME NEW t \in Tasks, TaskStep(t)
      PROVE  CInv'
  BY <1>1, <1>5, DriveStepAccounted, NodeProgressAccounted DEF TaskStep
<1>6. ASSUME NEW t \in Tasks, NEW n \in Nodes, AgentEscapes(t, n)
      PROVE  CInv'
  BY <1>1, <1>6, ReturnAccounted DEF AgentEscapes, SavesAccounted
<1>7. ASSUME NEW t \in Tasks, SaveFails(t)
      PROVE  CInv'
  BY <1>1, <1>7, ReturnAccounted DEF SaveFails, SavesAccounted
<1>8. CASE Crash
  <2>1. UNCHANGED store /\ \A t \in Tasks : pc'[t] = "idle"
    BY <1>8 DEF Crash
  <2> QED
    BY <1>1, <1>2, <2>1 DEF CInv
<1> QED
  BY <1>3, <1>4, <1>5, <1>6, <1>7, <1>8 DEF Next

LEMMA CInvHolds == Spec => []CInv
BY CInvInit, CInvNext, PTL DEF Spec

-----------------------------------------------------------------------------
(***************************************************************************)
(* Where the counts go, whoever works on the run: a copy carries over what *)
(* the run it was made of did, until it is saved.                          *)
(***************************************************************************)
NoCounts == [retries |-> 0, rollbacks |-> 0]

\* A request makes `new' of what was stored, and is a new plan of it or not.
Follows(run, new) ==
  /\ run = NoRun => CarriedOver(new) = NoCounts
  /\ run # NoRun /\ new.plan_version = run.plan_version => CarriedOver(new) = CarriedOver(run)
  /\ run # NoRun /\ new.plan_version # run.plan_version => CarriedOver(new) = Counted(run)

\* The copy, between its steps, and what is saved of it.
SamePlanCounts(run, batch, new, after) ==
  /\ new.plan_version = run.plan_version
  /\ Carried(new, after) = Carried(run, batch)

OthersGoOn(t) ==
  \A u \in Tasks \ {t} : /\ pc'[u] = pc[u] /\ held'[u] = held[u]
                         /\ obj'[u] = obj[u] /\ phase'[u] = phase[u]

CountsBegin(t) ==
  /\ pc[t] = "idle" /\ Request(t)
  /\ \E r \in Runs, run \in WorkflowRun :
       /\ Save(r, run) /\ Follows(store[r], run)
       /\ pc'[t] # "idle" => held'[t] = r /\ obj'[t] = run /\ Resting(phase'[t])

CountsGoOn(t) ==
  /\ pc[t] # "idle"
  /\ pc'[t] # "idle" =>
       held'[t] = held[t] /\ SamePlanCounts(obj[t], phase[t], obj'[t], phase'[t])
  /\ \/ UNCHANGED store
     \/ \E run \in WorkflowRun :
          Save(held[t], run) /\ SamePlanCounts(obj[t], phase[t], run, NoPhase)

LEMMA BooksCarried ==
  ASSUME NEW run \in WorkflowRun, NEW new, NEW batch, Untouched(run, new), SameBooks(run, new)
  PROVE  SamePlanCounts(run, batch, new, batch)
<1>1. /\ \A n \in Nodes : Status(new, n) = Status(run, n)
      /\ new.nodes = run.nodes /\ new.plan_version = run.plan_version
      /\ SameCounts(run, new)
  BY DEF Untouched, Status, SameBooks
<1>2. RolledBack(new) = RolledBack(run)
  BY <1>1, NullFacts DEF RolledBack
<1> QED
  BY <1>1, <1>2, CarriedKept DEF SamePlanCounts

LEMMA LocalCarried ==
  ASSUME NEW run \in WorkflowRun, NEW new, NEW n \in Nodes, NEW batch,
         Local(run, new, n), SpendsNothing(run, new, n), SameBooks(run, new),
         Status(run, n) \in {"PENDING", "WAITING_APPROVAL"},
         Status(new, n) \in {"SKIPPED", "WAITING_APPROVAL", "SUCCESS", "SAFE_STOP"},
         Status(new, n) = "SAFE_STOP" => n \in Gates
  PROVE  SamePlanCounts(run, batch, new, batch)
<1>1. /\ \A m \in Nodes \ {n} : Status(new, m) = Status(run, m)
      /\ new.plan_version = run.plan_version
  BY DEF Local
<1>2. /\ \A m \in Nodes : new.nodes[m].attempts = run.nodes[m].attempts
      /\ SameCounts(run, new)
  BY DEF SpendsNothing, Spends, SameBooks
<1>3. n \in Gates => n \notin Mutating
  BY MutatingAgents DEF MutatingAgents, Agents
<1>4. RolledBack(new) = RolledBack(run)
  <2>1. \A m \in Mutating : Status(new, m) \in {"ROLLED_BACK", "SAFE_STOP"}
                              <=> Status(run, m) \in {"ROLLED_BACK", "SAFE_STOP"}
    BY <1>1, <1>3, NullFacts
  <2> QED
    BY <2>1 DEF RolledBack
<1> QED
  BY <1>1, <1>2, <1>4, CarriedKept DEF SamePlanCounts

LEMMA GateCarried ==
  ASSUME NEW run \in WorkflowRun, NEW g \in Gates, NEW batch,
         Status(run, g) \in {"PENDING", "WAITING_APPROVAL"}
  PROVE  /\ SamePlanCounts(run, batch, RequestApproval(run, g), batch)
         /\ SamePlanCounts(run, batch, ApproveGate(run, g), batch)
         /\ SamePlanCounts(run, batch, RejectGate(run, g), batch)
<1>1. g \in Nodes
  BY NullFacts
<1>2. /\ Local(run, RequestApproval(run, g), g)
      /\ Status(RequestApproval(run, g), g) = "WAITING_APPROVAL"
      /\ Local(run, ApproveGate(run, g), g) /\ Status(ApproveGate(run, g), g) = "SUCCESS"
      /\ Local(run, RejectGate(run, g), g) /\ Status(RejectGate(run, g), g) = "SAFE_STOP"
  BY <1>1, RequestApprovalEffect, ApproveGateEffect, RejectGateEffect
<1> QED
  BY <1>1, <1>2, RequestSpends, RequestBooks, LocalCarried

\* What is saved between the batches carries over what the copy does.
LEMMA RestingSaved ==
  ASSUME NEW run \in WorkflowRun, NEW new, NEW batch,
         Resting(batch), SamePlanCounts(run, batch, new, batch)
  PROVE  SamePlanCounts(run, batch, new, NoPhase)
BY NoPhaseRests, RestingCarried DEF SamePlanCounts

LEMMA FollowsPlan ==
  ASSUME NEW run \in WorkflowRun, NEW new \in WorkflowRun, run # NoRun,
         SamePlanCounts(run, NoPhase, new, NoPhase)
  PROVE  Follows(run, new)
BY CarriedOverIs DEF Follows, SamePlanCounts

LEMMA ReturnCounts ==
  ASSUME CInv, NEW t \in Tasks, pc[t] # "idle", Return(t),
         \/ UNCHANGED store
         \/ \E run \in WorkflowRun :
              Save(held[t], run) /\ SamePlanCounts(obj[t], phase[t], run, NoPhase)
  PROVE  OthersGoOn(t) /\ CountsGoOn(t)
BY DEF Return, CInv, IInv, TypeOK, OthersGoOn, CountsGoOn

LEMMA EnterDriveCounts ==
  ASSUME CInv, NEW t \in Tasks, NEW r \in Runs, NEW run \in WorkflowRun, pc[t] = "idle",
         Request(t), Save(r, run), EnterDrive(t, r, run), Follows(store[r], run)
  PROVE  OthersGoOn(t) /\ CountsBegin(t)
<1>1. obj'[t] = run /\ held'[t] = r /\ phase'[t] = phase[t] /\ OthersGoOn(t)
  BY DEF EnterDrive, CInv, IInv, TypeOK, OthersGoOn
<1>2. \A n \in Nodes : phase[t][n] = "none"
  BY DEF CInv, IInv, TaskSound, BatchSound
<1>3. Resting(phase'[t])
  BY <1>1, <1>2 DEF Resting, Active
<1> QED
  BY <1>1, <1>3 DEF CountsBegin

LEMMA RequestCounts ==
  ASSUME CInv, NEW t \in Tasks, Request(t)
  PROVE  OthersGoOn(t) /\ CountsBegin(t)
<1> DEFINE Goal == OthersGoOn(t) /\ CountsBegin(t)
<1> SUFFICES ASSUME NEW r \in Runs,
         \/ \E requirement \in Requirements, scenario_type \in Scenarios,
               metadata \in Metadata :
              StartRun(t, r, requirement, scenario_type, metadata)
         \/ \E g \in Gates : Approve(t, r, g) \/ Reject(t, r, g)
         \/ \E requirement \in Requirements : Replan(t, r, requirement)
             PROVE  Goal
  BY DEF Request, PostRun, PostApproval, PostReplan
<1>1. ASSUME NEW requirement \in Requirements, NEW scenario_type \in Scenarios,
             NEW metadata \in Metadata,
             StartRun(t, r, requirement, scenario_type, metadata)
      PROVE  Goal
  <2> DEFINE run == NewRun(requirement, scenario_type, metadata)
  <2>1. run \in WorkflowRun /\ Carried(run, NoPhase) = NoCounts
    BY OrchestratorConstants, NewRunFresh, NewRunCarried
    DEF OrchestratorConstants, Fresh, NoCounts
  <2>2. pc[t] = "idle" /\ store[r] = NoRun /\ Save(r, run) /\ EnterDrive(t, r, run)
    BY <1>1 DEF StartRun, CanServe
  <2> HIDE DEF run
  <2>3. Follows(store[r], run)
    BY <2>1, <2>2, CarriedOverIs DEF Follows
  <2> QED
    BY <2>1, <2>2, <2>3, EnterDriveCounts
<1>2. ASSUME NEW g \in Gates, Waiting(r, g)
      PROVE  /\ g \in Nodes /\ store[r] \in WorkflowRun /\ store[r] # NoRun
             /\ SamePlanCounts(store[r], NoPhase, ApproveGate(store[r], g), NoPhase)
             /\ SamePlanCounts(store[r], NoPhase, RejectGate(store[r], g), NoPhase)
  <2>1. /\ g \in Nodes /\ store[r] \in WorkflowRun /\ store[r] # NoRun
        /\ Status(store[r], g) = "WAITING_APPROVAL"
    BY <1>2, WaitingGate DEF CInv, Waiting
  <2> QED
    BY <2>1, GateCarried
<1>3. ASSUME NEW g \in Gates, Approve(t, r, g)
      PROVE  Goal
  <2> DEFINE run == ApproveGate(store[r], g)
  <2>1. Waiting(r, g) /\ pc[t] = "idle" /\ Save(r, run) /\ EnterDrive(t, r, run)
    BY <1>3 DEF Approve, CanServe
  <2>2. run \in WorkflowRun
    BY <1>2, <2>1, ApproveGateEffect DEF Local
  <2>3. Follows(store[r], run)
    BY <1>2, <2>1, <2>2, FollowsPlan
  <2> HIDE DEF run
  <2> QED
    BY <2>1, <2>2, <2>3, EnterDriveCounts
<1>4. ASSUME NEW g \in Gates, Reject(t, r, g)
      PROVE  Goal
  <2> DEFINE run == RejectGate(store[r], g)
  <2>1. Waiting(r, g) /\ pc[t] = "idle" /\ Save(r, run)
        /\ UNCHANGED <<pc, held, obj, index, progress, phase, snapshot>>
    BY <1>4 DEF Reject, CanServe
  <2>2. run \in WorkflowRun
    BY <1>2, <2>1, RejectGateEffect DEF Local
  <2>3. Follows(store[r], run)
    BY <1>2, <2>1, <2>2, FollowsPlan
  <2> HIDE DEF run
  <2> QED
    BY <2>1, <2>2, <2>3 DEF CountsBegin, OthersGoOn
<1>5. ASSUME NEW requirement \in Requirements, Replan(t, r, requirement)
      PROVE  Goal
  <2> DEFINE run == ReplanRun(store[r], requirement)
  <2>1. pc[t] = "idle" /\ store[r] # NoRun /\ Save(r, run) /\ EnterDrive(t, r, run)
    BY <1>5 DEF Replan, CanServe
  <2>2. store[r] \in WorkflowRun
    BY <2>1 DEF CInv, IInv, TypeOK
  <2>3. /\ run \in WorkflowRun /\ Carried(run, NoPhase) = Counted(store[r])
        /\ run.plan_version # store[r].plan_version
    BY <2>2, OrchestratorConstants, ReplanRunFresh, ReplanRunCarried
    DEF OrchestratorConstants, Fresh
  <2> HIDE DEF run
  <2>4. Follows(store[r], run)
    BY <2>1, <2>3, CarriedOverIs DEF Follows
  <2> QED
    BY <2>1, <2>3, <2>4, EnterDriveCounts
<1> QED
  BY <1>1, <1>3, <1>4, <1>5

LEMMA NodeProgressCounts ==
  ASSUME CInv, NEW t \in Tasks, NEW n \in Nodes, NodeProgress(t, n)
  PROVE  OthersGoOn(t) /\ CountsGoOn(t)
<1>1. PICK p, run : NodeMove(t, n, p, run)
  BY NodeProgressMove DEF CInv
<1>2. /\ pc[t] = "gather" /\ NodeStep(t, n, p, run)
      /\ OthersKept(obj[t], run, n)
      /\ p \in Active => Status(run, n) = "RUNNING"
      /\ p \notin Active => Status(run, n) \in Ended
      /\ Effect(obj[t], run, n, phase[t][n], p)
  BY <1>1 DEF NodeMove
<1>3. /\ obj[t] \in WorkflowRun /\ phase[t] \in [Nodes -> Phases]
      /\ Attempted(obj[t], phase[t])
  BY <1>2 DEF CInv, IInv, TypeOK, Accounted
<1>4. run \in WorkflowRun /\ run.plan_version = obj[t].plan_version
  BY <1>2 DEF OthersKept, Within
<1>5. /\ obj'[t] = run /\ phase'[t] = [phase[t] EXCEPT ![n] = p]
      /\ pc[t] # "idle" /\ held'[t] = held[t] /\ UNCHANGED store /\ OthersGoOn(t)
  BY <1>2 DEF NodeStep, CInv, IInv, TypeOK, OthersGoOn
<1>6. Carried(run, [phase[t] EXCEPT ![n] = p]) = Carried(obj[t], phase[t])
  BY <1>2, <1>3, <1>4, AttemptedMove
<1> QED
  BY <1>4, <1>5, <1>6 DEF CountsGoOn, SamePlanCounts

LEMMA DriveStepCounts ==
  ASSUME CInv, NEW t \in Tasks, DriveStep(t)
  PROVE  OthersGoOn(t) /\ CountsGoOn(t)
<1> DEFINE Goal == OthersGoOn(t) /\ CountsGoOn(t)
<1>1. TypeOK /\ IInv
  BY DEF CInv, IInv
<1>2. /\ pc[t] # "idle" /\ obj[t] \in WorkflowRun /\ held[t] \in Runs
      /\ (pc[t] # "gather" => Resting(phase[t]))
  <2>1. pc[t] # "idle"
    BY DEF DriveStep, DriveTop, PassOver, Skip, AskApproval, Enqueue, ScanDone, GatherDone,
           SettleFailed, SettleOk, Complete, Blocked, NextPass, Scanning
  <2> QED
    BY <1>1, <2>1 DEF CInv, TypeOK
<1>3. SamePlanCounts(obj[t], phase[t], obj[t], phase[t])
  BY DEF SamePlanCounts
<1>4. CASE DriveTop(t)
  <2>1. CASE obj[t].status \in Terminal
    BY <1>2, <1>4, <2>1, ReturnCounts DEF DriveTop
  <2>2. CASE obj[t].status \notin Terminal
    <3>1. /\ phase'[t] = NoPhase /\ obj'[t] = obj[t] /\ pc[t] # "gather"
          /\ held'[t] = held[t] /\ UNCHANGED store /\ OthersGoOn(t)
      BY <1>1, <1>4, <2>2 DEF DriveTop, Goto, TypeOK, OthersGoOn
    <3>2. SamePlanCounts(obj[t], phase[t], obj[t], NoPhase)
      BY <1>2, <1>3, <3>1, RestingSaved
    <3> QED
      BY <1>2, <3>1, <3>2 DEF CountsGoOn
  <2> QED
    BY <2>1, <2>2
<1>5. CASE PassOver(t) \/ ScanDone(t) \/ SettleOk(t) \/ NextPass(t)
  <2>1. UNCHANGED <<store, held, obj, phase>> /\ OthersGoOn(t)
    BY <1>1, <1>5
    DEF PassOver, ScanDone, SettleOk, NextPass, Goto, Scanning, TypeOK, OthersGoOn
  <2> QED
    BY <1>2, <1>3, <2>1 DEF CountsGoOn
<1>6. CASE Skip(t)
  <2> DEFINE n   == Scanned(t)
             run == SkipNode(obj[t], n)
  <2>1. n \in Nodes /\ Status(obj[t], n) = "PENDING"
    BY <1>1, <1>6, ReadyNode DEF Skip
  <2>2. /\ Local(obj[t], run, n) /\ Status(run, n) = "SKIPPED"
        /\ SpendsNothing(obj[t], run, n) /\ SameBooks(obj[t], run)
    BY <1>2, <2>1, SetStatusEffect, SetStatusSpends, NodeBooks, StatusNames DEF SkipNode
  <2>3. obj'[t] = run /\ UNCHANGED <<store, pc, held, phase>> /\ OthersGoOn(t)
    BY <1>1, <1>6 DEF Skip, Scanning, TypeOK, OthersGoOn
  <2> HIDE DEF run, n
  <2>4. SamePlanCounts(obj[t], phase[t], run, phase[t])
    BY <1>2, <2>1, <2>2, LocalCarried
  <2> QED
    BY <1>2, <2>3, <2>4 DEF CountsGoOn
<1>7. CASE AskApproval(t)
  <2> DEFINE n   == Scanned(t)
             run == RequestApproval(obj[t], n)
  <2>1. /\ n \in Gates /\ n \in Nodes /\ Status(obj[t], n) = "PENDING" /\ pc[t] # "gather"
        /\ Save(held[t], run) /\ Return(t)
    BY <1>1, <1>7, ReadyNode DEF AskApproval, Scanning
  <2>2. run \in WorkflowRun
    BY <1>2, <2>1, RequestApprovalEffect DEF Local
  <2>3. SamePlanCounts(obj[t], phase[t], run, NoPhase)
    BY <1>2, <2>1, GateCarried, RestingSaved
  <2> HIDE DEF run, n
  <2> QED
    BY <1>2, <2>1, <2>2, <2>3, ReturnCounts
<1>8. CASE Enqueue(t)
  <2>1. /\ phase'[t] = [phase[t] EXCEPT ![Scanned(t)] = "queued"]
        /\ phase[t] \in [Nodes -> Phases] /\ pc[t] # "gather"
        /\ UNCHANGED <<store, held, obj>> /\ OthersGoOn(t)
    BY <1>1, <1>8 DEF Enqueue, Scanning, TypeOK, OthersGoOn
  <2>2. Resting(phase'[t])
    BY <1>2, <2>1 DEF Resting, Active
  <2>3. Carried(obj[t], phase'[t]) = Carried(obj[t], phase[t])
    BY <1>2, <2>1, <2>2, RestingCarried
  <2> QED
    BY <1>2, <2>1, <2>3 DEF CountsGoOn, SamePlanCounts
<1>9. CASE GatherDone(t)
  <2>1. Resting(phase[t])
    BY <1>9, PhaseFacts DEF GatherDone, Batch, Resting, Active
  <2>2. /\ UNCHANGED <<held, obj, phase>> /\ Save(held[t], obj[t]) /\ OthersGoOn(t)
    BY <1>1, <1>9 DEF GatherDone, Goto, TypeOK, OthersGoOn
  <2>3. SamePlanCounts(obj[t], phase[t], obj[t], NoPhase)
    BY <1>2, <1>3, <2>1, RestingSaved
  <2> QED
    BY <1>2, <1>3, <2>2, <2>3 DEF CountsGoOn
<1>10. ASSUME NEW s \in RunStatus, pc[t] # "gather", Save(held[t], EndWith(obj[t], s)), Return(t)
       PROVE  Goal
  <2>1. Untouched(obj[t], EndWith(obj[t], s)) /\ SameBooks(obj[t], EndWith(obj[t], s))
    BY <1>2, BookkeepingEffect, StatusBooks
  <2>2. SamePlanCounts(obj[t], phase[t], EndWith(obj[t], s), NoPhase)
    BY <1>2, <1>10, <2>1, BooksCarried, RestingSaved
  <2>3. EndWith(obj[t], s) \in WorkflowRun
    BY <2>1 DEF Untouched
  <2> QED
    BY <1>2, <1>10, <2>2, <2>3, ReturnCounts
<1>11. CASE SettleFailed(t)
  BY <1>10, <1>11 DEF SettleFailed, SettleFailure, RunStatus
<1>12. CASE Complete(t)
  BY <1>10, <1>12 DEF Complete, RunStatus
<1>13. CASE Blocked(t)
  BY <1>2, <1>10, <1>13, ReturnCounts DEF Blocked, RunStatus
<1> QED
  BY <1>4, <1>5, <1>6, <1>7, <1>8, <1>9, <1>11, <1>12, <1>13 DEF DriveStep

\* A step that stores nothing and keeps every copy that is left.
NothingCounts ==
  /\ UNCHANGED store
  /\ \A u \in Tasks : \/ pc'[u] = "idle"
                      \/ /\ pc'[u] = pc[u] /\ held'[u] = held[u]
                         /\ obj'[u] = obj[u] /\ phase'[u] = phase[u]

LEMMA CountsStep ==
  ASSUME CInv, [Next]_vars
  PROVE  \/ NothingCounts
         \/ \E t \in Tasks : OthersGoOn(t) /\ (CountsBegin(t) \/ CountsGoOn(t))
<1>1. CASE UNCHANGED vars
  BY <1>1 DEF vars, NothingCounts
<1>2. ASSUME NEW t \in Tasks, Request(t)
      PROVE  OthersGoOn(t) /\ CountsBegin(t)
  BY <1>2, RequestCounts
<1>3. ASSUME NEW t \in Tasks, TaskStep(t)
      PROVE  OthersGoOn(t) /\ CountsGoOn(t)
  BY <1>3, DriveStepCounts, NodeProgressCounts DEF TaskStep
<1>4. ASSUME NEW t \in Tasks, SaveFails(t) \/ \E n \in Nodes : AgentEscapes(t, n)
      PROVE  OthersGoOn(t) /\ CountsGoOn(t)
  <2>1. pc[t] # "idle" /\ Return(t) /\ UNCHANGED store
    BY <1>4 DEF SaveFails, SavesNext, Scanning, AgentEscapes, Answers, InBatch
  <2> QED
    BY <2>1, ReturnCounts
<1>5. CASE Crash
  BY <1>5 DEF Crash, NothingCounts
<1> QED
  BY <1>1, <1>2, <1>3, <1>4, <1>5 DEF Next

\* With any number of requests, saves that fail and crashes, no count is lost
\* or made twice in any copy: what the counters hold beyond what the nodes show
\* stays as it is while a request works on a copy and in what it saves; a run
\* starts with nothing beyond, an answer changes nothing, and a new plan
\* carries over exactly what was counted in the run it was made of.
THEOREM CountsCarried ==
  Spec => [][/\ \A t \in Tasks : pc[t] # "idle" /\ pc'[t] # "idle" =>
                  /\ held'[t] = held[t]
                  /\ Carried(obj'[t], phase'[t]) = Carried(obj[t], phase[t])
             /\ \A t \in Tasks : pc[t] = "idle" /\ pc'[t] # "idle" =>
                  obj'[t] = store'[held'[t]]
             /\ \A r \in Runs : store'[r] # store[r] =>
                  \/ Follows(store[r], store'[r]) /\ \E t \in Tasks : Request(t)
                  \/ \E t \in Tasks :
                       /\ pc[t] # "idle" /\ held[t] = r
                       /\ store'[r].plan_version = obj[t].plan_version
                       /\ CarriedOver(store'[r]) = Carried(obj[t], phase[t])
            ]_vars
<1> DEFINE Going == \A t \in Tasks : pc[t] # "idle" /\ pc'[t] # "idle" =>
                      /\ held'[t] = held[t]
                      /\ Carried(obj'[t], phase'[t]) = Carried(obj[t], phase[t])
           Coming == \A t \in Tasks : pc[t] = "idle" /\ pc'[t] # "idle" =>
                       obj'[t] = store'[held'[t]]
           Saving(r) ==
             \/ Follows(store[r], store'[r]) /\ \E t \in Tasks : Request(t)
             \/ \E t \in Tasks :
                  /\ pc[t] # "idle" /\ held[t] = r
                  /\ store'[r].plan_version = obj[t].plan_version
                  /\ CarriedOver(store'[r]) = Carried(obj[t], phase[t])
           Saved == \A r \in Runs : store'[r] # store[r] => Saving(r)
<1>1. ASSUME CInv, [Next]_vars
      PROVE  Going /\ Coming /\ Saved
  <2>1. ASSUME NEW r \in Runs, NEW run \in WorkflowRun, Save(r, run)
        PROVE  store'[r] = run /\ \A s \in Runs \ {r} : store'[s] = store[s]
    BY <1>1, <2>1 DEF Save, CInv, IInv, TypeOK
  <2>2. CASE NothingCounts
    BY <2>2 DEF NothingCounts
  <2>3. ASSUME NEW t \in Tasks, OthersGoOn(t), CountsBegin(t)
        PROVE  Going /\ Coming /\ Saved
    <3>1. Going
      BY <2>3 DEF OthersGoOn, CountsBegin
    <3>2. Coming
      BY <2>1, <2>3 DEF OthersGoOn, CountsBegin
    <3>3. Saved
      BY <2>1, <2>3 DEF CountsBegin
    <3> QED
      BY <3>1, <3>2, <3>3
  <2>4. ASSUME NEW t \in Tasks, OthersGoOn(t), CountsGoOn(t)
        PROVE  Going /\ Coming /\ Saved
    <3>1. Going
      BY <2>4 DEF OthersGoOn, CountsGoOn, SamePlanCounts
    <3>2. Coming
      BY <2>4 DEF OthersGoOn, CountsGoOn
    <3>3. held[t] \in Runs
      BY <1>1, <2>4 DEF CountsGoOn, CInv, IInv, TypeOK
    <3>4. Saved
      BY <2>1, <2>4, <3>3, CarriedOverIs DEF CountsGoOn, SamePlanCounts
    <3> QED
      BY <3>1, <3>2, <3>4
  <2> QED
    BY <1>1, <2>2, <2>3, <2>4, CountsStep
<1> QED
  BY <1>1, CInvHolds, PTL DEF Spec

-----------------------------------------------------------------------------
\* The agents of the repository fail a run only when its metadata has both the
\* agent and the fallback of implementation fail; _drive stops it only for a
\* secret or a rejected gate; and a run that completes has recovered.
THEOREM InjectedEnds ==
  ASSUME Repository
  PROVE  Spec => []EndsOnlyAsInjected
<1>1. CInv /\ OInv => EndsOnlyAsInjected
  <2> SUFFICES ASSUME CInv, OInv, NEW run \in Stored
               PROVE  /\ run.status = "FAILED" =>
                           {"simulate_permanent_failure", "simulate_fallback_failure"}
                             \subseteq run.metadata
                      /\ run.status = "SAFE_STOP" =>
                           \/ "secret_material" \in run.requirement
                           \/ \E g \in Gates : /\ run.approvals[g].plan = run.plan_version
                                               /\ ~run.approvals[g].approved
                      /\ run.status = "COMPLETED" =>
                           (run.recovered_at <=> run.first_failure_at # NoNode)
    BY DEF EndsOnlyAsInjected
  <2>1. PICK r \in Runs : run = store[r] /\ store[r] # NoRun
    BY DEF Stored
  <2>2. Caused(run, NoPhase) /\ Sound(run) /\ EndExplained(run)
    BY <2>1 DEF CInv, Accounted, IInv, StoreSound, OInv, StoreAnswerable, Answerable
  <2>3. ASSUME run.status = "FAILED"
        PROVE  {"simulate_permanent_failure", "simulate_fallback_failure"}
                 \subseteq run.metadata
    BY <2>2, <2>3 DEF EndExplained, SomeNode, Caused, FailuresInjected
  <2>4. ASSUME run.status = "SAFE_STOP"
        PROVE  \/ "secret_material" \in run.requirement
               \/ \E g \in Gates : Rejected(run, g)
    BY <2>2, <2>4 DEF EndExplained, SomeNode, Caused, StopsDue
  <2>5. ASSUME run.status = "COMPLETED"
        PROVE  run.recovered_at <=> run.first_failure_at # NoNode
    <3>1. Status(run, Final) \in Acceptable
      BY <2>2, <2>5, FinalFacts DEF EndExplained
    <3>2. ConditionHolds(run, Final)
      BY FinalFacts DEF ConditionHolds
    <3>3. Status(run, Final) = "SUCCESS"
      BY <2>2, <3>1, <3>2, FinalFacts DEF Sound, SkipsDue, Acceptable
    <3> QED
      BY <2>2, <3>3, Zenon DEF Caused, OutageTold
  <2> QED
    BY <2>3, <2>4, <2>5, Zenon DEF Rejected
<1> QED
  BY <1>1, CInvHolds, OInvHolds, PTL

-----------------------------------------------------------------------------
\* What comes before a node that has started is done, and an agent that is
\* done, its condition holding, has left its artifact.
LEMMA UpstreamDone ==
  ASSUME NEW run, Sound(run), NEW n \in Nodes, Status(run, n) # "PENDING"
  PROVE  \A d \in NODE_MAP[n].dependencies :
           d \in Nodes /\ Status(run, d) # "PENDING" /\ Status(run, d) \in Acceptable
BY NodeFacts DEF Sound, OrderRespected, Started, DependenciesSatisfied, Acceptable

LEMMA DeliveredCurrent ==
  ASSUME NEW run, Sound(run), NEW n \in Nodes, Status(run, n) \in Acceptable,
         ~NODE_MAP[n].approval_gate, ConditionHolds(run, n)
  PROVE  run.artifacts[n].plan = run.plan_version
<1>1. Status(run, n) = "SUCCESS" /\ n \in Agents
  BY DEF Sound, SkipsDue, Acceptable, Agents, Gates
<1> QED
  BY <1>1 DEF Sound, ArtifactsMatch

\* The agents that others read from, all but one unconditional.
LEMMA ReadAgents ==
  ASSUME Repository, NEW run \in WorkflowRun,
         NEW n \in {"requirement_understanding", "codebase_reasoning", "risk_analysis",
                    "unit_testing", "integration_testing", "documentation",
                    "security_review"} \cap Nodes
  PROVE  /\ ~NODE_MAP[n].approval_gate
         /\ n = "codebase_reasoning" /\ run.scenario_type = "brownfield"
              => ConditionHolds(run, n)
         /\ n # "codebase_reasoning" => ConditionHolds(run, n)
<1>1. NODE_MAP[n] = SdlcNode(n)
  BY DEF Repository, SDLC_NODE_MAP
<1>2. /\ ~SdlcNode(n).approval_gate
      /\ n = "codebase_reasoning" => SdlcNode(n).condition = "is_brownfield"
      /\ n # "codebase_reasoning" => SdlcNode(n).condition = "none"
  BY DEF SdlcNode, NodeWith
<1> QED
  BY <1>1, <1>2 DEF ConditionHolds, IsBrownfield

\* The paths of the graph from the agents that read to those they read from.
LEMMA ReadPaths ==
  ASSUME Repository
  PROVE  /\ "architecture_design" \in NODE_MAP["implementation"].dependencies
         /\ "risk_analysis" \in NODE_MAP["implementation"].dependencies
         /\ "codebase_reasoning" \in NODE_MAP["architecture_design"].dependencies
         /\ "task_decomposition" \in NODE_MAP["risk_analysis"].dependencies
         /\ "requirement_understanding" \in NODE_MAP["task_decomposition"].dependencies
         /\ "implementation" \in NODE_MAP["unit_testing"].dependencies
         /\ NODE_MAP["release_readiness"].dependencies
              = {"unit_testing", "integration_testing", "documentation", "security_review"}
         /\ "release_readiness" \in NODE_MAP["release_approval"].dependencies
         /\ "release_approval" \in NODE_MAP["final_summary"].dependencies
<1>1. {"implementation", "architecture_design", "risk_analysis", "task_decomposition",
       "unit_testing", "release_readiness", "release_approval", "final_summary"}
         \subseteq SdlcNodes
  <2>1. Len(SDLC_NODES) = 15
    BY DEF SDLC_NODES
  <2>2. /\ SDLC_NODES[8] = "implementation" /\ SDLC_NODES[5] = "architecture_design"
        /\ SDLC_NODES[6] = "risk_analysis" /\ SDLC_NODES[4] = "task_decomposition"
        /\ SDLC_NODES[9] = "unit_testing" /\ SDLC_NODES[13] = "release_readiness"
        /\ SDLC_NODES[14] = "release_approval" /\ SDLC_NODES[15] = "final_summary"
    BY DEF SDLC_NODES
  <2>3. {8, 5, 6, 4, 9, 13, 14, 15} \subseteq 1..Len(SDLC_NODES)
    BY <2>1
  <2>4. \A i \in 1..Len(SDLC_NODES) : SDLC_NODES[i] \in SdlcNodes
    BY DEF SdlcNodes
  <2> QED
    BY <2>2, <2>3, <2>4
<1>2. \A n \in SdlcNodes : NODE_MAP[n].dependencies = SdlcNode(n).dependencies
  BY DEF Repository, SDLC_NODE_MAP
<1>3. /\ SdlcNode("implementation").dependencies
           = {"architecture_design", "risk_analysis", "change_approval"}
      /\ SdlcNode("architecture_design").dependencies
           = {"task_decomposition", "codebase_reasoning"}
      /\ SdlcNode("risk_analysis").dependencies = {"task_decomposition"}
      /\ SdlcNode("task_decomposition").dependencies
           = {"requirement_understanding", "clarification_gate"}
      /\ SdlcNode("unit_testing").dependencies = {"implementation"}
      /\ SdlcNode("release_readiness").dependencies
           = {"unit_testing", "integration_testing", "documentation", "security_review"}
      /\ SdlcNode("release_approval").dependencies = {"release_readiness"}
      /\ SdlcNode("final_summary").dependencies = {"release_approval"}
  BY DEF SdlcNode, NodeWith, GateWith
<1> QED
  BY <1>1, <1>2, <1>3

\* In the repository an agent is called only when all it reads is done.
LEMMA ReadDone ==
  ASSUME Repository, NEW run, Sound(run), NEW n \in Nodes, Status(run, n) # "PENDING",
         NEW m \in ArtifactsRead(run, n)
  PROVE  m \in Nodes /\ Status(run, m) \in Acceptable
<1> DEFINE Done(x) == x \in Nodes /\ Status(run, x) # "PENDING" /\ Status(run, x) \in Acceptable
<1>1. \A x \in Nodes : Status(run, x) # "PENDING" =>
        \A d \in NODE_MAP[x].dependencies : Done(d)
  BY UpstreamDone
<1>2. Done("implementation") => Done("risk_analysis") /\ Done("requirement_understanding")
  <2>1. Done("implementation") => Done("risk_analysis")
    BY <1>1, ReadPaths
  <2>2. Done("risk_analysis") => Done("task_decomposition")
    BY <1>1, ReadPaths
  <2>3. Done("task_decomposition") => Done("requirement_understanding")
    BY <1>1, ReadPaths
  <2> QED
    BY <2>1, <2>2, <2>3
<1>3. ASSUME "release_readiness" \in Nodes, Status(run, "release_readiness") # "PENDING"
      PROVE  /\ \A d \in {"unit_testing", "integration_testing", "documentation",
                          "security_review"} : Done(d)
             /\ Done("risk_analysis") /\ Done("requirement_understanding")
  <2>1. \A d \in {"unit_testing", "integration_testing", "documentation",
                  "security_review"} : Done(d)
    BY <1>1, <1>3, ReadPaths
  <2>2. Done("implementation")
    BY <1>1, <2>1, ReadPaths
  <2> QED
    BY <1>2, <2>1, <2>2
<1>4. CASE n = "implementation"
  <2>1. m = "codebase_reasoning"
    BY <1>4 DEF ArtifactsRead
  <2>2. Done("architecture_design")
    BY <1>1, <1>4, ReadPaths
  <2>3. Done("codebase_reasoning")
    BY <1>1, <2>2, ReadPaths
  <2> QED
    BY <2>1, <2>3
<1>5. CASE n = "release_readiness"
  <2>1. m \in {"unit_testing", "integration_testing", "documentation", "security_review"}
    BY <1>5 DEF ArtifactsRead
  <2> QED
    BY <1>3, <1>5, <2>1
<1>6. CASE n = "final_summary"
  <2>1. m \in {"risk_analysis", "unit_testing", "integration_testing",
               "security_review", "requirement_understanding"}
    BY <1>6 DEF ArtifactsRead
  <2>2. Done("release_approval")
    BY <1>1, <1>6, ReadPaths
  <2>3. Done("release_readiness")
    BY <1>1, <2>2, ReadPaths
  <2> QED
    BY <1>3, <2>1, <2>3
<1>7. CASE n \notin {"implementation", "release_readiness", "final_summary"}
  BY <1>7 DEF ArtifactsRead
<1> QED
  BY <1>4, <1>5, <1>6, <1>7

\* _drive calls an agent of the repository only when the artifacts of other
\* nodes that it looks into are there, made for the plan it works on: skipping
\* one that is read would be a fault of the conditions in the graph.
THEOREM InputsReady ==
  ASSUME Repository
  PROVE  Spec => []InputsCurrent
<1>1. IInv => InputsCurrent
  <2> SUFFICES ASSUME IInv, NEW t \in Tasks, NEW n \in Nodes, phase[t][n] = "agent",
                      NEW m \in ArtifactsRead(obj[t], n)
               PROVE  obj[t].artifacts[m].plan = obj[t].plan_version
    BY DEF InputsCurrent
  <2>1. /\ Sound(obj[t]) /\ obj[t] \in WorkflowRun
        /\ Status(obj[t], n) = "RUNNING"
    BY DEF IInv, TaskSound, BatchSound, Active, Sound
  <2>2. m \in Nodes /\ Status(obj[t], m) \in Acceptable
    BY <2>1, ReadDone
  <2>3. m \in {"requirement_understanding", "codebase_reasoning", "risk_analysis",
               "unit_testing", "integration_testing", "documentation",
               "security_review"}
    BY DEF ArtifactsRead
  <2>4. m = "codebase_reasoning" => obj[t].scenario_type = "brownfield"
    BY DEF ArtifactsRead
  <2>5. ~NODE_MAP[m].approval_gate /\ ConditionHolds(obj[t], m)
    BY <2>1, <2>2, <2>3, <2>4, ReadAgents
  <2> QED
    BY <2>1, <2>2, <2>5, DeliveredCurrent
<1> QED
  BY <1>1, IInvHolds, PTL

-----------------------------------------------------------------------------
(***************************************************************************)
(* How long a request lasts.  What is left of it are three numbers, and    *)
(* each of its steps lowers the first one that it changes.                 *)
(***************************************************************************)
LEMMA ShorterBy ==
  ASSUME NEW a \in Nat, NEW b \in Nat, NEW c \in Nat,
         NEW x \in Nat, NEW y \in Nat, NEW z \in Nat,
         \/ a < x
         \/ a = x /\ b < y
         \/ a = x /\ b = y /\ c < z
  PROVE  Shorter(<<a, b, c>>, <<x, y, z>>)
<1> DEFINE new == <<a, b, c>>
           old == <<x, y, z>>
<1>1. new \in Nat \X Nat \X Nat
  OBVIOUS
<1>2. \E i \in 1..3 : new[i] < old[i] /\ \A j \in 1..(i - 1) : new[j] = old[j]
  <2>1. CASE a < x
    <3>1. new[1] < old[1] /\ \A j \in 1..(1 - 1) : new[j] = old[j]
      BY <2>1
    <3> QED
      BY <3>1
  <2>2. CASE a = x /\ b < y
    <3>1. new[2] < old[2] /\ \A j \in 1..(2 - 1) : new[j] = old[j]
      BY <2>2
    <3> QED
      BY <3>1
  <2>3. CASE a = x /\ b = y /\ c < z
    <3>1. new[3] < old[3] /\ \A j \in 1..(3 - 1) : new[j] = old[j]
      BY <2>3
    <3> QED
      BY <3>1
  <2> QED
    BY <2>1, <2>2, <2>3
<1> QED
  BY <1>1, <1>2 DEF Shorter

\* The nodes that are left, from one step to the next.
LEMMA UntakenFinite ==
  ASSUME NEW run, NEW batch
  PROVE  IsFiniteSet(Untaken(run, batch)) /\ Cardinality(Untaken(run, batch)) \in Nat
<1>1. Untaken(run, batch) \subseteq Nodes
  BY DEF Untaken
<1> QED
  BY <1>1, Finite, FS_Subset, FS_CardinalityType

LEMMA NodesLeftNat ==
  ASSUME NEW run, NEW batch, NEW moved
  PROVE  NodesLeft(run, batch, moved) \in Nat
BY UntakenFinite DEF NodesLeft

LEMMA NodeTaken ==
  ASSUME NEW run, NEW batch, NEW moved, NEW new, NEW after, NEW further,
         Untaken(new, after) \subseteq Untaken(run, batch),
         NEW n \in Untaken(run, batch), n \notin Untaken(new, after)
  PROVE  NodesLeft(new, after, further) < NodesLeft(run, batch, moved)
<1> DEFINE S == Untaken(run, batch)
           T == Untaken(new, after)
<1>1. /\ IsFiniteSet(S) /\ Cardinality(S) \in Nat /\ Cardinality(T) \in Nat
      /\ T \subseteq S /\ T # S
  BY UntakenFinite
<1>2. Cardinality(T) < Cardinality(S)
  <2> HIDE DEF S, T
  <2> QED
    BY <1>1, FS_Subset
<1>3. NodesLeft(run, batch, moved) >= 2 * Cardinality(S)
  BY <1>1 DEF NodesLeft
<1>4. NodesLeft(new, after, further) <= 2 * Cardinality(T) + 1
  BY <1>1 DEF NodesLeft
<1>5. NodesLeft(run, batch, moved) \in Nat /\ NodesLeft(new, after, further) \in Nat
  BY NodesLeftNat
<1> HIDE DEF S, T
<1> QED
  BY <1>1, <1>2, <1>3, <1>4, <1>5

LEMMA NodesKept ==
  ASSUME NEW run, NEW batch, NEW moved, NEW new, NEW after, NEW further,
         Untaken(new, after) = Untaken(run, batch),
         (further \/ Taken(after) # {}) <=> (moved \/ Taken(batch) # {})
  PROVE  NodesLeft(new, after, further) = NodesLeft(run, batch, moved)
BY DEF NodesLeft

\* The awaits that are left.
LEMMA AwaitsNat ==
  ASSUME NEW run \in WorkflowRun, WithinBudget(run), NEW n \in Nodes, NEW p
  PROVE  AwaitsOf(run, n, p) \in Nat
<1>1. /\ NODE_MAP[n].max_attempts \in Nat /\ run.nodes[n].attempts \in Nat
      /\ run.nodes[n].attempts <= NODE_MAP[n].max_attempts
  BY BudgetFacts DEF WithinBudget, WorkflowRun, NodeExecution
<1> QED
  BY <1>1 DEF AwaitsOf

LEMMA AwaitsLeftNat ==
  ASSUME NEW run \in WorkflowRun, WithinBudget(run), NEW batch
  PROVE  AwaitsLeft(run, batch) \in Nat
BY AwaitsNat, Finite, SumNat DEF AwaitsLeft

LEMMA StageLeftNat ==
  ASSUME NEW run \in WorkflowRun, WithinBudget(run), NEW batch, NEW label,
         NEW i \in Nat, i <= Len(NODES) + 1
  PROVE  StageLeft(label, run, batch, i) \in Nat
<1>1. Len(NODES) \in Nat
  BY GraphType DEF GraphType
<1> QED
  BY <1>1, AwaitsLeftNat DEF StageLeft

LEMMA AwaitsShrink ==
  ASSUME NEW run \in WorkflowRun, NEW new \in WorkflowRun, NEW n \in Nodes,
         NEW batch \in [Nodes -> Phases], NEW p, WithinBudget(run), WithinBudget(new),
         Attempted(run, batch), OthersKept(run, new, n), Effect(run, new, n, batch[n], p)
  PROVE  AwaitsLeft(new, [batch EXCEPT ![n] = p]) < AwaitsLeft(run, batch)
<1> DEFINE after == [batch EXCEPT ![n] = p]
           f == [m \in Nodes |-> AwaitsOf(run, m, batch[m])]
           e == [m \in Nodes |-> AwaitsOf(new, m, after[m])]
<1>1. AwaitsOf(new, n, p) < AwaitsOf(run, n, batch[n])
  <2> DEFINE most == NODE_MAP[n].max_attempts
             a == run.nodes[n].attempts
             b == new.nodes[n].attempts
  <2>1. most \in Nat /\ a \in Nat /\ b \in Nat /\ a <= most /\ b <= most
    BY BudgetFacts DEF WithinBudget, WorkflowRun, NodeExecution
  <2>2. CASE Begins(run, new, n, batch[n], p)
    <3>1. /\ p = "agent" /\ batch[n] \in {"queued", "sleep"} /\ b = a + 1
      BY <2>2 DEF Begins, Attempted
    <3> QED
      BY <2>1, <3>1 DEF AwaitsOf
  <2>3. CASE /\ b = a /\ batch[n] \in {"agent", "fallback"}
             /\ p \in {"sleep", "fallback", "done"}
             /\ batch[n] = "fallback" => p = "done"
    BY <2>1, <2>3 DEF AwaitsOf
  <2> QED
    BY <2>2, <2>3 DEF Effect, Repeats, Delivers, Stops, FallsBack, GivesUp, SameAttempts,
                      RolledBackIfMutating
<1>2. \A m \in Nodes \ {n} : f[m] = e[m]
  <2>1. \A m \in Nodes \ {n} : after[m] = batch[m] /\ new.nodes[m] = run.nodes[m]
    BY DEF OthersKept, Within
  <2> QED
    BY <2>1 DEF AwaitsOf
<1>3. \A m \in Nodes : f[m] \in Nat /\ e[m] \in Nat
  BY AwaitsNat
<1>4. f[n] = AwaitsOf(run, n, batch[n]) /\ e[n] = AwaitsOf(new, n, p)
  OBVIOUS
<1> HIDE DEF f, e, after
<1>5. SumFunctionOnSet(e, Nodes) + f[n] = SumFunctionOnSet(f, Nodes) + e[n]
  BY <1>2, <1>3, Finite, SumChange
<1>6. SumFunctionOnSet(e, Nodes) \in Nat /\ SumFunctionOnSet(f, Nodes) \in Nat
  BY <1>3, Finite, SumNat
<1>7. SumFunctionOnSet(e, Nodes) < SumFunctionOnSet(f, Nodes)
  BY <1>1, <1>3, <1>4, <1>5, <1>6
<1> QED
  BY <1>7 DEF AwaitsLeft, f, e, after

\* The invariant: where the scan is, and that a pass leaves no node it has
\* taken up pending.
Advancing(label, run, batch, i) ==
  /\ i <= Len(NODES) + 1
  /\ \A n \in Nodes :
       /\ batch[n] = "queued" => label \in {"scan", "gather"}
       /\ batch[n] = "done" => Status(run, n) # "PENDING"

LInv ==
  /\ BInv /\ CInv
  /\ \A t \in Tasks : Advancing(pc[t], obj[t], phase[t], index[t])

\* A step of task t leaves the locals of the others alone.
OthersWait(t) ==
  \A u \in Tasks \ {t} : /\ pc'[u] = pc[u] /\ obj'[u] = obj[u] /\ phase'[u] = phase[u]
                         /\ index'[u] = index[u] /\ progress'[u] = progress[u]

LEMMA ReturnWaits ==
  ASSUME TypeOK, NEW t \in Tasks, Return(t)
  PROVE  /\ OthersWait(t)
         /\ pc'[t] = "idle" /\ phase'[t] = NoPhase /\ index'[t] = 0
BY DEF Return, TypeOK, OthersWait

LEMMA RequestWaits ==
  ASSUME TypeOK, NEW t \in Tasks, Request(t)
  PROVE  /\ OthersWait(t)
         /\ pc[t] = "idle" /\ phase'[t] = phase[t] /\ index'[t] = index[t]
<1>1. ASSUME NEW r \in Runs, NEW run, EnterDrive(t, r, run)
      PROVE  OthersWait(t) /\ phase'[t] = phase[t] /\ index'[t] = index[t]
  BY <1>1 DEF EnterDrive, TypeOK, OthersWait
<1>2. ASSUME NEW r \in Runs, NEW g \in Gates, Reject(t, r, g)
      PROVE  OthersWait(t) /\ phase'[t] = phase[t] /\ index'[t] = index[t]
  BY <1>2 DEF Reject, OthersWait
<1> QED
  BY <1>1, <1>2 DEF Request, PostRun, PostApproval, PostReplan, StartRun, Approve, Replan,
                    Reject, CanServe

\* The steps of _drive and _execute_node that do not return, one by one.
BeginsPass(t) ==
  /\ OthersWait(t)
  /\ pc[t] = "top" /\ pc'[t] = "scan" /\ obj'[t] = obj[t]
  /\ index'[t] = 1 /\ ~progress'[t] /\ phase'[t] = NoPhase

LEMMA DriveTopLeft ==
  ASSUME LInv, NEW t \in Tasks, DriveTop(t)
  PROVE  Return(t) \/ BeginsPass(t)
<1>1. TypeOK
  BY DEF LInv, BInv, IInv
<1> QED
  BY <1>1 DEF DriveTop, Goto, OthersWait, TypeOK, BeginsPass

\* A step of the scan that goes on to the next node.
ScansOn(t) ==
  /\ OthersWait(t)
  /\ Scanning(t) /\ pc'[t] = "scan"
  /\ index'[t] = index[t] + 1
  /\ \/ obj'[t] = obj[t] /\ phase'[t] = phase[t] /\ progress'[t] = progress[t]
     \/ /\ Status(obj[t], Scanned(t)) = "PENDING"
        /\ obj'[t] = SkipNode(obj[t], Scanned(t)) /\ phase'[t] = phase[t] /\ progress'[t]
     \/ /\ Status(obj[t], Scanned(t)) = "PENDING"
        /\ obj'[t] = obj[t] /\ progress'[t] = progress[t]
        /\ phase'[t] = [phase[t] EXCEPT ![Scanned(t)] = "queued"]

LEMMA ScanLeft ==
  ASSUME LInv, NEW t \in Tasks, PassOver(t) \/ Skip(t) \/ Enqueue(t)
  PROVE  ScansOn(t)
<1>1. TypeOK
  BY DEF LInv, BInv, IInv
<1>2. CASE PassOver(t)
  BY <1>1, <1>2 DEF PassOver, Scanning, ScanOn, OthersWait, ScansOn, TypeOK
<1>3. CASE Skip(t)
  BY <1>1, <1>3 DEF Skip, Scanning, ScanOn, OthersWait, ScansOn, TypeOK, Ready
<1>4. CASE Enqueue(t)
  BY <1>1, <1>4 DEF Enqueue, Scanning, ScanOn, OthersWait, ScansOn, TypeOK, Ready
<1> QED
  BY <1>2, <1>3, <1>4

\* A step to the next stage.
NextStage(t) ==
  /\ OthersWait(t)
  /\ obj'[t] = obj[t] /\ phase'[t] = phase[t] /\ index'[t] = index[t]
  /\ \/ /\ pc[t] = "scan"
        /\ pc'[t] = IF Taken(phase[t]) # {} THEN "gather" ELSE "final"
        /\ progress'[t] = (progress[t] \/ Taken(phase[t]) # {})
     \/ /\ progress'[t] = progress[t]
        /\ \/ /\ pc[t] = "gather" /\ pc'[t] = "settle"
              /\ \A n \in Taken(phase[t]) : phase[t][n] = "done"
           \/ pc[t] = "settle" /\ pc'[t] = "final"
           \/ pc[t] = "final" /\ pc'[t] = "top" /\ progress[t]

LEMMA StageDone ==
  ASSUME LInv, NEW t \in Tasks, ScanDone(t) \/ GatherDone(t) \/ SettleOk(t) \/ NextPass(t)
  PROVE  NextStage(t)
<1>1. TypeOK /\ Batch(t) = Taken(phase[t])
  BY DEF LInv, BInv, IInv, Batch, Taken
<1>2. CASE ScanDone(t)
  BY <1>1, <1>2 DEF ScanDone, Goto, OthersWait, NextStage, TypeOK
<1>3. CASE GatherDone(t)
  BY <1>1, <1>3 DEF GatherDone, Goto, OthersWait, NextStage, TypeOK
<1>4. CASE SettleOk(t) \/ NextPass(t)
  BY <1>1, <1>4 DEF SettleOk, NextPass, Goto, OthersWait, NextStage, TypeOK
<1> QED
  BY <1>2, <1>3, <1>4

\* A step within a node.
NodeMoves(t, n, p) ==
  /\ OthersWait(t)
  /\ pc[t] = "gather" /\ pc'[t] = "gather"
  /\ index'[t] = index[t] /\ progress'[t] = progress[t]
  /\ phase[t][n] # "none" /\ p \in Active \cup {"done"}
  /\ phase'[t] = [phase[t] EXCEPT ![n] = p]
  /\ OthersKept(obj[t], obj'[t], n)
  /\ p = "done" => Status(obj'[t], n) # "PENDING"
  /\ Effect(obj[t], obj'[t], n, phase[t][n], p)

LEMMA NodeLeft ==
  ASSUME LInv, NEW t \in Tasks, NEW n \in Nodes, NodeProgress(t, n)
  PROVE  \E p : NodeMoves(t, n, p)
<1>1. IInv /\ TypeOK
  BY DEF LInv, BInv, IInv
<1>2. PICK p, run : NodeMove(t, n, p, run)
  BY <1>1, NodeProgressMove
<1>3. /\ obj'[t] = run /\ phase'[t] = [phase[t] EXCEPT ![n] = p]
      /\ pc' = pc /\ index' = index /\ progress' = progress
      /\ OthersWait(t)
  BY <1>1, <1>2 DEF NodeMove, NodeStep, OthersWait, TypeOK
<1>4. p = "done" => Status(run, n) # "PENDING"
  BY <1>2 DEF NodeMove, Ended, Active
<1>5. /\ pc[t] = "gather" /\ phase[t][n] # "none" /\ p \in Active \cup {"done"}
      /\ OthersKept(obj[t], run, n) /\ Effect(obj[t], run, n, phase[t][n], p)
  BY <1>2 DEF NodeMove
<1> QED
  BY <1>3, <1>4, <1>5 DEF NodeMoves

\* What a step of a request is.
LEMMA TaskStepLeft ==
  ASSUME LInv, NEW t \in Tasks, TaskStep(t)
  PROVE  \/ Return(t) \/ BeginsPass(t) \/ ScansOn(t) \/ NextStage(t)
         \/ \E n \in Nodes : \E p : NodeMoves(t, n, p)
<1>1. CASE DriveStep(t)
  BY <1>1, DriveTopLeft, ScanLeft, StageDone
     DEF DriveStep, AskApproval, SettleFailed, Complete, Blocked
<1> QED
  BY <1>1, NodeLeft DEF TaskStep

LEMMA LInvInit == Init => LInv
<1> SUFFICES ASSUME Init
             PROVE  \A t \in Tasks : Advancing(pc[t], obj[t], phase[t], index[t])
  BY BInvInit, CInvInit DEF LInv
<1>1. Len(NODES) \in Nat
  BY GraphType DEF GraphType
<1> QED
  BY <1>1 DEF Init, Advancing, NoPhase

LEMMA AdvancingStep ==
  ASSUME LInv, BInv', CInv', NEW t \in Tasks, OthersWait(t),
         Advancing(pc'[t], obj'[t], phase'[t], index'[t])
  PROVE  LInv'
<1>1. \A u \in Tasks : Advancing(pc'[u], obj'[u], phase'[u], index'[u])
  BY DEF LInv, OthersWait
<1>2. \A u \in Tasks : Advancing(pc[u], obj[u], phase[u], index[u])'
                         = Advancing(pc'[u], obj'[u], phase'[u], index'[u])
  BY DEF Advancing, Status
<1> QED
  BY <1>1, <1>2 DEF LInv

\* No node is in the batch of a request that has not begun or is over.
LEMMA IdleAdvancing ==
  ASSUME NEW label, NEW run, NEW batch, NEW i \in Nat, i <= Len(NODES) + 1,
         \A n \in Nodes : batch[n] = "none"
  PROVE  Advancing(label, run, batch, i)
BY DEF Advancing

LEMMA LInvNext ==
  ASSUME LInv, [Next]_vars
  PROVE  LInv'
<1>1. BInv' /\ CInv' /\ IInv /\ TypeOK /\ Len(NODES) \in Nat
  BY BInvNext, CInvNext, GraphType DEF LInv, BInv, IInv, GraphType
<1>2. /\ \A t \in Tasks : Advancing(pc[t], obj[t], phase[t], index[t])
      /\ \A t \in Tasks : index[t] \in Nat
      /\ \A t \in Tasks : pc[t] = "idle" => \A n \in Nodes : phase[t][n] = "none"
  BY <1>1 DEF LInv, IInv, TypeOK, TaskSound, BatchSound
<1>3. CASE UNCHANGED vars
  <2>1. \A t \in Tasks : Advancing(pc[t], obj[t], phase[t], index[t])'
    BY <1>2, <1>3 DEF vars, Advancing, Status
  <2> QED
    BY <1>1, <2>1 DEF LInv
<1>4. ASSUME NEW t \in Tasks, Request(t)
      PROVE  LInv'
  <2>1. /\ OthersWait(t) /\ pc[t] = "idle"
        /\ phase'[t] = phase[t] /\ index'[t] = index[t]
    BY <1>1, <1>4, RequestWaits
  <2>2. index[t] <= Len(NODES) + 1
    BY <1>2 DEF Advancing
  <2>3. Advancing(pc'[t], obj'[t], phase'[t], index'[t])
    BY <1>2, <2>1, <2>2, IdleAdvancing
  <2> QED
    BY <1>1, <2>1, <2>3, AdvancingStep
<1>5. ASSUME NEW t \in Tasks, Return(t)
      PROVE  LInv'
  <2>1. OthersWait(t) /\ phase'[t] = NoPhase /\ index'[t] = 0
    BY <1>1, <1>5, ReturnWaits
  <2>2. Advancing(pc'[t], obj'[t], phase'[t], index'[t])
    BY <1>1, <2>1, IdleAdvancing DEF NoPhase
  <2> QED
    BY <1>1, <2>1, <2>2, AdvancingStep
<1>6. ASSUME NEW t \in Tasks, TaskStep(t)
      PROVE  LInv'
  <2> SUFFICES ASSUME ~Return(t)
               PROVE  OthersWait(t) /\ Advancing(pc'[t], obj'[t], phase'[t], index'[t])
    BY <1>1, <1>5, AdvancingStep
  <2> DEFINE Goal == OthersWait(t) /\ Advancing(pc'[t], obj'[t], phase'[t], index'[t])
  <2>1. CASE BeginsPass(t)
    <3>1. OthersWait(t) /\ index'[t] = 1 /\ phase'[t] = NoPhase
      BY <2>1 DEF BeginsPass
    <3> QED
      BY <1>1, <3>1, IdleAdvancing DEF NoPhase
  <2>2. CASE ScansOn(t)
    <3>1. \A n \in Nodes : phase[t][n] \in {"none", "queued"}
      BY <1>1, <2>2 DEF ScansOn, Scanning, IInv, TaskSound, BatchSound
    <3>2. \A n \in Nodes : phase'[t][n] \in {"none", "queued"}
      BY <1>1, <2>2, <3>1 DEF ScansOn, TypeOK
    <3>3. index'[t] <= Len(NODES) + 1
      BY <1>1, <1>2, <2>2 DEF ScansOn, Scanning
    <3> QED
      BY <2>2, <3>2, <3>3 DEF ScansOn, Advancing
  <2>3. CASE NextStage(t)
    <3>1. /\ OthersWait(t)
          /\ obj'[t] = obj[t] /\ phase'[t] = phase[t] /\ index'[t] = index[t]
      BY <2>3 DEF NextStage
    <3>2. \A n \in Nodes : phase[t][n] = "queued" => pc'[t] \in {"scan", "gather"}
      BY <1>2, <2>3 DEF NextStage, Advancing, Taken
    <3> QED
      BY <1>2, <3>1, <3>2 DEF Advancing
  <2>4. ASSUME NEW n \in Nodes, NEW p, NodeMoves(t, n, p)
        PROVE  Goal
    <3>1. \A m \in Nodes \ {n} : /\ phase'[t][m] = phase[t][m]
                                 /\ Status(obj'[t], m) = Status(obj[t], m)
      BY <1>1, <2>4 DEF NodeMoves, OthersKept, Within, Status, TypeOK
    <3>2. phase'[t][n] = p /\ p # "queued" /\ (p = "done" => Status(obj'[t], n) # "PENDING")
      BY <1>1, <2>4 DEF NodeMoves, TypeOK, Active
    <3>3. OthersWait(t) /\ pc'[t] = "gather" /\ index'[t] = index[t]
      BY <2>4 DEF NodeMoves
    <3> QED
      BY <1>2, <3>1, <3>2, <3>3 DEF Advancing
  <2> QED
    BY <1>6, <2>1, <2>2, <2>3, <2>4, TaskStepLeft
<1>7. CASE Crash
  <2>1. \A t \in Tasks : phase'[t] = NoPhase /\ index'[t] = 0
    BY <1>7 DEF Crash
  <2>2. \A t \in Tasks : Advancing(pc'[t], obj'[t], phase'[t], index'[t])
    BY <1>1, <2>1, IdleAdvancing DEF NoPhase
  <2>3. \A u \in Tasks : Advancing(pc[u], obj[u], phase[u], index[u])'
                           = Advancing(pc'[u], obj'[u], phase'[u], index'[u])
    BY DEF Advancing, Status
  <2> QED
    BY <1>1, <2>2, <2>3 DEF LInv
<1> QED
  BY <1>3, <1>4, <1>5, <1>6, <1>7 DEF Next, SaveFails, AgentEscapes

LEMMA LInvHolds == Spec => []LInv
BY LInvInit, LInvNext, PTL DEF Spec

\* What is left of a request at work is three natural numbers.
LEMMA LeftNat ==
  ASSUME NEW label, NEW run \in WorkflowRun, WithinBudget(run), NEW batch, NEW moved,
         NEW i \in Nat, Advancing(label, run, batch, i)
  PROVE  /\ NodesLeft(run, batch, moved) \in Nat
         /\ StagesLeft(label, moved) \in Nat
         /\ StageLeft(label, run, batch, i) \in Nat
BY NodesLeftNat, StageLeftNat DEF StagesLeft, Advancing

LEMMA StepShortens ==
  ASSUME LInv, LInv', NEW t \in Tasks, TaskStep(t), pc[t] # "idle", pc'[t] # "idle"
  PROVE  Shorter(Left(t)', Left(t))
<1> DEFINE a == NodesLeft(obj'[t], phase'[t], progress'[t])
           b == StagesLeft(pc'[t], progress'[t])
           c == StageLeft(pc'[t], obj'[t], phase'[t], index'[t])
           x == NodesLeft(obj[t], phase[t], progress[t])
           y == StagesLeft(pc[t], progress[t])
           z == StageLeft(pc[t], obj[t], phase[t], index[t])
<1>1. /\ obj[t] \in WorkflowRun /\ WithinBudget(obj[t]) /\ index[t] \in Nat
      /\ phase[t] \in [Nodes -> Phases] /\ progress[t] \in BOOLEAN
      /\ Advancing(pc[t], obj[t], phase[t], index[t])
      /\ BatchSound(pc[t], obj[t], phase[t], snapshot[t])
      /\ Attempted(obj[t], phase[t])
      /\ pc[t] # "gather" => Resting(phase[t])
  BY DEF LInv, BInv, CInv, IInv, TypeOK, TaskSound, Accounted
<1>2. /\ obj'[t] \in WorkflowRun /\ WithinBudget(obj'[t]) /\ index'[t] \in Nat
      /\ Advancing(pc'[t], obj'[t], phase'[t], index'[t])
  <2>1. /\ WithinBudget(obj[t])' = WithinBudget(obj'[t])
        /\ Advancing(pc[t], obj[t], phase[t], index[t])'
             = Advancing(pc'[t], obj'[t], phase'[t], index'[t])
    BY DEF WithinBudget, Advancing, Status
  <2> QED
    BY <2>1 DEF LInv, BInv, IInv, TypeOK
<1>3. /\ a \in Nat /\ b \in Nat /\ c \in Nat
      /\ x \in Nat /\ y \in Nat /\ z \in Nat
  BY <1>1, <1>2, LeftNat
<1>4. Left(t) = <<x, y, z>> /\ Left(t)' = <<a, b, c>>
  BY DEF Left
<1>5. Len(NODES) \in Nat
  BY GraphType DEF GraphType
<1> SUFFICES a < x \/ (a = x /\ b < y) \/ (a = x /\ b = y /\ c < z)
  <2> HIDE DEF a, b, c, x, y, z
  <2> QED
    BY <1>3, <1>4, ShorterBy
<1>6. CASE BeginsPass(t)
  <2>1. \A n \in Nodes : phase[t][n] # "none" => Status(obj[t], n) # "PENDING"
    BY <1>1, <1>6 DEF BeginsPass, Advancing, Resting, Active, Phases
  <2>2. Untaken(obj'[t], phase'[t]) = Untaken(obj[t], phase[t])
    BY <1>6, <2>1 DEF BeginsPass, NoPhase, Untaken, Taken
  <2>3. Taken(phase'[t]) = {} /\ ~progress'[t]
    BY <1>6 DEF BeginsPass, Taken, NoPhase
  <2>4. a <= x /\ (progress[t] => a < x)
    BY <2>2, <2>3, UntakenFinite DEF NodesLeft
  <2>5. ~progress[t] => b < y
    BY <1>6 DEF BeginsPass, StagesLeft
  <2> HIDE DEF a, b, c, x, y, z
  <2> QED
    BY <1>3, <2>4, <2>5
<1>7. CASE ScansOn(t)
  <2>1. Scanned(t) \in Nodes /\ pc[t] = "scan" /\ pc'[t] = "scan" /\ index'[t] = index[t] + 1
    BY <1>7, GraphType DEF ScansOn, Scanning, Scanned, GraphType
  <2>2. b = y /\ c < z
    BY <1>1, <1>5, <2>1 DEF StagesLeft, StageLeft
  <2>3. a < x \/ a = x
    <3> DEFINE n == Scanned(t)
    <3>1. CASE obj'[t] = obj[t] /\ phase'[t] = phase[t] /\ progress'[t] = progress[t]
      BY <3>1
    <3>2. CASE /\ Status(obj[t], n) = "PENDING"
               /\ obj'[t] = SkipNode(obj[t], n) /\ phase'[t] = phase[t] /\ progress'[t]
      <4>1. Status(obj'[t], n) = "SKIPPED" /\ \A m \in Nodes \ {n} : Status(obj'[t], m) = Status(obj[t], m)
        BY <1>1, <2>1, <3>2 DEF SkipNode, SetStatus, SetNode, Status, WorkflowRun
      <4>2. Untaken(obj'[t], phase'[t]) \subseteq Untaken(obj[t], phase[t]) /\ n \notin Untaken(obj'[t], phase'[t])
        BY <3>2, <4>1 DEF Untaken
      <4>3. CASE phase[t][n] = "none"
        <5>1. n \in Untaken(obj[t], phase[t])
          BY <2>1, <3>2, <4>3 DEF Untaken, Taken
        <5> QED
          BY <4>2, <5>1, NodeTaken
      <4>4. CASE phase[t][n] # "none"
        <5>1. Untaken(obj'[t], phase'[t]) = Untaken(obj[t], phase[t])
          BY <3>2, <4>1, <4>4 DEF Untaken, Taken
        <5>2. Taken(phase[t]) # {} /\ Taken(phase'[t]) # {}
          BY <2>1, <3>2, <4>4 DEF Taken
        <5> QED
          BY <5>1, <5>2, NodesKept
      <4> QED
        BY <4>3, <4>4
    <3>3. CASE /\ Status(obj[t], n) = "PENDING"
               /\ obj'[t] = obj[t] /\ progress'[t] = progress[t]
               /\ phase'[t] = [phase[t] EXCEPT ![n] = "queued"]
      <4>1. phase'[t][n] = "queued" /\ \A m \in Nodes \ {n} : phase'[t][m] = phase[t][m]
        BY <1>1, <2>1, <3>3
      <4>2. Untaken(obj'[t], phase'[t]) \subseteq Untaken(obj[t], phase[t]) /\ n \notin Untaken(obj'[t], phase'[t])
        BY <2>1, <3>3, <4>1 DEF Untaken, Taken
      <4>3. CASE phase[t][n] = "none"
        <5>1. n \in Untaken(obj[t], phase[t])
          BY <2>1, <3>3, <4>3 DEF Untaken, Taken
        <5> QED
          BY <4>2, <5>1, NodeTaken
      <4>4. CASE phase[t][n] # "none"
        <5>1. Untaken(obj'[t], phase'[t]) = Untaken(obj[t], phase[t])
          BY <2>1, <3>3, <4>1, <4>4 DEF Untaken, Taken
        <5>2. Taken(phase[t]) # {} /\ Taken(phase'[t]) # {}
          BY <2>1, <4>1, <4>4 DEF Taken
        <5> QED
          BY <5>1, <5>2, NodesKept
      <4> QED
        BY <4>3, <4>4
    <3> QED
      BY <1>7, <3>1, <3>2, <3>3 DEF ScansOn
  <2> HIDE DEF a, b, c, x, y, z
  <2> QED
    BY <2>2, <2>3
<1>8. CASE NextStage(t)
  <2>1. obj'[t] = obj[t] /\ phase'[t] = phase[t]
    BY <1>8 DEF NextStage
  <2>2. (progress'[t] \/ Taken(phase'[t]) # {}) <=> (progress[t] \/ Taken(phase[t]) # {})
    BY <1>8, <2>1 DEF NextStage
  <2>3. a = x
    BY <2>1, <2>2, NodesKept
  <2>4. b < y
    BY <1>8 DEF NextStage, StagesLeft
  <2> HIDE DEF a, b, c, x, y, z
  <2> QED
    BY <2>3, <2>4
<1>9. ASSUME NEW n \in Nodes, NEW p, NodeMoves(t, n, p)
      PROVE  a = x /\ b = y /\ c < z
  <2>1. /\ pc[t] = "gather" /\ pc'[t] = "gather" /\ progress'[t] = progress[t]
        /\ phase[t][n] # "none" /\ p # "none"
        /\ phase'[t] = [phase[t] EXCEPT ![n] = p]
        /\ OthersKept(obj[t], obj'[t], n)
        /\ Effect(obj[t], obj'[t], n, phase[t][n], p)
    BY <1>9 DEF NodeMoves, Active
  <2>2. /\ phase'[t][n] = p
        /\ \A m \in Nodes \ {n} : /\ phase'[t][m] = phase[t][m]
                                  /\ Status(obj'[t], m) = Status(obj[t], m)
    BY <1>1, <2>1 DEF OthersKept, Within, Status
  <2>3. Untaken(obj'[t], phase'[t]) = Untaken(obj[t], phase[t])
    BY <2>1, <2>2 DEF Untaken, Taken
  <2>4. Taken(phase[t]) # {} /\ Taken(phase'[t]) # {}
    BY <2>1, <2>2 DEF Taken
  <2>5. a = x
    BY <2>3, <2>4, NodesKept
  <2>6. b = y
    BY <2>1 DEF StagesLeft
  <2>7. AwaitsLeft(obj'[t], phase'[t]) < AwaitsLeft(obj[t], phase[t])
    <3>1. AwaitsLeft(obj'[t], [phase[t] EXCEPT ![n] = p]) < AwaitsLeft(obj[t], phase[t])
      BY <1>1, <1>2, <2>1, AwaitsShrink
    <3> QED
      BY <2>1, <3>1
  <2>8. c < z
    BY <2>1, <2>7 DEF StageLeft
  <2> QED
    BY <2>5, <2>6, <2>8
<1>10. ~Return(t)
  BY ReturnWaits DEF LInv, BInv, IInv
<1> HIDE DEF a, b, c, x, y, z
<1> QED
  BY <1>6, <1>7, <1>8, <1>9, <1>10, TaskStepLeft

\* A step of another request.
LEMMA OthersLeft ==
  ASSUME NEW t \in Tasks, NEW u \in Tasks \ {t}, OthersWait(u)
  PROVE  Left(t)' = Left(t)
<1>1. /\ pc'[t] = pc[t] /\ obj'[t] = obj[t] /\ phase'[t] = phase[t]
      /\ index'[t] = index[t] /\ progress'[t] = progress[t]
  BY DEF OthersWait
<1> QED
  BY <1>1 DEF Left

LEMMA NoStepLengthens ==
  ASSUME LInv, LInv', Next, NEW t \in Tasks, pc[t] # "idle", pc'[t] # "idle"
  PROVE  Shorter(Left(t)', Left(t)) \/ Left(t)' = Left(t)
<1>1. TypeOK
  BY DEF LInv, BInv, IInv
<1>2. ASSUME NEW u \in Tasks, Request(u)
      PROVE  Left(t)' = Left(t)
  BY <1>1, <1>2, RequestWaits, OthersLeft
<1>3. ASSUME NEW u \in Tasks, Return(u)
      PROVE  Left(t)' = Left(t)
  BY <1>1, <1>3, ReturnWaits, OthersLeft
<1>4. ASSUME NEW u \in Tasks, TaskStep(u)
      PROVE  Shorter(Left(t)', Left(t)) \/ Left(t)' = Left(t)
  <2>1. CASE u = t
    BY <1>4, <2>1, StepShortens
  <2>2. CASE u # t
    <3>1. OthersWait(u)
      BY <1>1, <1>4, TaskStepLeft, ReturnWaits
         DEF BeginsPass, ScansOn, NextStage, NodeMoves
    <3> QED
      BY <2>2, <3>1, OthersLeft
  <2> QED
    BY <2>1, <2>2
<1>5. ~Crash
  BY DEF Crash
<1> QED
  BY <1>2, <1>3, <1>4, <1>5 DEF Next, SaveFails, AgentEscapes

\* A request cannot go on for ever, whatever its agents answer and whatever
\* others do: each step of _drive and _execute_node lowers what is left of it,
\* in the order of three natural numbers, where nothing falls without end.
THEOREM RequestsGetShorter == Spec => RequestsShorten
<1>1. LInv /\ [Next]_vars => LInv'
  BY LInvNext
<1>2. LInv /\ LInv' /\ [Next]_vars =>
        [\A t \in Tasks : pc[t] # "idle" /\ pc'[t] # "idle" =>
           /\ TaskStep(t) => Shorter(Left(t)', Left(t))
           /\ Shorter(Left(t)', Left(t)) \/ Left(t)' = Left(t)
        ]_vars
  BY StepShortens, NoStepLengthens
<1> QED
  BY <1>1, <1>2, LInvInit, PTL DEF Spec, RequestsShorten

=============================================================================
