# Verification of the agentic URL shortener

This directory holds TLA+ specifications of the program in `src/`, the
configurations that check them with TLC on small instances, and theorems about
them whose proofs TLAPS checks. Paths below are relative to the root of the
repository's sources; `orch/` stands for `src/urlshortener/orchestration/`.

## 1. The system

Two subsystems share one process: a URL shortener, and an *engineering control
plane* that takes a requirement through a dependency graph of agents, with
human approval gates, retries, fallbacks, rollback and replanning.

| Component | State it keeps | Operations | What makes it correct |
|---|---|---|---|
| Workflow graph (`orch/graph.py`) | none; a constant table of 15 nodes | `descendants`, three conditions | `descendants` is the set of all nodes downstream, exactly |
| Orchestrator (`orch/orchestrator.py`) | one copy of a run per request in service | `start`, `approve`, `replan`, `metrics`, the loop `_drive`, `_execute_node` | order of execution, gates honoured for the current plan, artifacts match the nodes that succeeded, attempts bounded, retries and rollbacks counted exactly, runs end for a cause, requests return |
| Workflow data (`orch/workflow_models.py`) | the fields of a run | none | |
| Agents (`orch/agents.py`) | none | `execute` | read only artifacts of the current plan |
| Policies (`orch/policies.py`) | none | `inspect_artifact`, `critical` | called on every artifact before it is accepted |
| Workflow store (`orch/store.py`) | a JSON file with all runs, a temporary file, a lock | `save`, `get`, `all` | every call takes effect at one moment: no save undoes another, the file is always whole, the lock is given back |
| Rate limiter (`src/urlshortener/rate_limit.py`) | per client, the times of its admitted requests | `allow` | at most `max_requests` in any window, and no refusal while the window has room |
| URL service (`src/urlshortener/service.py`, `models.py`, `db.py`) | the tables `urls` and `click_events` | `create`, `get`, `resolve`, `disable`, `analytics` | codes unique, no redirect of a code that was unavailable when the request began, clicks that come too late bounded, the numbers of one report in order |
| HTTP layer (`src/urlshortener/main.py`, `schemas.py`) | none | routes, status codes | routes do not shadow each other or the codes |
| Scenario script (`scripts/run_scenarios.py`) | none | starts runs and approves two of the gates | every run it starts comes to an end |
| Normalisation (`src/urlshortener/security.py`), configuration | none | pure functions, constants | |

**How they interact.** A route of `main.py` calls the orchestrator; `start`,
`approve` and `replan` read a run from the store (each read gives a new object),
change it, save it whole and go into `_drive`. `_drive` scans the node table in
declaration order, collects the ready agents of one pass into a batch, awaits
`asyncio.gather` over `_execute_node` for the batch, saves, and scans again,
until it asks for an approval, the run ends, or nothing moves. Agents read the
run they are given and return an artifact and decisions.

**What is hard.** All requests share one event loop, so two requests on the
same run interleave at every `await`: each works on its own copy, and the copy
saved last wins. Nodes of one batch interleave with each other and share one
copy. Agents fail, time after time or once; exceptions of a class that
`_execute_node` does not list leave `gather` while its siblings still run. The
process may die between two saves, or a save may raise with the copy in memory
ahead of the file. Approvals and replans arrive at any moment, for any run,
twice. The event loop saves to the file of the store while the threads that
serve the reading routes load it. The routes of the URL service run in threads
too, each with a session of its own: they interleave at every statement, work on
copies of rows that others change, and read the clock before they take a lock or
run a statement. The hazards, each with its line and the properties that guard
against it, are in `PROJECT.json`.

## 2. Modules

| Module | Models | |
|---|---|---|
| `Reachability` | the meaning of "downstream": the least set closed under dependents | reference definition |
| `DescendantsSearch` | the worklist loop of `descendants` | one action per iteration |
| `DescendantsProofs` | | proofs |
| `WorkflowGraph` | the node table as a parameter, with what a well-formed table is | assumptions |
| `SdlcGraph` | the 15 nodes of `orch/graph.py`; a cut of 7 of them | constants |
| `WorkflowModels` | the records of `orch/workflow_models.py` | data |
| `RunSteps` | the effect of each handler on a run | operators run -> run |
| `Orchestrator` | when those effects happen: requests, scan, batch, saves, crash | state machine |
| `RunProperties` | what is to hold of one copy of a run | predicates |
| `OrchestratorProperties` | invariants, action properties, liveness, refinement | properties |
| `RunLifecycle` | what a client of the API is promised about one run | abstract specification |
| `RunProofs`, `OrchestratorProofs` | | proofs |
| `SdlcAgents`, `SdlcWorkflow` | the answers of the repository's agents; the composition with the 15 nodes | instance |
| `RunOutcomeProofs`, `SingleRequestProofs` | | proofs: how runs end, how long requests last, where the counts go, what the repository's agents read and cause; what the store and `metrics` show while requests come one at a time |
| `StoreCalls` | the calls of the store and what each returns | data |
| `AtomicStore` | the store the orchestrator relies on: every call takes effect at one moment | abstract specification |
| `WorkflowStore`, `WorkflowStoreProofs` | `orch/store.py`, system call by system call | state machine, proofs |
| `RateLimiter`, `RateLimiterProofs` | `src/urlshortener/rate_limit.py` | state machine, proofs |
| `UrlService`, `UrlServiceProofs` | `src/urlshortener/service.py` over the tables of `models.py` | state machine, proofs |
| `MCDescendants`, `MCOrchestrator`, `MCSdlc`, `MCUrlService` | | instances for TLC |

**State and actions of `Orchestrator`.** `store` is the JSON file as a function
of run ids; `obj[t]` is the object the request `t` holds, `held[t]` its id. `pc`
follows `_drive`: `top` (line 133), `scan` (140), `gather` (166), `settle`
(170), `final` (183). `index` is the position of the `for` loop, `progress` the
variable of that name, `phase` says how far `_execute_node` is with each node of
the batch (`queued`, `agent`: awaiting line 214, `sleep`: 259, `fallback`: 266,
`done`), `snapshot` is the local variable of that name. Each handler is one
action from one suspension to the next: `Approve` is lines 69-106 up to the
first step of `_drive`; `AgentSucceeds` is 214-245, and so on; `PROJECT.json`
lists the lines of every definition. A task gives up the event loop only inside
`gather`; `LoopFree` therefore guards the steps of every other task. The steps
between two suspensions are kept apart because the process may die between
them (`Crash`), which leaves the file and nothing else, and because the store may
raise (`SaveFails`): nothing catches that, so the request is over and its copy
lost. `PostRun`, `PostApproval` and `PostReplan` are the routes of `main.py`; what
they answer 404 or 409 to changes nothing. `Metrics` is `metrics()`.

The agents are interfaces (`Agent` is an abstract class; `README.md` promises
that "alternate implementations" can be integrated), so what they answer, and
in which order, is a parameter: *ok*, *critical* (a policy finding), *fail* (an
exception that is caught, an unmet exit contract among them), *escape* (any
other exception). `SdlcAgents` narrows this to what the agents of the
repository do. `_validate_result` is part of what separates *ok* from *fail*.

**Left out of a run**: ids, texts, time stamps whose value is not tested, the
audit trail, and the dictionary `context`, which is written and never read by
the control flow. **Added**: artifacts, approvals and decisions carry the plan
version they were made for, so that the properties can tell what outlived its
plan; the code does not store it.

`DriveTop`'s branch for a run that is over is modelled because the code has it,
but no request enters `_drive` with such a run.

**`WorkflowStore`.** `file` and `temp` are the store and the temporary file with
its fixed name; `lock` is `_lock`; `pc[t]` is where thread `t` is in its `call`,
`items[t]` its dictionary `items`. One action per call of the operating system:
`Acquire` (line 25), `Load` (`_load_all`), `OpenTemp` and `WriteTemp` (the two
halves of `write_text`: in between the file holds a part of the text), `Replace`,
`Release` (the end of the `with` block). `Raise` is a system call that is
refused anywhere under the lock; `Die` kills the process and leaves the two files.
A text that is whole stands for its dictionary. The event loop and the threads
of the reading routes are all just threads here. `ImplementsAtomicStore` maps this
to `AtomicStore`, whose `TakeEffect` is the rename of a save and the load of a
read; that is the store `Save` of `Orchestrator` stands for.

**`RateLimiter`.** `allow` is two steps: `ReadClock` (line 21) and, with the lock
held, `Admit` or `Refuse` (lines 23-30). `events` are the deques of the code;
`admitted`, a history, keeps every stamp ever admitted, so that the bound can be
stated without the deque. Stamps are entered in the order of the lock, not of
the clock; `Expired` is the loop that stops at the first stamp that is late
enough, whatever lies behind it. `MaxDelay` is the longest wait for the lock:
the code sets none, and what the limiter guarantees depends on it.

**`UrlService`.** One action per statement or test of a request, since each
statement is a transaction: reads begin none, and every write is committed at
once. `row` is the copy a session keeps (`expire_on_commit=False`), so `resolve`
and `disable` test what was true when they read. The unique index on `code` is
`Known` in `Insert` and `Conflict`. Rows are never deleted, so a code stands for
its id. Of `click_events` only the number per code is kept: the days of
`analytics` divide it, its referrers are some of it. `DatabaseFails` ends a
request at any statement; a crash is that for all requests at once, as nothing
but the tables outlives them. `begun` and `late` are histories for the
properties.

## 3. What the runs show

| Run | Instance | What it shows |
|---|---|---|
| `descendants` | every graph over 3 nodes, cycles included, every start | the loop ends and returns exactly the nodes downstream |
| `failures` | 7-node cut, 1 request at a time, every answer of every agent, saves that fail and crashes anywhere, 2 plans | order, gates, provenance of artifacts, causes of an end, what the store shows between requests, budgets of attempts, the exact counters of retries and rollbacks from save to save, isolation of the mutating node, monotone plans, results and metrics, refinement of `RunLifecycle` |
| `concurrent` | 7-node cut, 2 requests at once, saves that fail and crashes, 2 plans | what is stored can be answered; only a replan makes two requests work on one run; each step of a request brings it nearer to its return, and no step of the other sets it back |
| `sdlc` | the 15 nodes and their agents, 1 request, 2 plans | requests return, runs settle, runs of a client that approves like the scenario script end (`ScriptedRunsEnd`), agents read current artifacts, runs fail only as injected |
| `workflow_store` | 3 threads, 2 runs, 2 versions of each, system calls that fail, crashes | the file is whole, saves merge, the lock comes free, the store implements `AtomicStore` |
| `rate_limiter` | 3 threads, 1 client, 2 requests in a window of 3, delay 1 | the bound in every window less the delay, no early refusal, the deque is the tail of what was admitted |
| `url_service` | 2 requests at once, 2 codes, 2 clicks of each, 2 days, statements that fail | answers are true, rows last, no code is given out twice, late clicks and the numbers of `analytics` are bounded |

Five runs end in a violation, on purpose: each checks something a document of
the repository says and the code does not do (section 5).

**Bounds, and why they are enough.** The cut graph keeps one node of each kind:
the root, a conditional gate, two nodes that run in one batch (one with a
fallback, one without), the mutating node with its three attempts and a
fallback, an unconditional gate and the last node. `MaxPlanVersion = 2` allows
one replan: whatever outlives a plan can be seen after the first. Runs do not
share anything but the file, which `Save` changes one entry of, so one run id
suffices. Two requests at once are enough for every pairwise race between
holders of a copy; the theorems of section 4 have no bound on either.
`concurrent` leaves the properties of a single copy (`GateHonoured` and the like) to
`failures` and to those theorems.
`failures` has all the answers (418 thousand states), `concurrent` leaves out most
failures of agents to keep two requests within reach (in it only the mutating
node fails; 571 thousand states); its tasks are symmetric. Both have the crashes
and the failing saves.

`workflow_store`: with three threads one writes, one reads and one waits; two
runs let a save undo the save of the other one, two versions let it undo an
earlier one of the same (197 thousand states). The theorems have no bound.

`rate_limiter`: clients share nothing but the dictionary, so one is enough; with
three threads two may overtake one that waits; `MaxTime` is twice the window and
one more, so stamps expire while others wait. `url_service`: two codes let a
second draw succeed where the first one failed, and five draws fail; two clicks
are one more than two threads may count late; two days let a code expire; the
theorems have no bound. Threads and codes are symmetric. Termination is not a
property of its own there: every step of a request moves it on but for
`DrawAgain`, which `attempts` bounds.

`CHECK_DEADLOCK FALSE`: a server that nobody asks anything, and whose bound on
plans is exhausted, has nothing to do.

**Fairness.** `FairSpec` has weak fairness of `TaskStep(t)` for each request
`t`: the event loop is fair to its tasks, sleeps end, and an agent that is
awaited answers. Nothing is assumed of clients (`Request`), of escaping
exceptions, of failing saves or of crashes, except in `ScriptedRunsEnd`, whose
premise is the client: one that goes on approving the two gates the script
approves, while others may still reject and replan. The agents of the repository never wait for anything,
so the assumption is theirs; an agent that hangs would hang the request, as
there is no timeout in the code. `FairSpec` of `WorkflowStore` has weak fairness of
each thread's next step. That is not enough for a thread that waits to get the
lock, and Python promises no more (its locks have no queue), so `LockComesFree`
says only that whoever holds the lock gives it back.

## 4. What is proved

Of the orchestrator, all for every graph that satisfies the assumptions of
`WorkflowGraph`, any set of runs, any number of concurrent requests (one at a time
in `SingleRequestProofs`), agents that answer anything at any time, saves that
fail, and crashes:

* `OrchestratorProofs`: `TypeCorrect`, `OrderKept` (`DependencyOrder`),
  `GatesHold` (`GateHonoured`), `ArtifactsTraced` (`ArtifactProvenance`),
  `MutationAlone` (`MutationIsolated`), `AttemptsBounded` (`BudgetsKept`).
* `RunOutcomeProofs`: `EndsExplained` (`EndsForCause`), `StoreAnswers`
  (`StoreAnswersRequests`), `ExclusiveKept` (`ExclusiveUnlessReplanned`),
  `RequestsGetShorter` (`RequestsShorten`); `CountsCarried`: no copy of a run
  loses a count or makes one twice; `CompletionApproved`: a run that is stored as completed
  has every gate approved for its plan or its condition not met (what
  `GateHonoured` and `EndsForCause` give together); and under the hypothesis `Repository`,
  `InjectedEnds` (`EndsOnlyAsInjected`) and `InputsReady` (`InputsCurrent`).
* `SingleRequestProofs`: `PlanKept` (`PlanNeverRegresses`), `ResultsKept`
  (`ResultsStay`), `MetricsNeverShrink` (`MetricsKept`), `CountersAgree`
  (`CountersKept`), `LifecycleFollowed` (`FollowsLifecycle`: the store implements
  `RunLifecycle`). Their hypothesis
  `OneRequest` is not a convenience: the run `lost_replan` shows that the plan
  goes back without it, which no step of `RunLifecycle` allows.

Of the other components:

* `DescendantsProofs`: the loop of `descendants` keeps its invariant (what it
  has found is downstream; what is downstream and not found is behind the
  frontier), so what it returns is exact, on any graph.
* `WorkflowStoreProofs`: `TypeCorrect`, `FileKept` (`FileWhole`), `MergeKept`
  (`SavesMerge`), `StoreAtomic` (`ImplementsAtomicStore`), for any threads, runs
  and payloads.
* `RateLimiterProofs`: `TypeCorrect`, `WindowKept` (`WindowBound`), `TailKept`
  (`NothingForgotten`), `RefusalsDue` (`NoEarlyRefusal`), for any limits, number
  of threads and clients, and any `MaxDelay`. With `MaxDelay = 0` they say that
  the window is exact.
* `UrlServiceProofs`: `TypeCorrect`, `LateBounded` (`LateClicksBounded`),
  `CountsInOrder` (`AnalyticsOrdered`), `RowsLast` (`RecordsLast`),
  `AnswersHold` (`AnswersTrue`), `CodesGivenOnce` (`CodesApart`), for any finite
  number of requests at once.

**Assumptions** of the orchestrator's theorems: the table is well-formed
(`GraphType`), acyclic (`Acyclic`: of any nodes, one depends on none of them),
its root is upstream and its last node downstream of everything (`RootCovers`,
`FinalCovers`), and a mutating node is up or downstream of every other node
(`MutatingIsolated`), an agent, neither first nor last (`MutatingAgents`). TLC
evaluates them for the 15 nodes and for the cut. `OrchestratorProofs` needs
`GraphType`, `RootCovers` (a replan resets every node) and `MutatingIsolated`: the
last is what the rollback by snapshot relies on, for with a second node in the
batch, restoring the dictionary would lose that node's artifact. It also needs that
no node has the name that stands for `None` in `first_failure_at` (`NoNodeIsNone`).
`RunOutcomeProofs` also needs `Acyclic` and `FinalCovers`, for how runs end.
`Repository`, the hypothesis of two of its theorems, says that the table is the
one of `graph.py` and that the agents answer nothing that those of `agents.py`
cannot; the configuration of `sdlc` is one of its instances, with one request,
two plans and some inputs, none of which the theorems bound. Nor does the
hypothesis exclude crashes, failing saves or the `OSError` of the agent that
reads files, which `sdlc` leaves out.

**One copy of a run** (`OrchestratorProofs`). The three properties of one copy
are proved together (`Sound`): a gate's decision stands while the condition it
rests on does; the condition rests on the first node's artifact; and an artifact
is written only by a node with everything upstream done and, by
`DownstreamBlocked`, nothing downstream begun. `DownstreamBlocked` is the heart:
if the order is respected and a node is not done, nothing downstream of it can
start, by the closure definition of `Descendants`. `RunProofs` shows for each
effect of `RunSteps` what it changes (`Local`, `Untouched`, `Fresh`) and that such
changes keep a run sound (`LocalSound`, `DeliverySound`, `UntouchedSound`,
`FreshSound`). Soundness of the copies is not inductive: a node is found ready in
the scan and starts later, while siblings move. The inductive invariant `IInv`
adds `BatchSound`: a queued node is still pending with its dependencies done, an
active one is RUNNING, and a batch with a mutating node has no other. The last
holds because two ready nodes cannot be up and downstream of each other
(`EnqueueStep`).

**Budgets** (`OrchestratorProofs`). Attempts are counted on one side of an await and
tested on the other. The invariant `BInv` keeps what the tests have found in the
phase of the node (`Spending`): a node that pauses has an attempt left, one whose
fallback is awaited has made them all and the failure is noted. Everything else
leaves the attempts of a node that is not done as they are (`SpendsNothing`).

**How runs end** (`RunOutcomeProofs`). What is stored can be answered
(`Answerable`), but what a task holds between two awaits cannot: a batch leaves
nodes RUNNING, or failed in a run that is still RUNNING. The invariant `OInv`
therefore says, label by label of `_drive`, what the copy may show (`WorkSound`):
at which labels a node executes, that a failed node is seen before the next
pass, and that nothing is ready after a pass without progress. At the blocked
end, `Acyclic` picks of the pending nodes one that depends on no pending node; it
is not ready, so one of its dependencies is neither done nor pending: it was
rolled back. At the completed end, `FinalCovers` puts every node upstream of the
last one, which has succeeded. For `ExclusiveKept` the invariant `XInv` adds what
the store shows of the run a task works on (`Holds`): as long as its plan is the
first, no gate waits, so no second request gets past `approve`.

**Counters and causes** (`RunOutcomeProofs`, `SingleRequestProofs`). A replan
forgets attempts and statuses but no count, so the counters of a run are more than
its nodes show. `CountersKept` compares them from save to save, and so says of
them exactly what is right without a variable that remembers every event:
`CarriedOver`, what the counters hold beyond the nodes, never changes within a
plan, and a new plan begins with all that was counted. One rollback that is not
counted, or one retry that is counted twice, changes it. Within a request it is
not so simple: a retry is counted before the pause and its attempt after it.
`Carried` therefore looks at the phases too, where each pausing node is owed one
attempt; what is saved has no agent awaited (`Resting`), so there it is
`CarriedOver`. That each step keeps it (`AttemptedMove`) needs to know that an
awaited node has made an attempt and a pending one none (`Attempted`).
`CountsCarried` says this of every copy, with any number of requests. What the
store shows is another matter: of two copies the one saved last wins, with its
counters, as the run `lost_replan` shows of the plan. With requests one at a time
(`NInv`) the copy carries what the store does, which gives `CountersAgree`.
`Caused` says, of the repository's agents, what has to be so when a node failed,
was stopped, or has its fallback awaited, and that a first failure is followed by
a recovery no later than the success of the last node. `CInv` has `Attempted` and
`Caused` for the store and the copies. `Effect` names
the six things a step within a node can do to a run; that every step does one of
them (`NodeProgressMove`) is shown once, for both accounts.
`InputsReady` needs of the invariant that a node is skipped only where its
condition fails (`SkipsDue`): what an agent reads is upstream of it and done, and
none of it can have been skipped.

**How long a request lasts** (`RunOutcomeProofs`). `Left` is what remains of a
request, in three numbers of falling weight: the nodes that no pass has taken up
(and whether this one has taken any), the stages of the pass, and within a stage
the nodes to scan or the awaits that the batch may still make. Every step lowers
the first of them that it changes. A pass that got somewhere has taken up a node,
which is why another may follow; one that did not goes back, so `StagesLeft` needs
no room for it. The awaits fall because an attempt is made after each pause and a
fallback is asked once: that takes the budgets of `BInv` and the phases of `CInv`.
`LInv` adds where the scan is, and that a node which the batch is done with is
pending no more, or the next pass would take it up again. As the order on triples
of numbers is well-founded, a request that keeps making steps returns; that it
does make the next one is the fairness that TLC's `RequestsReturn` assumes.

**Sums** (`RunProofs`). Induction over the set would need the induction theorem
of the library, which takes a predicate as a parameter. Instead, of the finite
sets for which a claim fails one holds no other (`SmallestSet`, from the
well-foundedness of inclusion), and the claim is shown of that one from its
proper subsets. This gives that the fold of the library is defined
(`SumsUpExists`), that any element can be split off (`SumElement`), and what a sum
does when one number changes (`SumChange`) or grows (`SumGrows`).

**From one save to the next** (`SingleRequestProofs`). The invariant `SInv` says
that the copy of the request at work extends what is stored (`Extends`): it has
undone nothing that was accepted, answered no gate, and taken nothing back in its
books (`Grown`); and that an answered gate is decided (`Decided`). `SInvNext` gives with it the five things a step can make of a
stored run (`StoreStep`): nothing, a new run, an extension, a decision, a new
plan. The theorems follow from that case by case, with another look at the
actions only for `MetricsNeverShrink`, which needs that a step saves one run at
most (`OneSaved`), so that what is stored stays finite (`FInv`) and the sums can be
compared; `LifecycleFollowed` maps the cases to the actions of `RunLifecycle`,
and uses `EndExplained` and `GatesDecided` where a completed run must have passed
the unconditional gates.

**The store** (`WorkflowStoreProofs`). The invariant ties the lock to where the
threads are (`LockOwned`), so that two of them are never both between the read
and the release (`OneOwner`): what one has read is then still in the file when it
renames (`SavesMerge`), whatever is left in the temporary file by a call that
failed. `StoreAtomic` shows that each step is a step of `AtomicStore` or none.

**The rate limiter.** The invariant adds to the properties that a thread waits
no longer than `MaxDelay` (`Waits`) and that stamps are out of order by no more
(`StampsOrdered`): what the loop leaves behind a later stamp is then older than
the window by at most that, which is where the delay in `WindowBound` and
`NoEarlyRefusal` comes from.

**The URL service.** The invariant says what a request knows at each statement
(`Session`): its copy of the row may miss a disable and nothing else, and what
was over when it began is refused. It is stable because the tables only grow
(`Grows`, `SessionStable`). `Late` counts, for a disabled code, the clicks it
got since and the requests that have passed the test and not yet committed:
together fewer than the threads, as the thread that disabled it is not one of
them (`UpdateStep`), and no later lookup adds one (`FoundStep`).

**Only model-checked**: liveness under fairness (`RequestsReturn`, `RunsSettle`,
`ScriptedRunsEnd`, `LockComesFree`, `Terminates`), which the prover cannot reach:
it would have to show that steps are enabled. Of `RequestsReturn` the other half,
that the steps of a request are finitely many, is `RequestsGetShorter`.
Every other property of a passing run is the statement of a theorem.

## 5. Disagreements with the documentation

| Run | Says | Does |
|---|---|---|
| `lost_replan` | `README.md`: replanning "invalidates affected downstream work" | a request that awaits a batch of the run saves its old copy over the replan |
| `restart` | `docs/architecture.md`: "restartable from persisted state" | nothing resumes a stored run that is RUNNING |
| `decisions` | `docs/architecture.md`: "invalidates downstream decisions" | decisions of the old plan stay |
| `fallback_scan` | `docs/architecture.md`: "Policy scanning runs before the artifact is accepted" | not for the artifact of a fallback |
| `recovery` | `docs/architecture.md`: recovery is "when a failed attempt later succeeds" | any node's next success counts |

## 6. Plan

1. *(done)* The orchestrator: `WorkflowGraph`, `RunSteps`, `Orchestrator`, its
   properties, refinement and theorems.
2. *(done)* `RateLimiter` and its theorems.
3. *(done)* `UrlService` and its theorems.
4. *(done)* `WorkflowStore`: the file level of `save`, with the temporary file,
   the lock, calls that fail and a crash between two of them, implementing the
   atomic store that `Orchestrator` uses.
5. *(done)* `StoreAnswersRequests`, `EndsForCause`, `ExclusiveUnlessReplanned` for
   any number of requests; the refinement of `RunLifecycle` for one at a time.
6. *(done)* The attempts and the fallback within their budgets (`BudgetsKept`) and
   the sums over them (`CountersKept`, `MetricsKept`) for every graph, the counters
   exactly.
7. *(done)* What the repository's own agents read and cause, for any inputs.
8. *(done)* That the steps of a request come to an end, for every graph.

## 7. Not modelled

* The audit trail, which is written and never read; ids, texts, `context`.
* A machine that loses its power, and two processes over one file: the store does
  not `fsync`, and its comment claims a single process.
* The patterns of `policies.py`: abstracted to whether the requirement holds
  secret material.
* `security.py`: functions from text to text. The route tests of `main.py`, status
  codes, the validation of bodies in `schemas.py` and `config.py` keep no state.
  An alias such as `docs` is accepted, but its short URL leads to a page of the
  framework, as the route of the codes is matched last: a table that does not
  change, so nothing to check here.
* An approval carries no plan version, so a decision taken over one plan counts for
  the next if a replan comes in between and the gate waits again. No state tells
  such a decision from another; `GateHonoured` says under which plan it was
  recorded.
* Of `scripts/run_scenarios.py`, that it stops after two approvals and what it
  writes.
* `disable` called twice at once sets `disabled_at` twice, and the later time
  stays: `tests/test_service.py` calls it idempotent, which holds of what its answer
  shows, and of whether the code is disabled (`RecordsLast`), not of the time.
