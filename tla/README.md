# A TLA+ verification of agent-loop

agent-loop runs workflows of LLM agents: a process takes runs over HTTP, executes
their stages, lets agents call tools, asks people for approval, and keeps what
happened in a store that several processes share. This directory models the parts
of it whose correctness depends on the order of things: several processes and
goroutines at once, crashes, leases, timeouts, lost notifications, limits.

- `X.tla` is a component, `MCX.tla` gives its constants names for TLC, `*.cfg` is an
  instance, `XProofs.tla` holds theorems checked by TLAPS.
- `PROJECT.json` lists the runs, the code each definition translates (`map`), a
  mutant of the code for every property, the hazards and the theorems.
- Check a run with `tlc -workers 2 -config C.cfg MCX`, a proof with `tlapm XProofs.tla`.

## 1. Inventory

Sources are under `src/`; `O` is `runtime/orchestrator.go`.

| Component | State | Operations | What is hard | Correct when |
|---|---|---|---|---|
| Run ownership (O, `store`) | a row per run (status, owner, lease, cancel request); per process the registry `runs`, contexts, keepLease goroutines | StartRun, Resume, Recover, Cancel, cancelPaused, execute, keepLease, Shutdown | several processes, crashes, stalls, failing store calls, races of all of these | one executor; every run ends; final is final; a cancellation is carried out |
| Workflow scheduler (`runtime/workflow.go`) | per stage pending/running/done, hand-backs, feedback, outputs | start ready stages, receive a result, hand back, reset, return | results in any order, hand-backs while others run, an unlocked slice | stages see current inputs; no goroutine left behind; returns |
| Event log and streams (`store`, `store/pg`, `api/server.go`) | events by sequence, subscriptions, the LISTEN connection | Append, Subscribe, notify, streamEvents | commits after allocation, lost notifications, reconnects, full channels | every event once, in order, no gap, in the end |
| Approvals and questions (O, `runtime/chat.go`) | approvals with one decision each, the run's status | awaitApproval, resolve, PostMessage, expire, cancel | deadline against late answer on two clocks, two answers for one question, lost processes | everybody acts on the one stored decision; waiters return |
| Concurrency limits (`policy/concurrency.go`) | a semaphore for every key in use | Acquire, release, leave | a key forgotten while others look it up | no more holders than the limit; nothing remembered in vain |
| Admission (O) | inflight counter, slots of process, tenant, workflow, agent, tool | admit, acquireRunSlots, queueAndExecute, Shutdown | cancellation at every wait, shutdown while admitting, nested waits | limits hold, nothing leaks, no lock-out, shutdown drains |
| Parallel stages (O 1044-1129, `runtime/workflow.go`) | results so far, failures, quorum, gates | run agents under a concurrency bound, collect, cancel the rest, approve | results in any order, a stage given up while agents run | the policy decides whatever the order; the stage ends |
| Agent tasks, delegation (O) | tasks and attempts, outputs to reuse | run, retry, reconcile after a restart, delegate | reuse after a crash, identical tasks side by side | an output is used by one worker; no step is completed twice; tasks are reserved |
| Tool calls and budgets (O, `policy/policy.go`) | reservations, spending | plan, reserve, approve, dispatch, invoke, retry, commit, release | partial failure, parallel groups, concurrent reservation at the limit | nothing runs unreserved or unapproved; serial calls run alone; no call outlives its group |
| Cost gate (O 1649-1703) | one asker for all callers | checkCost | the asker's context ends first | asked once, nobody passes unasked |
| Loop detector (`policy/loop.go`) | windows of calls, replies, retries | observe, forget | runs side by side | |
| Idempotent start (O 248-341, `runtime/chat.go`) | the unique key | StartRun, PostMessage with a run | two starts with one key, the message stored first | one run for a key, for ever |
| Session history (`runtime/compaction.go`) | messages by time stamp, snapshots among them | read, summarise, store | two runs of one session, stamps taken before commits | no message lost from history or counted twice |
| Retention (`store/retention.go`, `store/pg/retention.go`) | sessions, their last activity | pick, lock, read again, delete | runs and messages that arrive meanwhile | only idle sessions go, and all of them |
| Replay, re-execution (`runtime/reexecute.go`) | recorded answers per request | answer from the record | agents of the copy ask in another order | the copy ends like its run |
| MCP client (`tool/mcp/mcp.go`) | connection, breaker, tool list, registry | call, reconnect, retry, resync | a connection dropped under another call, a change while listing | one connection; no unsafe retry; the registry does not stay stale unnoticed; it recovers |
| Model retry (`model/retry.go`) | attempts | call | | bounded attempts |
| Policy, access, memory, configuration, observability, sealing, migrations | little or none | | mostly sequential or a single statement | |

How they interact: the API calls the orchestrator (StartRun, Resume, Cancel,
PostMessage) and the store; `createRun` and `resume` admit a run, take its lease and
`launch` it; `queueAndExecute` waits for slots and calls `execute`, which runs the
scheduler, whose stages call models and tools, which wait for semaphores, budgets and
approvals. Processes meet only in the store. Everything writes events, which
`streamEvents` delivers. `PROJECT.json` "hazards" lists where each of these bites.

## 2. Modules

**RunOwnership** follows one run and all processes. A step is one store call or one
critical section of `Orchestrator.mu`: `CreateRun`/`LaunchRun` (StartRun),
`RecoverList` and `Resume*` (Recover, Resume), `Exec*` (queueAndExecute, execute),
`Renew*` (keepLease), `Cancel*` (Cancel, cancelPaused), `Shutdown`/`StopRuns`/`Exit`,
`Crash`/`Restart`, `Tick`. `status`, `owner`, `leaseLeft`, `cancelRequested` are the
row; `reg` is the registry, `cause` the run context's cancellation cause, `asks` the
calls of `resume` that have read the row and not yet come to the registry: Recover's and
a human's of one process overlap, and the registry lets one of them in. Time is
relative: a tick is a third of a lease, the period of keepLease. `Stall` says how far
live processes may fall behind the clock (none, short, any), because every guarantee
of a lease depends on it; `CreateWindow` says whether Recover or Resume may meet a run
its own process is still creating (the counterexample FindCreateRace needs it).

**StageGraph** is `compileWorkflow`'s checks of the plan and `runStages`. `Init`
chooses every plan the checks accept. An output is the number of completions of its
stage, a feedback text the number of hand-backs, so that "current" can be said.

**EventFeed** is what a stream promises, **EventStream** the code: `MemAppend`, or
`allocSequence`, `Commit`, `Rollback` of concurrent transactions; `Listen`, `wakeAll`,
`Notified`, `ListenLost`; the goroutine of pg's Subscribe; `streamEvents` with its
history, subscription and live loop; a client that reconnects with its last id.
`queryEvents` and `ListRunEvents` do not look at `rows.Err()`, so a query whose
connection breaks while it reads returns what it has read, or nothing, and no error
(`QueryEndsEarly`; `History` reads a prefix likewise). Subscribe has consumed its
wake-up by then, so `Rechecks`, its ticker, is what finds the rest; an error that
`queryEvents` does report closes the subscription (`QueryFails`), and the client
reconnects.
`driver` is chosen at the start, so one run checks both stores.

**Approvals** has the waiters in `awaitApproval` and `closeApproval`, the store's
`ResolveApproval`, people, messages in `PostMessage` and `openQuestion`, and the loss
and takeover of an execution. `late` is the store's clock, `fired` the process's.

**Semaphores** is `policy/concurrency.go` at the grain of its mutex and of its
channel; `Sems` are the `*semaphore` values a key has over time. **Admission** extends
it: each call of Acquire by a run or by one of its model calls and tools is a call of
Semaphores, in the order `acquireRunSlots` makes them.

**Budget** is `policy.BudgetManager` of one run, an operator for each critical section.
**AgentLoop** extends it with the run's agent tasks: `runTask` and its attempts,
`agentLoop`, `modelCall` with the cost gate (`checkCost`, `CostAnswered`), and
`runToolCalls` (`ReserveToolCalls`, `Observe`, `Plan*`, `ToolAnswered`, `Dispatch*`,
`Join`) with `invokeTool` and `executeWithRetries` for each call (`callStep`). Tasks
meet in the budget, in the loop detector and at the gate. A step takes one lock; what a
model, a tool or a human answers is a choice. `ended` tells an attempt's own timeout,
which a retry outlives, from the end of the run. `history` only counts, for the
properties: attempts, executions, calls of each tool, and model calls past the
threshold without approval.

**StageTasks** is the inside of a stage: `stageGate` before and after it,
`StartsParallel` and `StartsSequential`, a worker for each step and for a task it may
delegate (`Slot`, `Takes`, `Creates`, `Asks`, `Completes`, `Rejects`, `Fails`,
`BackoffEnds`), `Collects` and `Finishes` of runParallelStage, `ContextEnds` (stage
timeout, stop), `Crashes`, `Resumes` with `reconcileTasks`, and `ReExecutes`, which
turns the finished run into its copy. A response of the model is its number among
those of its key, a key the stage, agent and prompt by which tasks are reused and
requests matched. The plans (policy, keys, children, quorum, attempts, gates) are
a constant, and Init chooses one of them.

**SessionStore** holds the sessions, messages, runs and idempotency keys of both
stores, and the purge (`PurgeMemory`, or `PurgePicks`, `PurgeLocks`, `PurgeChecks`,
`PurgeDeletes` of a transaction). **Conversations** extends it with the requests
(`startRun`, `postMessage`): prepareRun, createRun, PostMessage, the history a run
reads, the snapshot it writes, its replies, its end and its resumption. A message is its
time stamp; `covers` and `through` say what a snapshot summarises. `Lists` is
ListMessages: pg's may end early without an error, so a history may lack its last
messages; a compaction then summarises less and forgets nothing. **KeyedStarts** is
the abstract promise: a key stands for one run for ever, and every answer names it.

**McpClient** has two mutexes in the code and so two kinds of steps: calls (`Begins`,
`Connects`, `CannotConnect`, `Answered`, `Lost`, `Drops`, `Fails`) and syncs
(`SyncBegins`, `SyncConnects`, `SyncLists`, `SyncFails`, `SyncApplies`), which share
`session`, `failures`, `open` and the registry. The server stops, starts, breaks
connections and changes its tools on its own.

## 3. Runs

| Run | Instance | Checks |
|---|---|---|
| OwnershipErrors | two processes, up to four failing store calls, no stalls | OwnedWhenServed: keepLease gives up before the lease can be taken |
| OwnershipSingle | one process, every operation at once, two failures, a restart, any stall | LocalExclusion, FinalIsFinal |
| OwnershipLive | two processes, one may crash or shut down, the other recovers and cancels; short stalls | OwnedWhileActing: whoever executes or writes the row under a claim owns it; RunEnds, CancelHonoured |
| Stages | every valid plan of three stages, one hand-back per target | InputsCurrent, FeedbackCurrent, NoStageLeaks, SuccessIsComplete, Terminates |
| Streams | both stores, two writers, four events, two faults (a lost notification or connection, a query that fails or ends early), a channel of two (pg) | ImplementsFeed: EventStream refines EventFeed, safety and liveness |
| ApprovalRaces | one question, two messages, a person, a takeover, one failure, differing clocks | ActsOnStored, AnswersTheirs, OpenIsAwaited, WaiterReturns, AnswerReachesAgent |
| Admissions | three runs, one endless, one resumed, two canceled, two of one workflow; overload, shutdown | KeyBounded, KeysInUse, WorkBounded, NothingLeaks, EveryRunEnds |
| AgentTasks | two tasks, groups of a read (parallel, retried) and a write (serial, approved), two attempts, one fault, cancellation, LoopResponse approve; every limit within reach | BudgetsHold (ReservedFirst, SubAgentsCounted, ToolBudgetsHold), HumanAskedFirst, GroupInOrder (SerialAlone, ApprovedFirst) |
| AgentTasksLive | two tasks, a delegation beside a read, a tool the agent lacks, timeouts, LoopResponse pause | NoStragglers, EveryTaskEnds |
| Conversations | both stores, one session, three requests, two of one key and one a message; a purge, a crash, a resumption | HistoryKept (NothingForgotten, CountsCovered), PurgesIdle, NoOrphans, KeysStandForOneRun: Conversations refines KeyedStarts |
| McpClient | a call of a read-only tool and one of a dangerous tool, one retry, a breaker of two, two faults, one change of tools, Close | OneConnection, StaleIsNoticed, RetriedIfSafe, Recovers |
| StageTasks | every failure policy, a sequential stage, gates, retries, a delegated task; one fault, one restart, a copy | PolicyDecides, TasksReserved, ReusedOnce (OutputsOwned, CompletedOnce), CopyEndsAlike, StageEnds |

Every component module has a type invariant `TypeOK`. For RunOwnership, StageGraph,
StageTasks, Admission, AgentLoop, Conversations and McpClient it is a theorem; for the
others it is not among the runs' properties, and adding `INVARIANT TypeOK` to a run's
configuration checks it on the same instance.

Why the bounds are enough. Ownership relates a holder and a taker, so two processes
show every conflict, and the theorems have any number. A lease of three ticks is the
code's own ratio. Errors: four let both processes fail a renewal and a claim. A stage
needs an ancestor, itself and an independent or later stage for hand-backs to collide:
three. Four events with two faults allow an event before, during and after each of a
lost notification and a reconnect; the pg channel is smaller than the backlog, so it
blocks. For approvals two answers, a person and a timeout already race for one
question; more questions are covered by the theorems. For slots, three runs let one
hold, one wait and one arrive. They contend for a workflow; the tenant's limit is off
in the run, and WorkStaysBounded proves it for every number. (Set to one, or to two with
all runs in one tenant, the run passes as well.) Two tasks are an asker and a waiter at the cost gate;
the limits (three model calls, three tool calls, three sub-agents, one write) are each
less than the tasks may ask for together, so every reservation is refused somewhere.
Two steps with one key, a third with another and four sub-agents let a stage reuse one
of two equal outputs, starve, or reach and lose a quorum; MaxConcurrent is two, so
that a step waits. Two runs that reply and one that only posts suffice for two
snapshots to cross a message. Two MCP calls are one that drops a connection and one
that uses it; two faults reach the breaker's limit.

Deadlock is checked where the program should never stop (ownership, stages). The
others may end: all runs done, all messages posted.

## 4. What the model found

The passing runs exclude by their constants what the following configurations show.
They are kept beside the runs, and each ends in a counterexample. So a passing property
says no more than its instance: FinalIsFinal speaks of one process, since a resume that
read its row before another process finished the run breaks it between two
(FindStaleResume); OwnedWhileActing is without the create window and without store
calls that fail (FindCreateRace, FindUnfencedFinal); RunEnds has a reliable store
(FindKeptRun); CancelHonoured is about runs that go on or are recovered, and not about
one that pauses when the request is stored (FindCancelLost); NothingForgotten leaves out
messages stamped before a snapshot and stored after it, and those of the run that
compacts, so the promise of `docs/01-domain-model.md` that nothing is lost fails for
these (FindForgotten). TasksReserved is about stages in which no delegated task has the
key of a step (FindUnreserved), ReusedOnce lets a step that is also
delegated be completed again, and CopyEndsAlike is about the copy of an undisturbed run
without gates whose tasks have different keys (FindCopyDiffers).

| Configuration | Property | What happens |
|---|---|---|
| FindCreateRace | OwnedWhileActing | `createRun` stores the run before it claims it in its own process; Recover of that process may execute it in between, and `createRun` then executes it again without the lease |
| FindStaleResume | FinalIsFinal | `resume` reads the row before it claims the lease and goes by what it read, so a run another process finished in between is started again, although succeeded and canceled runs are documented as final |
| FindPausedReopened | PausedLeftToHuman | Recover goes by its list and reopens a run that has paused since |
| FindCancelLost | CancelHonoured | a recorded cancellation of a run that then pauses is never carried out |
| FindUnfencedFinal | FinalFenced | `stillLeased` answers yes on an error |
| FindKeptRun | RunEnds | after a failed final write the registry keeps the run, and a lone process never recovers it |
| FindSlowStart | OwnedWhenServed | keepLease counts from its start, not from the claim |
| FindStreamGap | NoGap | the memory store drops an event when a subscription's channel is full and the stream goes on, so Last-Event-ID passes what the client never got |
| FindStreamClosed | ResumedStaysOpen | the live loop closes at a terminal event although the resumed run's events are in its channel |
| FindWaitingShown | WaitingShown | the first of two approvals resolved shows the run as running |
| FindNotOldest | OldestAnswered | openQuestion lists run after run and can pass over an older question |
| FindToolBudgetKept | OnlyRunsCount | when an approval ends with an error `runToolCalls` returns without ReleaseTool, so a retried task finds the tool's budget used by calls that never ran |
| FindForgotten | NeverForgotten | a message stamped before a snapshot's last one and stored after it, or written by the run that compacts, is in no later history |
| FindPurgedResume | PurgesIdle | between the second read of a purge and its deletes a failed run is resumed: `resume` writes the run's row, which the purge does not lock, and the purge deletes the run and its session |
| FindUnreserved | TasksReserved | a delegated task shares its key with a step; after a restart the delegation takes the output that the step was counted to reuse, and the step is executed although nothing was reserved for it |
| FindCopyDiffers | CopyEndsAlike | the events of a resumed run record an answer to a lost attempt as well, so the copy's request gets that one |

Smaller disagreements met while modelling, which no property states. A canceled or
timed-out MCP call drops the session that others use and counts toward the breaker,
although `break_after` is documented as consecutive connection failures; a sync the
server does not answer is not tried again, so the registry stays stale until the next
notification or reconnect. `stageGate` does not look at `skipApprovals`: the copy of a
run with gated stages asks a human again, although ReExecute's comment says that
approvals are not asked again.

## 5. Fairness

Goroutines that can run do run, tickers fire and clocks advance, so local steps,
renewals, ticks and deadlines are weakly fair. Of Subscribe's recheck ticker the run
assumes only that it fires after a query that ended early: no other event needs it. People, messages, crashes, faults and
shutdowns are never assumed. A run's own work is not fair (a workflow may take as long
as it likes) except through `Deadlines`, the MaxRuntime every run has, which only
RunEnds assumes. A Go channel serves blocked senders in order, so a run or call
waiting for a slot that becomes free again and again gets it: strong fairness of
`Gets` and of waiting calls, and of a run's end, which its parallel calls interrupt.
The SSE client reads and reconnects as EventSource does. In AgentLoop the goroutine of
a task and that of each call are weakly fair, the end of an awaited approval included:
ApprovalTimeout, or the run's MaxRuntime, ends it if no human does. In StageTasks the
stage and its workers together are weakly fair, and nothing is assumed of gates,
resumptions and copies: StageEnds speaks of a stage past its first gate. In McpClient
every call and the sync are weakly fair goroutines with a timeout each, the circuit
closes by its clock, and a stopped server comes up again; faults are bounded, which
is what "once the faults are over" means in Recovers. Conversations has safety
properties only.

## 6. Proofs

Each holds for every value of the constants that satisfies the module's named ASSUME,
which TLC evaluates in every run.

- **RunOwnershipProofs**. `TypeCorrect`; `LocalExclusionHolds` (inductive with the
  types, and with any number of resumes of one process before the registry).
  `OwnershipHolds` and `SoleExecutor` assume `Calm`: no failing store call, no
  create window, stalls within the lease's slack and a lease of at least two ticks.
  The invariant `LeaseInv` adds to OwnedWhileActing how much lease is left for every
  holder, by what it is doing and whether its tick was served: without it a tick could
  let a lease run out under its executor. `ServedOwns` has failing store calls but
  processes that keep up (`Punctual`); `Served` relates the lease that is left to the
  time since the last renewal that succeeded. `FinalForOneProcess` is FinalIsFinal for
  one process, whatever stalls, fails or crashes (`Alone`): the registry keeps a resume
  from a run that is being closed. FindSlowStart, FindStaleResume and FindCreateRace are
  counterexamples without these conditions.
- **StageGraphProofs**. `StageTypes`, `InputsStayCurrent`, `FeedbackStaysCurrent`,
  `NoStageLeak`, `NoRejectedOutput`, `SuccessCompletes`. `StageInv` says that a stage
  that is not pending has only finished stages behind it, that what is running is what
  is live, and that resets are targets with no running descendants; the closure lemmas
  show that descendants and ancestors are dual, which lets a reset stage take all
  consumers of its output with it. For SuccessCompletes a stage's closure shrinks along
  every edge of an acyclic plan (`ClosureShrinks`), so among the pending stages one has
  all its dependencies done (`SomebodyIsFirst`), and a pass would have started it.
- **StageTasksProofs**. `TypeCorrect`, `PolicyHolds`, `OutputsReusedOnce`,
  `ReservedFirst`, `CopiesEndAlike`. `TaskInv` says what the place of a worker means: who
  has asked refers to a response of its key, who has created holds a task that is running and that nobody
  else holds, a child moves only while its step delegates, and the channel has each
  finished step once. `PolicyInv` relates what was collected to what was lost: failures
  counted are those of finished steps whose results have left the channel, and a stage
  that goes on has not yet lost what its policy needs (`Counted`, `GoesOn`, `GaveUp`,
  `Concluded`), which makes the verdict independent of the order of the results.
  `OnceInv` says that outputs held, outputs left for reuse and tasks still running are
  all different tasks; so no output is held twice and no key is completed more often
  than there are steps for it. `ReserveInv` counts: the tasks stored, the reservations of
  workers about to create and the steps of a set that have not begun are together at
  most `subAgents`, and every other waiting step has an output of its key left; `Ranks`
  shows that a stage that starts can choose such a set of the size of toRun.
  ReservedFirst assumes `Unshared`, that no delegated task has the key of a step:
  FindUnreserved breaks it otherwise.
  CopiesEndAlike relates two executions through the responses that the first one left in
  the log. `RunStep` says what a step of a run leaves: at most one response for an
  attempt, of which only the last can be good, and then the step holds it; after one that
  runs into a loop the step asks no more. `CopyStep` says how a copy walks along them:
  while responses are left, the next one belongs to the attempt that asks. So a step that
  is not canceled fails only if its run had no good response for it, or for want of
  sub-agents (`FailsRight`), and it has the run's output otherwise; `ChildOK` carries a
  delegated task's loop to the step that delegates. Both verdicts are then what the policy
  makes of the log (`LogMet`), in whatever order the agents ask. The theorem assumes
  `~CopyAll`: only runs that no crash or cancellation disturbed, that had room for their
  sub-agents, without gates and whose tasks have different keys are copied.
  FindCopyDiffers shows what happens to others.
- **ApprovalsProofs**. `WaitersActOnStored`, `MessagesAnswerTheirs`,
  `DecisionsAreFinal`, by `ApprovalInv`: who waits has asked, who has closed finds a
  decision, what a message picked is a question. `ApprovalsAreAwaited` adds OpenIsAwaited
  itself, which is inductive on top of it.
- **AdmissionProofs**. Of Semaphores: `KeysStayBounded`, `KeysForgotten`, by `SemInv`:
  `users` counts exactly the calls that refer to a semaphore, its channel holds one value
  for each holder, and all calls of a key refer to the semaphore in the map. Of
  Admission: `AdmissionTypes`, `SlotsRefined` (Admission implements
  Semaphores), `WorkStaysBounded`, `NothingIsLeaked`. `AdmInv` says where each call for a
  slot is by the place of its run and the slot it has come to (`Place`), so that an
  executing run holds all it wants and a run that is done holds nothing, and that
  `inflight` and `active` are the sizes of two sets of runs. WorkBounded then follows by
  mapping the runs that work to their calls for one key, which KeyBounded bounds.
- **AgentLoopProofs**. `AgentTypes`, `BudgetsAreHeld`, `HumanIsAsked`, `GroupsInOrder`,
  `NothingStraggles`, by `LoopInv`. `TaskOK` says where each call of a group may be by
  where its task is and the call it has come to (`Expected`). For the budgets,
  `Reserved` counts with what was executed the calls of all tasks that are reserved and
  still to run (`Open`), and `ToolsReserved` those planned or started against a tool's
  budgets (`Booked`): a group releases, a refusal gives back and a retry adds exactly
  what leaves or joins these sets, which ReservedFirst alone does not say, so it is not
  inductive. `TotalChange` reduces a sum over all tasks to the one that moves. An
  approval that ends with an error keeps its tools' reservations
  (FindToolBudgetKept), so the tools' part is an inequality. `Gated` adds that a task
  counted past the threshold comes to its reservation again only with an approval.
  `BuiltinAssumption`, that a built-in has no budgets, is how runToolCalls plans one
  (without `budgets`); otherwise the constants are only typed.
- **ConversationsProofs**. `ConversationTypes`, `HistoryIsKept`, `NothingOutlives`,
  `RunsHaveSessions`, `PurgeIsSafe`, and `KeysRefined`, the refinement of KeyedStarts.
  `ConvInv`: time stamps differ, a snapshot counts exactly the messages it covers and
  leaves out no message before its last one that a later history needs (`Told`), and what
  PostgreSQL stores belongs to a stored session. NoOrphans and PurgesIdle
  assume `~ResumeFailed`: that no failed run is resumed while a purge deletes, which
  FindPurgedResume shows to break them; `PurgeInv` then carries what a purge has read to
  its deletes.
- **McpClientProofs**. `McpTypes`, `SharedConnection`, `RetriesAreSafe`,
  `RegistryFollows`, by `McpInv`: the registry has exactly the tools the client
  remembers as its own, a sync that reads an old connection or holds an old list is
  followed by another one (`Followed`), and a call sends at most once in a round and
  has no more rounds than its hints allow (`OncePerRound`).

Only model-checked: everything about fairness (RunEnds, CancelHonoured, Terminates,
WaiterReturns, AnswerReachesAgent, EveryRunEnds, EveryTaskEnds, StageEnds, Recovers),
because liveness and ENABLED are outside the prover's reach; and the refinement of
EventFeed, whose mapping counts in sequences and whose specification states fairness.

## 7. Limits of the models

- RunOwnership: one Cancel per process at a time; one approval at a time; a failed
  store call has no effect (a write that succeeds and reports an error is not
  modelled); in a process Recover's call of `resume` and a human's may
  overlap, two humans' not.
- Approvals: a lost execution and its successor share the waiters; a run's final write
  waits for all of them.
- EventStream: one client and one run; reply deltas, which are not stored, are left
  out.
- Admission: `inflight` and its WaitGroup are one counter; limits are fixed per key.
- StageGraph: what a stage does inside is one step; StageTasks follows one stage, so
  hand-backs, which run a stage twice, are in StageGraph only.
- AgentLoop: a delegation is a call with any result; a fresh execution has no outputs
  to reuse; compactTask, which calls a model itself, is left out; whether rejected
  answers are alike is a choice; tokens count as cost; the slots of agents and tools
  are Admission's.
- StageTasks: a task has one exchange with the model and delegates at most one task;
  a restart follows a crash, so an owner that lost its lease and still completes tasks
  is left to RunOwnership; a copy is assumed undisturbed and to read all events of its
  run; tool calls of a copy and copyHistory are left out. `failTask`'s write may fail: its
  error is only logged, and the task stays running.
- Conversations: MaxHistoryMessages, which cuts the history without a snapshot, and
  equal time stamps are left out; one purge at a time.
- McpClient: one server, one sync waiting at a time as in the code; timeouts are
  losses of the call.

Not modelled, and why, is in `PROJECT.json` "components": adapters of external
services, formatting, configuration, metrics, encryption and migrations carry no state
that the properties could be about.

## 8. Plan

The parts whose correctness depends on the order of things are modelled. What is left
to prove is the safety part of the refinement of EventFeed: every invariant that a run
checks is stated by a theorem.

Models that would still add something, each small: reply deltas and their order with
stored events, and the idle watch of model streams.
