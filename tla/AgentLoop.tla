----------------------------- MODULE AgentLoop ------------------------------
(***************************************************************************)
(* Agent tasks of one run that execute side by side                        *)
(* (runtime/orchestrator.go runTask, attemptTask, agentLoop, modelCall,    *)
(* checkCost, runToolCalls, invokeTool, executeWithRetries and onLoop).    *)
(* They share the run's budget, the loop detector and the cost gate.  How  *)
(* an approval is awaited is module Approvals; here it ends approved, not  *)
(* approved (rejected or expired) or with an error.                        *)
(***************************************************************************)
EXTENDS Budget, Sequences

CONSTANTS
    Tasks, Nobody,
    Kind,           \* what a requested call is: its tool and the tool's definition
    Groups,         \* the sequences of calls its model may ask for, per task
    ModelCosts,     \* what a model call may cost
    Results,        \* what an execution of a tool may return
    ApproveAbove,   \* Orchestrator.ApproveAbove; zero never asks
    LoopResponse,   \* "fail", "pause" or "approve"
    Threshold,      \* identical tool calls that are a loop
    RetryStorm,     \* retries that are a storm; zero never is
    MaxToolLoops,   \* Agent.MaxToolLoops, per task
    MaxAttempts,    \* RetryPolicy.MaxAttempts of its stage, per task
    ToolAttempts,   \* ToolRetry.MaxAttempts
    MaxParallel,    \* Limits.MaxConcurrent
    TimesOut,       \* bound: the tasks whose agent has a timeout that passes
    Canceled,       \* bound: the tasks whose run or stage is canceled
    MaxFaults       \* bound: how often a store or a provider fails

Kinds == DOMAIN Kind

ASSUME AgentLoopAssumption ==
    /\ Nobody \notin Tasks /\ IsFiniteSet(Tasks)
    /\ Kind \in [Kinds -> [tool : Tools, builtin : BOOLEAN, known : BOOLEAN,
                           valid : BOOLEAN, approve : BOOLEAN, parallel : BOOLEAN,
                           retry : BOOLEAN]]
    /\ \A t \in Tasks : Groups[t] \subseteq Seq(Kinds) \ {<<>>}
    /\ {MaxToolLoops, MaxAttempts} \subseteq [Tasks -> Nat \ {0}]
    /\ ModelCosts \subseteq Nat
    /\ Results \subseteq [err : {"none", "transient", "other", "final"},
                          cost : Nat, took : Nat]
    /\ LoopResponse \in {"fail", "pause", "approve"}
    /\ {Threshold, ToolAttempts, MaxParallel}
           \subseteq Nat \ {0}
    /\ {ApproveAbove, RetryStorm, MaxFaults} \subseteq Nat
    /\ TimesOut \subseteq Tasks /\ Canceled \subseteq Tasks

(* runToolCalls plans a built-in without budgets.                          *)
ASSUME BuiltinAssumption ==
    \A k \in Kinds : Kind[k].builtin => ToolBudgets[Kind[k].tool] = {}

VARIABLES
    task,      \* per task: where it is, its error, loops left, attempt, position
    ended,     \* per task: did its attempt's or its parent's context end?
    calls,     \* per task: the tool calls of its open group
    gate,      \* costGate: who asks, and the answer
    seen,      \* LoopDetector.counts
    retries,   \* how many times LoopDetector.retries holds
    faults,    \* how often a store or a provider failed
    history    \* what happened, for the properties

shared == <<usage, tools, gate, seen, retries, faults>>
vars == <<bvars, task, ended, calls, gate, seen, retries, faults, history>>

Places == {"new", "create", "loop", "gate", "asking", "reserve", "chat", "replyAsk",
           "tools", "observe", "loopAsk", "plan", "approve", "dispatch", "inline",
           "failed", "stormAsk", "again", "backoff", "done", "error"}
CallStates == {"called", "planned", "refused", "start", "executing", "storm", "retry",
               "backoff", "returned", "commit", "result"}

(* An error is "final" when runTask never retries its like: a limit, a     *)
(* loop, a policy or an unsupported capability.                            *)
Errors == {"none", "retryable", "final"}

Call == [kind : Kinds, st : CallStates, tries : Nat, took : Nat, cost : Nat,
         left : Nat, err : {"none", "transient", "other", "final", "retryable"},
         approved : BOOLEAN]

TypeOK ==
    /\ BudgetTypeOK
    /\ task \in [Tasks -> [pc : Places, err : Errors, loops : Nat, attempt : Nat, idx : Nat]]
    /\ \A t \in Tasks : task[t].loops <= MaxToolLoops[t] /\ task[t].attempt <= MaxAttempts[t]
    /\ ended \in [Tasks -> {"live", "timedOut", "canceled"}]
    /\ \A t \in Tasks : calls[t] \in Seq(Call)
    /\ gate \in [asking : Tasks \cup {Nobody}, answer : {"none", "approved", "denied"}]
    /\ seen \in [Kinds -> Nat] /\ retries \in Nat /\ faults \in 0 .. MaxFaults
    /\ history \in [spawned : Nat, executed : Nat, ran : [Tools -> Nat],
                    over : [Tasks -> Nat]]

Init ==
    /\ BudgetInit
    /\ task = [t \in Tasks |-> [pc |-> "new", err |-> "none", loops |-> 0,
                                attempt |-> 1, idx |-> 1]]
    /\ ended = [t \in Tasks |-> "live"]
    /\ calls = [t \in Tasks |-> <<>>]
    /\ gate = [asking |-> Nobody, answer |-> "none"]
    /\ seen = [k \in Kinds |-> 0] /\ retries = 0 /\ faults = 0
    /\ history = [spawned |-> 0, executed |-> 0, ran |-> [n \in Tools |-> 0],
                  over |-> [t \in Tasks |-> 0]]

At(t, place) == task[t].pc = place
Go(t, place) == task' = [task EXCEPT ![t].pc = place]
Fail(t, e) ==
    task' = [task EXCEPT ![t].pc = "failed", ![t].err = e, ![t].loops = 0, ![t].idx = 1]
Stop(t, place) ==
    task' = [task EXCEPT ![t].pc = place, ![t].err = "none"]

(* A store or a provider fails.                                            *)
Fault == faults < MaxFaults /\ faults' = faults + 1

(* An approval awaited ends with an error when its context ended, or when  *)
(* the store fails.                                                        *)
Awaited(over, outcome) ==
    \/ ~over /\ outcome \in {"approved", "denied"} /\ UNCHANGED faults
    \/ over /\ outcome = "error" /\ UNCHANGED faults
    \/ ~over /\ outcome = "error" /\ Fault

Outcomes == {"approved", "denied", "error"}
Answered(t, outcome) == Awaited(ended[t] # "live", outcome)

-----------------------------------------------------------------------------
(*                          runTask and its attempts                       *)

runTask(t) ==
    /\ At(t, "new")
    /\ \/ Reserve(Amount("subAgents", 1)) /\ Go(t, "create")
       \/ ~CanReserve(Amount("subAgents", 1)) /\ Go(t, "error") /\ UNCHANGED usage
    /\ UNCHANGED <<tools, ended, calls, gate, seen, retries, faults, history>>

CreateTask(t) ==
    /\ At(t, "create")
    /\ task' = [task EXCEPT ![t].pc = "loop", ![t].loops = MaxToolLoops[t]]
    /\ history' = [history EXCEPT !.spawned = @ + 1]
    /\ UNCHANGED <<bvars, ended, calls, gate, seen, retries, faults>>

(* Mutant of CreateFails: the attempt that never was stays counted.        *)
CreateFailsCounted(t) ==
    /\ At(t, "create") /\ Fault
    /\ Fail(t, "retryable")
    /\ UNCHANGED <<bvars, ended, calls, gate, seen, retries, history>>

CreateFails(t) ==
    /\ At(t, "create") /\ Fault
    /\ Release(Amount("subAgents", 1))
    /\ Fail(t, "retryable")
    /\ UNCHANGED <<tools, ended, calls, gate, seen, retries, history>>

(* What an attempt that ends for its own timeout returns is the timeout.   *)
errorOf(t) == IF ended[t] = "timedOut" THEN "retryable" ELSE task[t].err

retriesTask(t) ==
    task[t].attempt < MaxAttempts[t] /\ ended[t] # "canceled" /\ errorOf(t) = "retryable"

(* LoopDetector.ObserveRetry: some of the earlier retries are in the       *)
(* window still.                                                           *)
ObserveRetry ==
    IF RetryStorm = 0 THEN UNCHANGED retries
    ELSE \E recent \in 0 .. retries : retries' = recent + 1

Storm == RetryStorm > 0 /\ retries' >= RetryStorm

AttemptFails(t) ==
    /\ At(t, "failed")
    /\ \/ ~retriesTask(t) /\ Stop(t, "error") /\ UNCHANGED retries
       \/ /\ retriesTask(t)
          /\ ObserveRetry
          /\ Stop(t, IF ~Storm THEN "again"
                     ELSE IF LoopResponse = "approve" THEN "stormAsk" ELSE "error")
    /\ calls' = [calls EXCEPT ![t] = <<>>]
    /\ UNCHANGED <<bvars, ended, gate, seen, faults, history>>

StormAnswered(t) ==
    /\ At(t, "stormAsk")
    /\ \E outcome \in Outcomes :
           /\ Awaited(ended[t] = "canceled", outcome)
           /\ IF outcome = "approved" THEN retries' = 0 /\ Go(t, "again")
              ELSE UNCHANGED retries /\ Go(t, "error")
    /\ UNCHANGED <<bvars, ended, calls, gate, seen, history>>

ReserveAttempt(t) ==
    /\ At(t, "again")
    /\ \/ Reserve(Amount("subAgents", 1)) /\ Go(t, "backoff")
       \/ ~CanReserve(Amount("subAgents", 1)) /\ Go(t, "error") /\ UNCHANGED usage
    /\ UNCHANGED <<tools, ended, calls, gate, seen, retries, faults, history>>

NextAttempt(t) ==
    /\ At(t, "backoff")
    /\ task' = [task EXCEPT ![t].pc = "create", ![t].attempt = @ + 1]
    /\ ended' = [ended EXCEPT ![t] = IF @ = "timedOut" THEN "live" ELSE @]
    /\ UNCHANGED <<shared, calls, history>>

BackoffCanceled(t) ==
    /\ At(t, "backoff") /\ ended[t] = "canceled"
    /\ Release(Amount("subAgents", 1))
    /\ Go(t, "error")
    /\ UNCHANGED <<tools, ended, calls, gate, seen, retries, faults, history>>

-----------------------------------------------------------------------------
(*                     agentLoop, modelCall and checkCost                  *)

(* The provider does not answer, or its model cannot do what is asked.     *)
Capabilities(t) ==
    /\ At(t, "loop") /\ task[t].loops = MaxToolLoops[t] /\ Fault
    /\ \E e \in {"retryable", "final"} : Fail(t, e)
    /\ UNCHANGED <<bvars, gate, seen, retries, ended, calls, history>>

LoopsUsedUp(t) ==
    /\ At(t, "loop") /\ task[t].loops = 0
    /\ Fail(t, "retryable")
    /\ UNCHANGED <<shared, ended, calls, history>>

PastThreshold == ApproveAbove > 0 /\ usage["cost"] > ApproveAbove

(* Mutant of checkCost: who finds another task asking does not wait.       *)
checkCostNoWait(t) ==
    /\ (At(t, "loop") /\ task[t].loops > 0) \/ At(t, "gate")
    /\ \/ ~PastThreshold /\ Go(t, "reserve") /\ UNCHANGED gate
       \/ /\ PastThreshold
          /\ \/ /\ gate.answer = "none" /\ gate.asking = Nobody
                /\ gate' = [gate EXCEPT !.asking = t] /\ Go(t, "asking")
             \/ /\ gate.answer # "none" \/ gate.asking # Nobody
                /\ IF gate.answer = "denied" THEN Fail(t, "final") ELSE Go(t, "reserve")
                /\ UNCHANGED gate
    /\ UNCHANGED <<bvars, ended, calls, seen, retries, faults, history>>

(* The usage is read, then the gate; once past the threshold the usage     *)
(* stays past it, so both reads are one step.  A waiter comes back here    *)
(* each time an asker is done.                                             *)
checkCost(t) ==
    /\ (At(t, "loop") /\ task[t].loops > 0) \/ At(t, "gate")
    /\ \/ ~PastThreshold /\ Go(t, "reserve") /\ UNCHANGED gate
       \/ /\ PastThreshold
          /\ \/ gate.answer = "approved" /\ Go(t, "reserve") /\ UNCHANGED gate
             \/ gate.answer = "denied" /\ Fail(t, "final") /\ UNCHANGED gate
             \/ /\ gate.answer = "none" /\ gate.asking = Nobody
                /\ gate' = [gate EXCEPT !.asking = t] /\ Go(t, "asking")
             \/ /\ gate.answer = "none" /\ gate.asking # Nobody /\ At(t, "loop")
                /\ Go(t, "gate") /\ UNCHANGED gate
    /\ UNCHANGED <<bvars, ended, calls, seen, retries, faults, history>>

GateContextEnds(t) ==
    /\ At(t, "gate") /\ ended[t] # "live"
    /\ Fail(t, "retryable")
    /\ UNCHANGED <<shared, ended, calls, history>>

(* Mutant of CostAnswered: an asker that fails leaves the gate closed.     *)
CostAnsweredKept(t) ==
    /\ At(t, "asking")
    /\ \E outcome \in Outcomes :
           /\ Answered(t, outcome)
           /\ \/ outcome = "error" /\ Fail(t, "retryable") /\ UNCHANGED gate
              \/ /\ outcome # "error"
                 /\ gate' = [asking |-> Nobody, answer |-> outcome]
                 /\ IF outcome = "approved" THEN Go(t, "reserve") ELSE Fail(t, "final")
    /\ UNCHANGED <<bvars, ended, calls, seen, retries, history>>

CostAnswered(t) ==
    /\ At(t, "asking")
    /\ \E outcome \in Outcomes :
           /\ Answered(t, outcome)
           /\ gate' = [asking |-> Nobody,
                          answer |-> IF outcome = "error" THEN "none" ELSE outcome]
           /\ CASE outcome = "approved" -> Go(t, "reserve")
                   [] outcome = "denied" -> Fail(t, "final")
                   [] outcome = "error" -> Fail(t, "retryable")
    /\ UNCHANGED <<bvars, ended, calls, seen, retries, history>>

ReserveModelCall(t) ==
    /\ At(t, "reserve")
    /\ \/ /\ Reserve(Amount("modelCalls", 1))
          /\ history' = [history EXCEPT !.over[t] =
                 @ + (IF PastThreshold /\ gate.answer # "approved" THEN 1 ELSE 0)]
          /\ Go(t, "chat")
       \/ /\ ~CanReserve(Amount("modelCalls", 1))
          /\ Fail(t, "final") /\ UNCHANGED <<usage, history>>
    /\ UNCHANGED <<tools, ended, calls, gate, seen, retries, faults>>

(* The context ends before the agent's slot or the answer, or the provider *)
(* fails.                                                                  *)
ChatFails(t) ==
    /\ At(t, "chat")
    /\ (ended[t] # "live" /\ UNCHANGED faults) \/ Fault
    /\ Fail(t, "retryable")
    /\ UNCHANGED <<bvars, gate, seen, retries, ended, calls, history>>

AtLoop(t) == [task[t] EXCEPT !.pc = "loop", !.loops = @ - 1, !.idx = 1]

Fresh(k) == [kind |-> k, st |-> "called", tries |-> 0, took |-> 0, cost |-> 0,
             left |-> 0, err |-> "none", approved |-> FALSE]

Committed(t, cost) ==
    /\ At(t, "chat")
    /\ Commit(Amount("cost", cost))
    /\ UNCHANGED <<tools, ended, gate, seen, retries, faults, history>>

ChatPastLimit(t) ==
    \E cost \in ModelCosts :
        /\ Committed(t, cost)
        /\ ~checkLimits(usage') /\ Fail(t, "final") /\ UNCHANGED calls

(* completeTask.                                                           *)
ChatAnswers(t) ==
    \E cost \in ModelCosts :
        /\ Committed(t, cost)
        /\ checkLimits(usage') /\ Go(t, "done") /\ UNCHANGED calls

(* The answer does not match the output schema.  Whether the texts are     *)
(* near-identical is the detector's verdict on data.                       *)
AnswerRejected(t) ==
    \E cost \in ModelCosts, stalled \in BOOLEAN :
        /\ Committed(t, cost)
        /\ checkLimits(usage') /\ UNCHANGED calls
        /\ \/ ~stalled /\ task' = [task EXCEPT ![t] = AtLoop(t)]
           \/ stalled /\ LoopResponse = "approve" /\ Go(t, "replyAsk")
           \/ stalled /\ LoopResponse # "approve" /\ Fail(t, "final")

ReplyLoopAnswered(t) ==
    /\ At(t, "replyAsk")
    /\ \E outcome \in Outcomes :
           /\ Answered(t, outcome)
           /\ CASE outcome = "approved" -> task' = [task EXCEPT ![t] = AtLoop(t)]
                [] outcome = "denied" -> Fail(t, "final")
                [] outcome = "error" -> Fail(t, "retryable")
    /\ UNCHANGED <<bvars, gate, seen, retries, ended, calls, history>>

ChatCallsTools(t) ==
    \E cost \in ModelCosts, g \in Groups[t] :
        /\ Committed(t, cost)
        /\ checkLimits(usage') /\ Go(t, "tools")
        /\ calls' = [calls EXCEPT ![t] = [i \in DOMAIN g |-> Fresh(g[i])]]

-----------------------------------------------------------------------------
(*                runToolCalls: plan, approve and dispatch                 *)

ToolOf(c) == Kind[c.kind].tool
Current(t) == calls[t][task[t].idx]
Group(t) == Amount("toolCalls", Len(calls[t]))
Step(t, place) == task' = [task EXCEPT ![t].pc = place, ![t].idx = @ + 1]
Mark(t, i, st) == calls' = [calls EXCEPT ![t][i].st = st]
MarkCurrent(t, st) == Mark(t, task[t].idx, st)

(* What a call sends to the results of its group.                          *)
Answer(t, i, e) ==
    calls' = [calls EXCEPT ![t][i] =
        [Fresh(@.kind) EXCEPT !.st = "result", !.err = e]]

(* The preflight's turn to the next call, or to the approvals.             *)
Planned(t) ==
    IF task[t].idx < Len(calls[t]) THEN Step(t, "observe")
    ELSE task' = [task EXCEPT ![t].pc = "approve", ![t].idx = 1]

ReserveToolCalls(t) ==
    /\ At(t, "tools")
    /\ \/ Reserve(Group(t)) /\ task' = [task EXCEPT ![t].pc = "observe", ![t].idx = 1]
       \/ ~CanReserve(Group(t)) /\ Fail(t, "final") /\ UNCHANGED usage
    /\ UNCHANGED <<tools, ended, calls, gate, seen, retries, faults, history>>

(* The preflight ends with an error: only the run's tool calls are         *)
(* released.                                                               *)
PreflightFails(t, e) == Release(Group(t)) /\ Fail(t, e)

Observe(t) ==
    /\ At(t, "observe")
    /\ seen' = [seen EXCEPT ![Current(t).kind] = @ + 1]
    /\ \/ seen'[Current(t).kind] < Threshold /\ Go(t, "plan") /\ UNCHANGED usage
       \/ /\ seen'[Current(t).kind] >= Threshold
          /\ \/ LoopResponse = "approve" /\ Go(t, "loopAsk") /\ UNCHANGED usage
             \/ LoopResponse # "approve" /\ PreflightFails(t, "final")
    /\ UNCHANGED <<tools, ended, calls, gate, retries, faults, history>>

LoopAnswered(t) ==
    /\ At(t, "loopAsk")
    /\ \E outcome \in Outcomes :
           /\ Answered(t, outcome)
           /\ \/ /\ outcome = "approved"
                 /\ seen' = [seen EXCEPT ![Current(t).kind] = 0]
                 /\ Go(t, "plan") /\ UNCHANGED usage
              \/ /\ outcome # "approved"
                 /\ PreflightFails(t, IF outcome = "denied" THEN "final" ELSE "retryable")
                 /\ UNCHANGED seen
    /\ UNCHANGED <<tools, ended, calls, gate, retries, history>>

PlanBuiltin(t) ==
    /\ At(t, "plan") /\ Kind[Current(t).kind].builtin
    /\ MarkCurrent(t, "planned") /\ Planned(t)
    /\ UNCHANGED <<shared, ended, history>>

Callable(k) == Kind[k].known /\ Kind[k].valid

PlanTool(t) ==
    LET k == Current(t).kind IN
    /\ At(t, "plan") /\ ~Kind[k].builtin
    /\ \/ Callable(k) /\ ReserveTool(Kind[k].tool) /\ MarkCurrent(t, "planned")
       \/ /\ ~Callable(k) \/ ~HasToolBudget(Kind[k].tool)
          /\ MarkCurrent(t, "refused") /\ UNCHANGED tools
    /\ Planned(t)
    /\ UNCHANGED <<usage, ended, gate, seen, retries, faults, history>>

NeedsApproval(c) == c.st = "planned" /\ Kind[c.kind].approve /\ ~Kind[c.kind].builtin

NeedsNoApproval(t) ==
    /\ At(t, "approve")
    /\ \/ /\ task[t].idx <= Len(calls[t]) /\ ~NeedsApproval(Current(t))
          /\ Step(t, "approve")
       \/ /\ task[t].idx > Len(calls[t])
          /\ task' = [task EXCEPT ![t].pc = "dispatch", ![t].idx = 1]
    /\ UNCHANGED <<shared, ended, calls, history>>

(* Mutant of ToolAnswered: a call that is not approved gives its           *)
(* reservation back but stays in the plan.                                 *)
ToolAnsweredPlanned(t) ==
    /\ At(t, "approve") /\ task[t].idx <= Len(calls[t]) /\ NeedsApproval(Current(t))
    /\ \E outcome \in Outcomes :
           /\ Answered(t, outcome)
           /\ \/ /\ outcome = "approved" /\ UNCHANGED tools
                 /\ calls' = [calls EXCEPT ![t][task[t].idx].approved = TRUE]
                 /\ Step(t, "approve")
              \/ /\ outcome = "denied" /\ UNCHANGED calls
                 /\ ReleaseTool(ToolOf(Current(t))) /\ Step(t, "approve")
              \/ outcome = "error" /\ Fail(t, "retryable") /\ UNCHANGED <<tools, calls>>
    /\ UNCHANGED <<usage, ended, gate, seen, retries, history>>

(* An error returns at once and releases nothing.                          *)
ToolAnswered(t) ==
    /\ At(t, "approve") /\ task[t].idx <= Len(calls[t]) /\ NeedsApproval(Current(t))
    /\ \E outcome \in Outcomes :
           /\ Answered(t, outcome)
           /\ \/ /\ outcome = "approved" /\ UNCHANGED tools
                 /\ calls' = [calls EXCEPT ![t][task[t].idx].approved = TRUE]
                 /\ Step(t, "approve")
              \/ /\ outcome = "denied" /\ MarkCurrent(t, "refused")
                 /\ ReleaseTool(ToolOf(Current(t))) /\ Step(t, "approve")
              \/ outcome = "error" /\ Fail(t, "retryable") /\ UNCHANGED <<tools, calls>>
    /\ UNCHANGED <<usage, ended, gate, seen, retries, history>>

InFlight(t) ==
    {i \in DOMAIN calls[t] :
        calls[t][i].st \in {"start", "executing", "storm", "retry", "backoff",
                            "returned", "commit"}}

Dispatching(t, st) ==
    /\ At(t, "dispatch") /\ task[t].idx <= Len(calls[t]) /\ Current(t).st = st
    /\ UNCHANGED <<shared, ended, history>>

(* The model is told that the call was refused.                            *)
DispatchRefused(t) ==
    /\ Dispatching(t, "refused")
    /\ Answer(t, task[t].idx, "none") /\ Step(t, "dispatch")

DispatchParallel(t) ==
    /\ Dispatching(t, "planned") /\ Kind[Current(t).kind].parallel
    /\ \/ /\ Cardinality(InFlight(t)) < MaxParallel
          /\ MarkCurrent(t, "start")
       \/ /\ ended[t] # "live"
          /\ Answer(t, task[t].idx, "retryable")
    /\ Step(t, "dispatch")

(* Mutant of DispatchSerial: it does not wait for the calls before it.     *)
DispatchSerialNow(t) ==
    /\ Dispatching(t, "planned") /\ ~Kind[Current(t).kind].parallel
    /\ MarkCurrent(t, "start") /\ Go(t, "inline")

DispatchSerial(t) ==
    /\ Dispatching(t, "planned") /\ ~Kind[Current(t).kind].parallel
    /\ InFlight(t) = {}
    /\ MarkCurrent(t, "start") /\ Go(t, "inline")

SerialDone(t) ==
    /\ At(t, "inline") /\ Current(t).st = "result"
    /\ Step(t, "dispatch")
    /\ UNCHANGED <<shared, ended, calls, history>>

(* The error of the first call that has one, in the order of the calls.    *)
groupError(t) ==
    LET failing == {i \in DOMAIN calls[t] : calls[t][i].err # "none"}
    IN  IF failing = {} THEN "none" ELSE calls[t][Min(failing)].err

(* Mutant of Join: the group ends with its first result that is an error.  *)
JoinEarly(t) ==
    /\ At(t, "dispatch") /\ task[t].idx > Len(calls[t])
    /\ InFlight(t) = {} \/ \E i \in DOMAIN calls[t] :
                               calls[t][i].st = "result" /\ calls[t][i].err # "none"
    /\ IF groupError(t) = "none" THEN task' = [task EXCEPT ![t] = AtLoop(t)]
       ELSE Fail(t, groupError(t))
    /\ UNCHANGED <<shared, ended, calls, history>>

Join(t) ==
    /\ At(t, "dispatch") /\ task[t].idx > Len(calls[t])
    /\ InFlight(t) = {}
    /\ IF groupError(t) = "none" THEN task' = [task EXCEPT ![t] = AtLoop(t)]
       ELSE Fail(t, groupError(t))
    /\ calls' = [calls EXCEPT ![t] = <<>>]
    /\ UNCHANGED <<shared, ended, history>>

-----------------------------------------------------------------------------
(*                    invokeTool and executeWithRetries                    *)

Is(t, i, st) == i \in DOMAIN calls[t] /\ calls[t][i].st = st
Returns(t, i, e) ==
    calls' = [calls EXCEPT ![t][i].st = "returned", ![t][i].err = e]

(* The context ends while the call waits for a slot of its tool.           *)
SlotFails(t, i) ==
    /\ Is(t, i, "start") /\ ~Kind[calls[t][i].kind].builtin /\ ended[t] # "live"
    /\ Answer(t, i, "retryable")
    /\ UNCHANGED <<shared, task, ended, history>>

Executes(t, i) == [calls[t][i] EXCEPT !.st = "executing", !.tries = @ + 1]

Execute(t, i) ==
    LET n == ToolOf(calls[t][i]) IN
    /\ Is(t, i, "start")
    /\ \/ /\ ToolTimeUsedUp(n)
          /\ Returns(t, i, "other") /\ UNCHANGED history
       \/ /\ ~ToolTimeUsedUp(n)
          /\ calls' = [calls EXCEPT ![t][i] = [Executes(t, i) EXCEPT !.left = ToolTimeLeft(n)]]
          /\ history' = [history EXCEPT !.executed = @ + 1, !.ran[n] = @ + 1]
    /\ UNCHANGED <<shared, task, ended>>

retriesTool(t, c, e) ==
    /\ Kind[c.kind].retry /\ c.tries < ToolAttempts
    /\ ended[t] = "live" /\ e = "transient"

(* An execution fails after the deadline of the call's time budget.        *)
OutOfTime(t, c, r) ==
    r.err # "none" /\ c.left > 0 /\ c.took + r.took >= c.left /\ ended[t] = "live"

ExecuteReturns(t, i) ==
    \E r \in Results :
        LET c == [calls[t][i] EXCEPT !.took = @ + r.took, !.cost = @ + r.cost]
            again == ~OutOfTime(t, calls[t][i], r) /\ retriesTool(t, c, r.err)
        IN
        /\ Is(t, i, "executing")
        /\ r.err = "final" => Kind[c.kind].builtin
        /\ \/ /\ again /\ ObserveRetry
              /\ calls' = [calls EXCEPT ![t][i] =
                     IF ~Storm THEN [c EXCEPT !.st = "retry"]
                     ELSE IF LoopResponse = "approve" THEN [c EXCEPT !.st = "storm"]
                     ELSE [c EXCEPT !.st = "returned", !.err = "final"]]
           \/ /\ ~again /\ UNCHANGED retries
              /\ calls' = [calls EXCEPT ![t][i] =
                     [c EXCEPT !.st = "returned",
                               !.err = IF OutOfTime(t, calls[t][i], r) THEN "other" ELSE r.err]]
        /\ UNCHANGED <<bvars, task, ended, gate, seen, faults, history>>

ToolStormAnswered(t, i) ==
    /\ Is(t, i, "storm")
    /\ \E outcome \in Outcomes :
           /\ Answered(t, outcome)
           /\ \/ outcome = "approved" /\ retries' = 0 /\ Mark(t, i, "retry")
              \/ outcome = "denied" /\ UNCHANGED retries /\ Returns(t, i, "final")
              \/ outcome = "error" /\ UNCHANGED retries /\ Returns(t, i, "other")
    /\ UNCHANGED <<bvars, task, ended, gate, seen, history>>

(* Mutant of ReserveRetry: a retry needs no tool call of the run.          *)
ReserveRetryFree(t, i) ==
    /\ Is(t, i, "retry")
    /\ Mark(t, i, "backoff")
    /\ UNCHANGED <<shared, task, ended, history>>

ReserveRetry(t, i) ==
    /\ Is(t, i, "retry")
    /\ \/ Reserve(Amount("toolCalls", 1)) /\ Mark(t, i, "backoff")
       \/ /\ ~CanReserve(Amount("toolCalls", 1)) /\ UNCHANGED usage
          /\ Returns(t, i, "other")
    /\ UNCHANGED <<tools, task, ended, gate, seen, retries, faults, history>>

ExecuteAgain(t, i) ==
    /\ Is(t, i, "backoff")
    /\ calls' = [calls EXCEPT ![t][i] = Executes(t, i)]
    /\ history' = [history EXCEPT !.executed = @ + 1]
    /\ UNCHANGED <<shared, task, ended>>

(* The context, or the deadline of the time budget, passes meanwhile.      *)
RetryGivenUp(t, i) ==
    /\ Is(t, i, "backoff") /\ (ended[t] # "live" \/ calls[t][i].left > 0)
    /\ Returns(t, i, "other")
    /\ UNCHANGED <<shared, task, ended, history>>

CountToolUse(t, i) ==
    /\ Is(t, i, "returned")
    /\ CommitTool(ToolOf(calls[t][i]), calls[t][i].took, calls[t][i].cost)
    /\ Mark(t, i, "commit")
    /\ UNCHANGED <<usage, task, ended, gate, seen, retries, faults, history>>

(* What runToolCalls is given: an error that fails the task, or none and   *)
(* a message for the model.                                                *)
invokeError(t, c, costErr) ==
    IF c.err = "final" \/ (costErr /\ (c.err = "none" \/ ended[t] = "live")) THEN "final"
    ELSE IF c.err # "none" /\ ended[t] # "live" THEN "retryable" ELSE "none"

CommitCost(t, i) ==
    /\ Is(t, i, "commit")
    /\ Commit(Amount("cost", calls[t][i].cost))
    /\ LET costErr == calls[t][i].cost > 0 /\ ~checkLimits(usage')
       IN  Answer(t, i, invokeError(t, calls[t][i], costErr))
    /\ UNCHANGED <<tools, task, ended, gate, seen, retries, faults, history>>

(* The tool's artifacts are too large, or cannot be stored: the model is   *)
(* told so, past the cost limit too, unless the context ended.             *)
ArtifactsFail(t, i) ==
    /\ Is(t, i, "commit") /\ calls[t][i].err = "none"
    /\ Commit(Amount("cost", calls[t][i].cost))
    /\ Answer(t, i, IF ended[t] = "live" THEN "none" ELSE "retryable")
    /\ UNCHANGED <<tools, task, ended, gate, seen, retries, faults, history>>

-----------------------------------------------------------------------------
(*                              Specification                              *)

InAttempt(t) ==
    task[t].pc \notin {"new", "create", "failed", "stormAsk", "again", "backoff",
                       "done", "error"}

(* The agent's timeout passes during an attempt.                           *)
Timeout(t) ==
    /\ t \in TimesOut /\ InAttempt(t) /\ ended[t] = "live"
    /\ ended' = [ended EXCEPT ![t] = "timedOut"]
    /\ UNCHANGED <<shared, task, calls, history>>

(* The run is canceled, or a parallel stage gives its tasks up.            *)
Cancel(t) ==
    /\ t \in Canceled /\ task[t].pc \notin {"done", "error"} /\ ended[t] # "canceled"
    /\ ended' = [ended EXCEPT ![t] = "canceled"]
    /\ UNCHANGED <<shared, task, calls, history>>

taskStep(t) ==
    \/ runTask(t) \/ CreateTask(t) \/ CreateFails(t) \/ AttemptFails(t)
    \/ StormAnswered(t) \/ ReserveAttempt(t) \/ NextAttempt(t) \/ BackoffCanceled(t)

loopStep(t) ==
    \/ Capabilities(t) \/ LoopsUsedUp(t) \/ checkCost(t) \/ GateContextEnds(t)
    \/ CostAnswered(t) \/ ReserveModelCall(t) \/ ChatFails(t) \/ ChatPastLimit(t)
    \/ ChatAnswers(t) \/ AnswerRejected(t) \/ ReplyLoopAnswered(t) \/ ChatCallsTools(t)

groupStep(t) ==
    \/ ReserveToolCalls(t) \/ Observe(t) \/ LoopAnswered(t) \/ PlanBuiltin(t)
    \/ PlanTool(t) \/ NeedsNoApproval(t) \/ ToolAnswered(t) \/ DispatchRefused(t)
    \/ DispatchParallel(t) \/ DispatchSerial(t) \/ SerialDone(t) \/ Join(t)

callStep(t, i) ==
    \/ SlotFails(t, i) \/ Execute(t, i) \/ ExecuteReturns(t, i)
    \/ ToolStormAnswered(t, i) \/ ReserveRetry(t, i) \/ ExecuteAgain(t, i)
    \/ RetryGivenUp(t, i) \/ CountToolUse(t, i) \/ CommitCost(t, i) \/ ArtifactsFail(t, i)

Positions == 1 .. Max({Len(g) : g \in UNION {Groups[t] : t \in Tasks}})

Next ==
    \E t \in Tasks :
        \/ taskStep(t) \/ loopStep(t) \/ groupStep(t) \/ Timeout(t) \/ Cancel(t)
        \/ \E i \in Positions : callStep(t, i)

Spec == Init /\ [][Next]_vars

(* Every goroutine of the process goes on; an approval ends with a human's *)
(* answer or with ApprovalTimeout, an execution and a model call with      *)
(* their own timeouts.                                                     *)
FairSpec ==
    /\ Spec
    /\ \A t \in Tasks :
           /\ WF_vars(taskStep(t) \/ loopStep(t) \/ groupStep(t))
           /\ \A i \in Positions : WF_vars(callStep(t, i))

-----------------------------------------------------------------------------
(*                                Properties                               *)

(* Every execution of a tool, a retry too, was reserved, whatever the      *)
(* parallel groups released and the retries added meanwhile.               *)
ReservedFirst ==
    /\ history.executed <= usage["toolCalls"]
    /\ \A r \in Resources \ {"cost"} : Limits[r] > 0 => usage[r] <= Limits[r]

(* The sub-agents counted are exactly the attempts that became tasks and   *)
(* those about to, although a retry reserves before its backoff, a canceled*)
(* backoff and a task that cannot be created give theirs back.             *)
SubAgentsCounted ==
    usage["subAgents"] = history.spawned
        + Cardinality({t \in Tasks : task[t].pc \in {"create", "backoff"}})

(* No tool runs more often in a run than the tightest of its budgets lets  *)
(* it, with tasks that reserve, release and retry side by side.            *)
ToolBudgetsHold ==
    \A n \in Tools : \A b \in ToolBudgets[n] :
        b.calls > 0 => history.ran[n] <= b.calls

(* What the run's tasks do together stays within its budgets: nothing runs *)
(* unreserved, nothing is given back twice, no limit is passed.            *)
BudgetsHold == ReservedFirst /\ SubAgentsCounted /\ ToolBudgetsHold

(* Past ApproveAbove without approval, a task starts at most the one model *)
(* call it had been let into before; one task asks, and nobody asks again  *)
(* once there is an answer.                                                *)
HumanAskedFirst ==
    /\ \A t \in Tasks : history.over[t] <= 1
    /\ \A t \in Tasks : At(t, "asking") <=> gate.asking = t
    /\ gate.answer # "none" => gate.asking = Nobody

(* A call of a serial tool runs alone in its group: what was called before *)
(* it has ended and what was called after it has not begun.                *)
SerialAlone ==
    \A t \in Tasks : \A i \in InFlight(t) :
        ~Kind[calls[t][i].kind].parallel =>
            \A j \in DOMAIN calls[t] :
                /\ j < i => calls[t][j].st = "result"
                /\ j > i => calls[t][j].st \in {"planned", "refused"}

(* A call that needs approval runs only if it got it, and no call of a     *)
(* group runs while an approval of the group is open.                      *)
ApprovedFirst ==
    \A t \in Tasks : \A i \in InFlight(t) :
        /\ ~At(t, "approve")
        /\ Kind[calls[t][i].kind].approve /\ ~Kind[calls[t][i].kind].builtin
               => calls[t][i].approved

(* The order runToolCalls keeps within a group: all approvals first, then  *)
(* the calls, the parallel ones side by side and the serial ones alone.    *)
GroupInOrder == SerialAlone /\ ApprovedFirst

(* When a task goes on or fails, none of its tool calls is still running.  *)
NoStragglers ==
    \A t \in Tasks : task[t].pc \notin {"dispatch", "inline"} => InFlight(t) = {}

(* Every task ends: no task waits forever at the cost gate for an asker    *)
(* that gave up, for a slot of its group, or for the calls it dispatched.  *)
EveryTaskEnds == <>[](\A t \in Tasks : task[t].pc \in {"done", "error"})

(* docs/03-go-interfaces.md: "ReleaseTool gives back one that never ran".  *)
OnlyRunsCount ==
    \A n \in Tools :
        (\A t \in Tasks : calls[t] = <<>>) => tools[n].calls = history.ran[n]

=============================================================================
