----------------------------- MODULE StageTasks -----------------------------
(***************************************************************************)
(* The agent tasks of one stage (runStage, runParallelStage, runTask in    *)
(* runtime/orchestrator.go), across restarts of the run, and the run's     *)
(* re-execution from its events (runtime/reexecute.go, model/fixture.go).  *)
(*                                                                         *)
(* A parallel stage reserves sub-agents for the steps that no completed    *)
(* task answers, runs its steps side by side, and collects their results   *)
(* in the order they come; its failure policy decides when to give up.  A  *)
(* resumed run reuses outputs by stage, agent and prompt, here a key.  The *)
(* copy of a finished run asks the same requests again, and each is        *)
(* answered with the next response recorded for it.                        *)
(*                                                                         *)
(* A task has one exchange with the model, whose response is known by its  *)
(* number among those of its key, and ends with it or fails.  The tool     *)
(* loop, its loop detection and cost gate are AgentLoop's.                 *)
(***************************************************************************)
EXTENDS Integers, Sequences, FiniteSets

CONSTANTS
    Keys,
    Plans,         \* the stages to be checked
    MaxConcurrent,
    MaxSubAgents,
    MaxResumes,    \* bound
    MaxFaults,     \* bound: errors of the store and the provider, loops, and
                   \* contexts that end
    CopyAll        \* bound: are runs copied that were disturbed?

Policies == {"fail_fast", "wait_all", "best_effort", "quorum"}

ASSUME StageTasksAssumption ==
    /\ "none" \notin Keys
    /\ \A p \in Plans :
          /\ p.kind \in {"parallel", "sequential"} /\ p.policy \in Policies
          /\ p.keys \in Seq(Keys) /\ Len(p.keys) > 0
          /\ p.child \in [1 .. Len(p.keys) -> Keys \cup {"none"}]
          /\ p.quorum \in 0 .. Len(p.keys) /\ p.attempts \in Nat
          /\ p.gates \subseteq {"start", "output"}
          /\ p.policy = "quorum" <=> p.quorum > 0
          /\ p.policy = "quorum" => p.kind = "parallel"
    /\ MaxConcurrent \in Nat \ {0}
    /\ MaxSubAgents \in Nat /\ MaxResumes \in Nat /\ MaxFaults \in Nat
    /\ CopyAll \in BOOLEAN

VARIABLES
    plan,
    copying,    \* is this the re-execution?
    phase,      \* of the run: at a gate of the stage, starting or running
                \* it, down, or over
    tasks,      \* per key: the tasks stored, in the order of their creation
    log,        \* per key: the exchanges with the model its events recorded
    \* in memory
    context,    \* has the stage's context ended?
    canceled,   \* has the stage canceled its agents?
    subAgents,
    reuse,      \* per key: the completed tasks whose output nobody has taken
    answers,    \* in a copy, per key: the responses recorded
    work,       \* the steps, and a task each of them may delegate
    results,    \* the channel
    failures, stageErr, verdict,
    \* bounds and history
    resumes, faults,
    disturbed,  \* was the run stopped or resumed?
    first       \* how the run ended that a copy repeats

stored == <<tasks, log>>
collector == <<results, failures, stageErr, verdict>>
history == <<resumes, disturbed, first>>
vars == <<plan, copying, phase, stored, context, canceled, subAgents, reuse, answers,
          work, collector, faults, history>>

Steps == 1 .. Len(plan.keys)

(* Worker Len(plan.keys) + i is the task that step i delegates.            *)
Workers == 1 .. 2 * Len(plan.keys)

Key(w) == IF w \in Steps THEN plan.keys[w] ELSE plan.child[w - Len(plan.keys)]

Child(w) == w + Len(plan.keys)

Parent(w) == w - Len(plan.keys)

Off == [pc |-> "off", attempt |-> 1, task |-> 0, out |-> 0, err |-> "none"]

Places == {"off", "take", "create", "delegating", "ask",
           "answered", "failing", "backoff", "done"}

Errors == {"none", "failed", "final", "paused", "budget", "canceled"}

Verdicts == {"none", "ok", "refused"} \cup Errors

Phases == {"gate", "starting", "running", "review", "down", "over"}

TypeOK ==
    /\ plan \in Plans /\ copying \in BOOLEAN
    /\ phase \in Phases
    /\ DOMAIN tasks = Keys /\ DOMAIN log = Keys
    /\ \A k \in Keys :
          /\ tasks[k] \in Seq([status : {"running", "completed", "failed"}, out : Nat])
          /\ log[k] \in Seq({"good", "bad", "loop"})
          /\ answers[k] \in Seq(DOMAIN log[k])
    /\ DOMAIN reuse = Keys /\ \A k \in Keys : reuse[k] \subseteq DOMAIN tasks[k]
    /\ DOMAIN answers = Keys
    /\ context \in {"live", "ended"} /\ canceled \in BOOLEAN
    /\ subAgents \in Int
    /\ work \in [Workers -> [pc : Places, attempt : Nat,
                             task : Nat, out : Nat, err : Errors]]
    /\ results \in Seq(Steps) /\ failures \in 0 .. Len(plan.keys)
    /\ stageErr \in Errors /\ verdict \in Verdicts
    /\ resumes \in 0 .. MaxResumes /\ faults \in 0 .. MaxFaults
    /\ disturbed \in BOOLEAN

Nothing == [k \in Keys |-> <<>>]

None == [k \in Keys |-> {}]

Entry == IF "start" \in plan.gates THEN "gate" ELSE "starting"

(* What a process has of the run when it starts the stage.                 *)
Fresh ==
    /\ context' = "live" /\ canceled' = FALSE /\ work' = [w \in Workers |-> Off]
    /\ results' = <<>> /\ failures' = 0 /\ stageErr' = "none" /\ verdict' = "none"
    /\ phase' = Entry

Init ==
    /\ plan \in Plans /\ copying = FALSE /\ phase = Entry
    /\ tasks = Nothing /\ log = Nothing
    /\ context = "live" /\ canceled = FALSE /\ work = [w \in Workers |-> Off]
    /\ subAgents = 0 /\ reuse = None /\ answers = Nothing
    /\ results = <<>> /\ failures = 0 /\ stageErr = "none" /\ verdict = "none"
    /\ resumes = 0 /\ faults = 0
    /\ disturbed = FALSE /\ first = [verdict |-> "none", outs |-> <<>>]

Fault == ~copying /\ faults < MaxFaults /\ faults' = faults + 1

(* The agents' context: the stage's, or the one runParallelStage cancels.  *)
Over == context = "ended" \/ canceled

Outs == [i \in Steps |-> work[i].out]

(* The stage is over, unless its output waits for approval; the run is,    *)
(* too, or goes on to its next stage.                                      *)
Ends(v) ==
    /\ verdict' = v
    /\ phase' = IF v = "ok" /\ "output" \in plan.gates THEN "review" ELSE "over"
    /\ UNCHANGED <<results, failures, stageErr>>

-----------------------------------------------------------------------------
(* The stage starts.                                                       *)

(* stageGate: a human lets the run pass, or it is refused or expires; the  *)
(* copy of a run asks again.                                               *)
stageGate ==
    /\ phase \in {"gate", "review"}
    /\ \/ phase' = (IF phase = "gate" THEN "starting" ELSE "over") /\ UNCHANGED verdict
       \/ phase' = "over" /\ verdict' = "refused"
    /\ UNCHANGED <<plan, copying, stored, context, canceled, subAgents, reuse, answers, work,
                   results, failures, stageErr, faults, history>>

(* Mutant of HasRoom: the limit is passed by one.                          *)
HasRoomOver(n) == subAgents + n <= MaxSubAgents + 1

(* May n more sub-agents be reserved?                                      *)
HasRoom(n) == subAgents + n <= MaxSubAgents

(* Mutant of toRun: a reusable output is counted for every step.           *)
toRunSameKey ==
    Cardinality({i \in Steps : reuse[Key(i)] = {}})

(* The steps that no completed task answers; two steps with one key need   *)
(* two outputs.                                                            *)
toRun ==
    Cardinality({i \in Steps :
        Cardinality({j \in 1 .. i : Key(j) = Key(i)}) > Cardinality(reuse[Key(i)])})

StartsParallel ==
    /\ phase = "starting" /\ plan.kind = "parallel"
    /\ IF ~HasRoom(toRun)
       THEN Ends("budget") /\ UNCHANGED <<subAgents, work>>
       ELSE /\ subAgents' = subAgents + toRun
            /\ work' = [w \in Workers |-> IF w \in Steps THEN [Off EXCEPT !.pc = "take"]
                                          ELSE Off]
            /\ phase' = "running" /\ UNCHANGED collector
    /\ UNCHANGED <<plan, copying, stored, context, canceled, reuse, answers, faults, history>>

StartsSequential ==
    /\ phase = "starting" /\ plan.kind = "sequential"
    /\ work' = [work EXCEPT ![1].pc = "take"] /\ phase' = "running"
    /\ UNCHANGED <<plan, copying, stored, context, canceled, subAgents, reuse, answers,
                   collector, faults, history>>

-----------------------------------------------------------------------------
(* runTask.                                                                *)

At(w, place) == phase = "running" /\ work[w].pc = place

(* A result goes into the channel, to the next step, or to the delegator,  *)
(* for which a plain failure is a tool's answer.                           *)
Returns(w, out, err) ==
    LET done == [work EXCEPT ![w].pc = "done", ![w].out = out, ![w].err = err]
    IN  IF w \notin Steps
        THEN /\ work' = IF err \in {"none", "failed"}
                        THEN [done EXCEPT ![Parent(w)].pc = "ask"]
                        ELSE [done EXCEPT ![Parent(w)].pc = "failing", ![Parent(w)].err = err]
             /\ UNCHANGED <<collector, phase>>
        ELSE IF plan.kind = "parallel"
        THEN work' = done /\ results' = Append(results, w)
             /\ UNCHANGED <<failures, stageErr, verdict, phase>>
        ELSE IF err = "none" /\ w < Len(plan.keys)
        THEN work' = [done EXCEPT ![w + 1].pc = "take"] /\ UNCHANGED <<collector, phase>>
        ELSE work' = done /\ Ends(IF err = "none" THEN "ok" ELSE err)

(* Mutant of Slot: a step that is done keeps its slot.                     *)
SlotKept(w) ==
    plan.kind = "parallel" /\ w \in Steps =>
        Cardinality({i \in Steps : work[i].pc \notin {"off", "take"}}) < MaxConcurrent

(* A step of a parallel stage needs one of MaxConcurrent slots, which it   *)
(* keeps until its result is in the channel.                               *)
Slot(w) ==
    plan.kind = "parallel" /\ w \in Steps =>
        Cardinality({i \in Steps : work[i].pc \notin {"off", "take", "done"}}) < MaxConcurrent

GivesUp(w) ==
    /\ At(w, "take") /\ w \in Steps /\ plan.kind = "parallel" /\ Over
    /\ Returns(w, 0, "canceled")
    /\ UNCHANGED <<plan, copying, stored, context, canceled, subAgents, reuse, answers,
                   faults, history>>

(* Mutant of take: the output stays for others.                            *)
takeKept(w) ==
    \E i \in reuse[Key(w)] :
        /\ \A j \in reuse[Key(w)] : i <= j
        /\ Returns(w, tasks[Key(w)][i].out, "none")
        /\ UNCHANGED reuse

(* The output of the first of them.                                        *)
take(w) ==
    \E i \in reuse[Key(w)] :
        /\ \A j \in reuse[Key(w)] : i <= j
        /\ Returns(w, tasks[Key(w)][i].out, "none")
        /\ reuse' = [reuse EXCEPT ![Key(w)] = @ \ {i}]

(* The steps of a parallel stage have their sub-agents reserved.           *)
Takes(w) ==
    /\ At(w, "take") /\ Slot(w)
    /\ \/ take(w) /\ UNCHANGED subAgents
       \/ /\ reuse[Key(w)] = {} /\ UNCHANGED reuse
          /\ IF w \in Steps /\ plan.kind = "parallel"
             THEN work' = [work EXCEPT ![w].pc = "create"]
                  /\ UNCHANGED <<subAgents, collector, phase>>
             ELSE IF HasRoom(1)
             THEN work' = [work EXCEPT ![w].pc = "create"] /\ subAgents' = subAgents + 1
                  /\ UNCHANGED <<collector, phase>>
             ELSE Returns(w, 0, "budget") /\ UNCHANGED subAgents
    /\ UNCHANGED <<plan, copying, stored, context, canceled, answers, faults, history>>

CreateTask(w) ==
    tasks' = [tasks EXCEPT ![Key(w)] = Append(@, [status |-> "running", out |-> 0])]

(* The agent of a step with a child first gives it a task.                 *)
Creates(w) ==
    LET delegates == w \in Steps /\ plan.child[w] # "none"
        created == [work EXCEPT ![w].task = Len(tasks[Key(w)]) + 1,
                                ![w].pc = IF delegates THEN "delegating" ELSE "ask"]
    IN  /\ At(w, "create")
        /\ CreateTask(w)
        /\ work' = IF delegates THEN [created EXCEPT ![Child(w)] = [Off EXCEPT !.pc = "take"]]
                   ELSE created
        /\ UNCHANGED <<plan, copying, phase, log, context, canceled, subAgents, reuse, answers,
                       collector, faults, history>>

(* A context that ended fails it, too.                                     *)
CreateFails(w) ==
    /\ At(w, "create")
    /\ IF Over THEN UNCHANGED faults ELSE Fault
    /\ subAgents' = subAgents - 1
    /\ work' = [work EXCEPT ![w].pc = "failing", ![w].task = 0,
                            ![w].err = IF Over THEN "canceled" ELSE "failed"]
    /\ UNCHANGED <<plan, copying, phase, stored, context, canceled, reuse, answers,
                   collector, history>>

(* The provider answers, and the event with its response is stored; what   *)
(* the task makes of the response depends on it alone.                     *)
Asks(w) ==
    /\ At(w, "ask") /\ ~copying
    /\ \E as \in {"good", "bad", "loop"} :
          /\ IF as = "loop" THEN Fault ELSE UNCHANGED faults
          /\ log' = [log EXCEPT ![Key(w)] = Append(@, as)]
    /\ work' = [work EXCEPT ![w].pc = "answered", ![w].out = Len(log[Key(w)]) + 1]
    /\ UNCHANGED <<plan, copying, phase, tasks, context, canceled, subAgents, reuse, answers,
                   collector, history>>

(* Mutant of Chat: a response answers every such request.                  *)
ChatAgain(w) ==
    /\ At(w, "ask") /\ copying /\ answers[Key(w)] # <<>>
    /\ work' = [work EXCEPT ![w].pc = "answered", ![w].out = Head(answers[Key(w)])]
    /\ UNCHANGED <<plan, copying, phase, stored, context, canceled, subAgents, reuse, answers,
                   collector, faults, history>>

(* Replayer.Chat.                                                          *)
Chat(w) ==
    /\ At(w, "ask") /\ copying /\ answers[Key(w)] # <<>>
    /\ work' = [work EXCEPT ![w].pc = "answered", ![w].out = Head(answers[Key(w)])]
    /\ answers' = [answers EXCEPT ![Key(w)] = Tail(@)]
    /\ UNCHANGED <<plan, copying, phase, stored, context, canceled, subAgents, reuse,
                   collector, faults, history>>

(* The provider fails, the context ends, or nothing was recorded.          *)
AskFails(w) ==
    /\ At(w, "ask")
    /\ IF Over \/ (copying /\ answers[Key(w)] = <<>>) THEN UNCHANGED faults ELSE Fault
    /\ work' = [work EXCEPT ![w].pc = "failing",
                            ![w].err = IF Over THEN "canceled" ELSE "failed"]
    /\ UNCHANGED <<plan, copying, phase, stored, context, canceled, subAgents, reuse, answers,
                   collector, history>>

Response(w) == log[Key(w)][work[w].out]

Updated(w, status, out) ==
    [tasks EXCEPT ![Key(w)][work[w].task] = [status |-> status, out |-> out]]

(* completeTask: the answer counts although the task cannot be updated.    *)
Completes(w) ==
    /\ At(w, "answered") /\ Response(w) = "good"
    /\ \/ tasks' = Updated(w, "completed", work[w].out) /\ UNCHANGED faults
       \/ UNCHANGED tasks /\ IF Over THEN UNCHANGED faults ELSE Fault
    /\ Returns(w, work[w].out, "none")
    /\ UNCHANGED <<plan, copying, log, context, canceled, subAgents, reuse, answers, history>>

(* The loop that a response runs into pauses the run, or fails the copy.   *)
Rejects(w) ==
    /\ At(w, "answered") /\ Response(w) # "good"
    /\ work' = [work EXCEPT ![w].pc = "failing",
                   ![w].err = IF Response(w) = "bad" THEN "failed"
                              ELSE IF copying THEN "final" ELSE "paused"]
    /\ UNCHANGED <<plan, copying, phase, stored, context, canceled, subAgents, reuse, answers,
                   collector, faults, history>>

(* The update ignores that the context ended, and its error is only logged. *)
failTask(w) ==
    \/ tasks' = (IF work[w].task = 0 THEN tasks ELSE Updated(w, "failed", 0))
       /\ UNCHANGED faults
    \/ work[w].task # 0 /\ UNCHANGED tasks /\ Fault

(* failTask, and another attempt if spec.retry and the budget allow it;    *)
(* a delegated task has one.                                               *)
Fails(w) ==
    LET again == /\ w \in Steps /\ work[w].err = "failed" /\ ~Over
                 /\ work[w].attempt < plan.attempts
    IN  /\ At(w, "failing")
        /\ failTask(w)
        /\ IF again /\ HasRoom(1)
           THEN /\ subAgents' = subAgents + 1
                /\ work' = [work EXCEPT ![w] = [Off EXCEPT !.pc = "backoff",
                                                           !.attempt = work[w].attempt + 1]]
                /\ UNCHANGED <<collector, phase>>
           ELSE /\ Returns(w, 0, IF again THEN "budget" ELSE work[w].err)
                /\ UNCHANGED subAgents
        /\ UNCHANGED <<plan, copying, log, context, canceled, reuse, answers, history>>

BackoffEnds(w) ==
    /\ At(w, "backoff")
    /\ \/ work' = [work EXCEPT ![w].pc = "create"]
          /\ UNCHANGED <<subAgents, collector, phase>>
       \/ Over /\ subAgents' = subAgents - 1 /\ Returns(w, 0, "canceled")
    /\ UNCHANGED <<plan, copying, stored, context, canceled, reuse, answers, faults, history>>

-----------------------------------------------------------------------------
(* The results of a parallel stage.                                        *)

(* Mutant of Collects: a quorum is given up one failure too early.         *)
CollectsEarly ==
    LET r == work[Head(results)]
        gaveUp == \/ plan.policy = "fail_fast" \/ r.err = "paused"
                  \/ plan.policy = "quorum" /\ failures + 1 >= Len(plan.keys) - plan.quorum
    IN  /\ phase = "running" /\ results # <<>>
        /\ results' = Tail(results)
        /\ IF r.err = "none" \/ stageErr # "none"
           THEN UNCHANGED <<failures, stageErr, canceled>>
           ELSE /\ failures' = failures + 1
                /\ stageErr' = IF gaveUp THEN r.err ELSE stageErr
                /\ canceled' = (canceled \/ gaveUp)
        /\ UNCHANGED <<plan, copying, phase, stored, context, subAgents, reuse, answers, work,
                       verdict, faults, history>>

Collects ==
    LET r == work[Head(results)]
        gaveUp == \/ plan.policy = "fail_fast" \/ r.err = "paused"
                  \/ plan.policy = "quorum" /\ failures + 1 > Len(plan.keys) - plan.quorum
    IN  /\ phase = "running" /\ results # <<>>
        /\ results' = Tail(results)
        /\ IF r.err = "none" \/ stageErr # "none"
           THEN UNCHANGED <<failures, stageErr, canceled>>
           ELSE /\ failures' = failures + 1
                /\ stageErr' = IF gaveUp THEN r.err ELSE stageErr
                /\ canceled' = (canceled \/ gaveUp)
        /\ UNCHANGED <<plan, copying, phase, stored, context, subAgents, reuse, answers, work,
                       verdict, faults, history>>

(* The error of the first step that failed, in the order of the steps.     *)
firstErr ==
    LET failed == {i \in Steps : work[i].err # "none"}
    IN  IF failed = {} THEN "none"
        ELSE work[CHOOSE i \in failed : \A j \in failed : i <= j].err

(* All are done and collected.                                             *)
Finishes ==
    /\ phase = "running" /\ plan.kind = "parallel" /\ results = <<>>
    /\ \A i \in Steps : work[i].pc = "done"
    /\ Ends(IF stageErr # "none" THEN stageErr
            ELSE IF context = "ended" THEN "canceled"
            ELSE IF (plan.policy = "wait_all" /\ firstErr # "none")
                    \/ (\A i \in Steps : work[i].err # "none") THEN firstErr
            ELSE "ok")
    /\ UNCHANGED <<plan, copying, stored, context, canceled, subAgents, reuse, answers, work,
                   faults, history>>

-----------------------------------------------------------------------------
(* Contexts, crashes, restarts and the copy.                               *)

(* The stage times out, or the run is stopped.                             *)
ContextEnds ==
    /\ phase = "running" /\ context = "live" /\ Fault
    /\ context' = "ended"
    /\ disturbed' = TRUE
    /\ UNCHANGED <<plan, copying, phase, stored, canceled, subAgents, reuse, answers, work,
                   collector, resumes, first>>

Crashes ==
    /\ phase \notin {"down", "over"} /\ ~copying /\ resumes < MaxResumes
    /\ phase' = "down"
    /\ UNCHANGED <<plan, copying, stored, context, canceled, subAgents, reuse, answers, work,
                   collector, faults, history>>

Completed(k) == {i \in DOMAIN tasks[k] : tasks[k][i].status = "completed"}

Interrupted(k) ==
    [i \in DOMAIN tasks[k] |->
        IF tasks[k][i].status = "running" THEN [status |-> "failed", out |-> 0]
        ELSE tasks[k][i]]

(* Mutant of reconcileTasks: only the latest output of a key is kept.      *)
reconcileLatest ==
    /\ reuse' = [k \in Keys |-> {i \in Completed(k) : \A j \in Completed(k) : j <= i}]
    /\ tasks' = [k \in Keys |-> Interrupted(k)]

reconcileTasks ==
    /\ reuse' = [k \in Keys |-> Completed(k)]
    /\ tasks' = [k \in Keys |-> Interrupted(k)]

Created == Cardinality(UNION {{k} \X DOMAIN tasks[k] : k \in Keys})

(* Of a run whose process died, that failed, or that is paused.            *)
Resumes ==
    /\ ~copying /\ resumes < MaxResumes /\ resumes' = resumes + 1
    /\ phase = "down" \/ (phase = "over" /\ verdict # "ok")
    /\ reconcileTasks
    /\ subAgents' = Created
    /\ Fresh
    /\ disturbed' = TRUE
    /\ UNCHANGED <<plan, copying, log, answers, faults, first>>

Starved == verdict = "budget" \/ \E w \in Workers : work[w].err = "budget"

(* recordedOutputs and NewReplayer, which are taken to read all events of  *)
(* the run.                                                                *)
Recorded(k) == [i \in DOMAIN log[k] |-> i]

Distinct == \A v, w \in Workers : Key(v) = Key(w) /\ Key(v) # "none" => v = w

(* ReExecute of a run that has a final status; its copy is undisturbed.    *)
ReExecutes ==
    /\ ~copying /\ phase = "over" /\ verdict # "paused"
    /\ CopyAll \/ (~disturbed /\ ~Starved /\ Distinct /\ plan.gates = {})
    /\ copying' = TRUE
    /\ answers' = [k \in Keys |-> Recorded(k)]
    /\ first' = [verdict |-> verdict, outs |-> Outs]
    /\ tasks' = Nothing /\ subAgents' = 0 /\ reuse' = None
    /\ Fresh
    /\ UNCHANGED <<plan, log, resumes, disturbed, faults>>

-----------------------------------------------------------------------------
Works(w) ==
    \/ GivesUp(w) \/ Takes(w) \/ Creates(w) \/ CreateFails(w)
    \/ Asks(w) \/ Chat(w) \/ AskFails(w) \/ Completes(w) \/ Rejects(w)
    \/ Fails(w) \/ BackoffEnds(w)

Stage == StartsParallel \/ StartsSequential \/ Collects \/ Finishes

Next ==
    \/ stageGate \/ Stage \/ \E w \in Workers : Works(w)
    \/ ContextEnds \/ Crashes \/ Resumes \/ ReExecutes

Spec == Init /\ [][Next]_vars

(* Goroutines run, providers answer or fail, and backoffs pass.            *)
FairSpec ==
    /\ Spec
    /\ WF_vars(Stage \/ \E w \in Workers : Works(w))

-----------------------------------------------------------------------------
(* Properties.                                                             *)

(* What the failure policy asks of the steps.                              *)
Met ==
    LET ok == {i \in Steps : work[i].pc = "done" /\ work[i].err = "none"}
    IN  /\ \/ ok = Steps
           \/ /\ plan.kind = "parallel"
              /\ \/ plan.policy = "best_effort" /\ ok # {}
                 \/ plan.policy = "quorum" /\ Cardinality(ok) >= plan.quorum
        /\ \A i \in Steps : work[i].err # "paused"

(* In whatever order the results came, the stage succeeds only if its      *)
(* policy is met, and fails only if not, or if its context ended, a human  *)
(* refused it, or the budget lacks room for its agents.  Its output is     *)
(* shown for approval only when it succeeds.                               *)
PolicyDecides ==
    /\ phase = "review" => Met
    /\ phase = "over" =>
          /\ verdict = "ok" => Met
          /\ verdict \notin {"ok", "refused"} => ~Met \/ context = "ended"

(* Every task stored was reserved as a sub-agent first, whatever was       *)
(* reused, retried or given back, and within the limit.  It holds if no    *)
(* step of a parallel stage delegates the task of another step: otherwise  *)
(* the delegation may take the output the stage counted to reuse, and the  *)
(* step starts an agent it never reserved, as FindUnreserved.cfg shows.    *)
TasksReserved == phase # "down" => Created <= subAgents /\ subAgents <= MaxSubAgents

(* No two workers have the output of the same task.                        *)
OutputsOwned ==
    \A v, w \in Workers :
        /\ work[v].pc = "done" /\ work[v].err = "none" /\ work[w].pc = "done"
        /\ work[w].err = "none" /\ Key(v) = Key(w) /\ work[v].out = work[w].out
        => v = w

(* No step is completed twice, however often the run is restarted, unless  *)
(* its task is also delegated.                                             *)
CompletedOnce ==
    \A k \in Keys : (\A i \in Steps : plan.child[i] # k) =>
        Cardinality(Completed(k)) <= Cardinality({i \in Steps : Key(i) = k})

(* A completed task's output is used, by one worker, instead of another    *)
(* execution; of tasks that are delegated as well, only the first.         *)
ReusedOnce == OutputsOwned /\ CompletedOnce

(* A copy ends like its run and with the same outputs, if its run was not  *)
(* resumed or stopped, no two of its tasks asked the same, no human was    *)
(* asked, and neither ran out of sub-agents.  ReExecute's comment promises *)
(* it of every run.                                                        *)
CopyEndsAlike ==
    copying /\ phase = "over" /\ ~Starved =>
        (first.verdict = "ok" <=> verdict = "ok") /\ (verdict = "ok" => Outs = first.outs)

(* A stage that runs comes to its end: no agent waits for a slot for ever. *)
StageEnds == phase \in {"starting", "running"} ~> phase \in {"review", "down", "over"}

=============================================================================
