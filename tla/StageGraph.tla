----------------------------- MODULE StageGraph -----------------------------
(***************************************************************************)
(* The stage scheduler of one run (runtime/workflow.go runStages): it      *)
(* starts every stage whose dependencies are done in a goroutine of its    *)
(* own, receives their results one at a time, and lets a stage hand work   *)
(* back to a stage it depends on, which runs that stage and everything     *)
(* after it again once the running stages have finished.                   *)
(*                                                                         *)
(* An output is the number of times its stage has completed, a feedback    *)
(* text the number of hand-backs the stage has received.                   *)
(***************************************************************************)
EXTENDS Naturals, FiniteSets

CONSTANTS
    Stages,  \* the stages of the workflow
    NoStage, \* handTo of a stage without hand_back
    Limit    \* HandBack.MaxTimes, after its default

ASSUME StageAssumption ==
    /\ IsFiniteSet(Stages) /\ NoStage \notin Stages
    /\ Limit \in Nat \ {0}

VARIABLES
    deps, handTo, stops,  \* the plan: dependencies, hand_back.to, stop_when
    pc,                   \* where the scheduler's loop is
    state, handBacks, feedback, resets, active,
    mode,                 \* "failed": failed # nil; "stopped": only stopped
    live,                 \* stage goroutines that have not sent their result
    unread,               \* those that have not read feedback[i] yet
    seen,                 \* the feedback each stage's last goroutine read
    ver,                  \* completions of each stage: its entry in vars
    used,                 \* the clone of vars each stage was started with
    rejected              \* stages whose latest output handed work back

plan  == <<deps, handTo, stops>>
vars  == <<plan, pc, state, handBacks, feedback, resets, active, mode, live,
           unread, seen, ver, used, rejected>>

-----------------------------------------------------------------------------
(* compileWorkflow.                                                        *)

Closed(S, edges) == \A x \in S : edges[x] \subseteq S

(* plan.closure: what can be reached from i, i included.                   *)
Closure(i, edges) ==
    {j \in Stages : \A S \in SUBSET Stages :
                        i \in S /\ Closed(S, edges) => j \in S}

Dependents(d) == [i \in Stages |-> {j \in Stages : i \in d[j]}]

ancestorsOrSelf(i) == Closure(i, deps)
descendantsOrSelf(i) == Closure(i, Dependents(deps))

(* A stage on a cycle is reached from one of its dependencies.             *)
cyclic(d) == \E i \in Stages : \E j \in d[i] : i \in Closure(j, d)

(* Mutant of ValidPlan: hand_back.to may be any stage.                     *)
AnyTargetPlan(d, h) == ~cyclic(d)

(* The plans compileWorkflow accepts: acyclic, and work is handed back to  *)
(* the stage itself or to one it depends on.                               *)
ValidPlan(d, h) ==
    /\ ~cyclic(d)
    /\ \A i \in Stages : h[i] = NoStage \/ h[i] \in Closure(i, d)

TypeOK ==
    /\ deps \in [Stages -> SUBSET Stages]
    /\ handTo \in [Stages -> Stages \cup {NoStage}]
    /\ stops \subseteq Stages
    /\ pc \in {"launch", "drain", "returned"}
    /\ state \in [Stages -> {"pending", "running", "done"}]
    /\ handBacks \in [Stages -> Nat] /\ feedback \in [Stages -> Nat]
    /\ resets \subseteq Stages /\ active \in Nat
    /\ mode \in {"open", "stopped", "failed"}
    /\ live \subseteq Stages /\ unread \subseteq live
    /\ seen \in [Stages -> Nat] /\ ver \in [Stages -> Nat]
    /\ used \in [Stages -> [Stages -> Nat]]
    /\ rejected \subseteq Stages

Init ==
    /\ deps \in [Stages -> SUBSET Stages]
    /\ handTo \in [Stages -> Stages \cup {NoStage}]
    /\ stops \in SUBSET Stages
    /\ ValidPlan(deps, handTo)
    /\ pc = "launch" /\ mode = "open" /\ active = 0
    /\ state = [i \in Stages |-> "pending"]
    /\ handBacks = [i \in Stages |-> 0] /\ feedback = [i \in Stages |-> 0]
    /\ resets = {} /\ live = {} /\ unread = {} /\ rejected = {}
    /\ seen = [i \in Stages |-> 0] /\ ver = [i \in Stages |-> 0]
    /\ used = [i \in Stages |-> [d \in Stages |-> 0]]

-----------------------------------------------------------------------------
(* runStages, the top of the loop: start every stage that is ready.        *)
Ready == {i \in Stages : /\ state[i] = "pending"
                         /\ \A d \in deps[i] : state[d] = "done"}

(* Mutant of Launch: active is counted once per pass, not per goroutine.   *)
LaunchCountsOnce ==
    /\ pc = "launch" /\ pc' = "drain"
    /\ LET start == IF mode = "open" /\ resets = {} THEN Ready ELSE {}
       IN  /\ state' = [i \in Stages |-> IF i \in start THEN "running"
                                                       ELSE state[i]]
           /\ used' = [i \in Stages |-> IF i \in start THEN ver ELSE used[i]]
           /\ active' = IF start = {} THEN active ELSE active + 1
           /\ live' = live \cup start
           /\ unread' = unread \cup start
    /\ UNCHANGED <<plan, handBacks, feedback, resets, mode, seen, ver, rejected>>

Launch ==
    /\ pc = "launch" /\ pc' = "drain"
    /\ LET start == IF mode = "open" /\ resets = {} THEN Ready ELSE {}
       IN  /\ state' = [i \in Stages |-> IF i \in start THEN "running"
                                                       ELSE state[i]]
           /\ used' = [i \in Stages |-> IF i \in start THEN ver ELSE used[i]]
           /\ active' = active + Cardinality(start)
           /\ live' = live \cup start
           /\ unread' = unread \cup start
    /\ UNCHANGED <<plan, handBacks, feedback, resets, mode, seen, ver, rejected>>

(* Mutant of Return: hand-backs that wait are forgotten.                   *)
ReturnEarly ==
    /\ pc = "drain" /\ active = 0
    /\ pc' = "returned"
    /\ UNCHANGED <<plan, state, handBacks, feedback, resets, active, mode, live,
                   unread, seen, ver, used, rejected>>

(* Nothing runs: return, or apply the hand-backs that waited for this.     *)
Return ==
    /\ pc = "drain" /\ active = 0 /\ resets = {}
    /\ pc' = "returned"
    /\ UNCHANGED <<plan, state, handBacks, feedback, resets, active, mode, live,
                   unread, seen, ver, used, rejected>>

(* Mutant of ApplyResets: the stages after the target keep their outputs.  *)
ResetTargetsOnly ==
    /\ pc = "drain" /\ active = 0 /\ resets # {}
    /\ state' = [i \in Stages |-> IF i \in resets THEN "pending" ELSE state[i]]
    /\ resets' = {}
    /\ pc' = "launch"
    /\ UNCHANGED <<plan, handBacks, feedback, active, mode, live, unread, seen,
                   ver, used, rejected>>

ApplyResets ==
    /\ pc = "drain" /\ active = 0 /\ resets # {}
    /\ state' = [i \in Stages |->
                   IF \E t \in resets : i \in descendantsOrSelf(t) THEN "pending"
                                                                   ELSE state[i]]
    /\ resets' = {}
    /\ pc' = "launch"
    /\ UNCHANGED <<plan, handBacks, feedback, active, mode, live, unread, seen,
                   ver, used, rejected>>

(* A stage's goroutine reads feedback[i] only once it runs.                *)
ReadFeedback(i) ==
    /\ i \in unread
    /\ unread' = unread \ {i}
    /\ seen' = [seen EXCEPT ![i] = feedback[i]]
    /\ UNCHANGED <<plan, pc, state, handBacks, feedback, resets, active, mode,
                   live, ver, used, rejected>>

(* r := <-results; active--                                                *)
Take(i) ==
    /\ pc = "drain" /\ active # 0 /\ i \in live \ unread
    /\ pc' = "launch"
    /\ active' = active - 1
    /\ live' = live \ {i}
    /\ UNCHANGED <<plan, unread, seen, used>>

(* Mutant of ReceiveError: a failed stage is not counted off.              *)
ReceiveErrorUncounted(i) ==
    /\ pc = "drain" /\ active # 0 /\ i \in live \ unread
    /\ pc' = "launch" /\ mode' = "failed"
    /\ live' = live \ {i}
    /\ UNCHANGED <<plan, state, handBacks, feedback, resets, active, unread,
                   seen, ver, used, rejected>>

(* After a failure results are only counted; a stage's error is the first. *)
ReceiveError(i) ==
    /\ Take(i)
    /\ mode' = "failed"
    /\ UNCHANGED <<state, handBacks, feedback, resets, ver, rejected>>

(* An output that is not handed back, which may stop the workflow.         *)
ReceiveOutput(i) ==
    /\ Take(i) /\ mode # "failed"
    /\ state' = [state EXCEPT ![i] = "done"]
    /\ ver' = [ver EXCEPT ![i] = @ + 1]
    /\ rejected' = rejected \ {i}
    /\ mode' \in {mode} \cup (IF i \in stops THEN {"stopped"} ELSE {})
    /\ UNCHANGED <<handBacks, feedback, resets>>

(* An output that matches hand_back.when.  The run fails when the stage    *)
(* has handed back too often, or when the drafts hardly change and nobody  *)
(* lets the loop go on; otherwise the reset waits until nothing runs.      *)
ReceiveHandBack(i) ==
    /\ Take(i) /\ mode # "failed" /\ handTo[i] # NoStage
    /\ state' = [state EXCEPT ![i] = "done"]
    /\ ver' = [ver EXCEPT ![i] = @ + 1]
    /\ rejected' = rejected \cup {i}
    /\ handBacks' = [handBacks EXCEPT ![i] = @ + 1]
    /\ \/ /\ handBacks'[i] <= Limit
          /\ feedback' = [feedback EXCEPT ![handTo[i]] = @ + 1]
          /\ resets' = resets \cup {handTo[i]}
          /\ UNCHANGED mode
       \/ /\ mode' = "failed"
          /\ UNCHANGED <<feedback, resets>>

Done == pc = "returned" /\ UNCHANGED vars

Scheduler == Launch \/ Return \/ ApplyResets

Receive(i) == ReceiveError(i) \/ ReceiveOutput(i) \/ ReceiveHandBack(i)

Next ==
    \/ Scheduler
    \/ \E i \in Stages : ReadFeedback(i) \/ Receive(i)
    \/ Done

Spec == Init /\ [][Next]_vars

(* The scheduler and the stage goroutines run, and every stage returns.    *)
Fairness ==
    /\ WF_vars(Scheduler)
    /\ \A i \in Stages : WF_vars(ReadFeedback(i)) /\ WF_vars(Receive(i))

FairSpec == Spec /\ Fairness

-----------------------------------------------------------------------------
(* Properties.                                                             *)

(* A stage that started worked, or works, on the latest outputs of the     *)
(* stages it depends on, and they are done: no hand-back leaves a stage    *)
(* with an input that has been replaced.                                   *)
InputsCurrent ==
    \A i \in Stages : state[i] # "pending" =>
        \A d \in deps[i] : state[d] = "done" /\ used[i][d] = ver[d]

(* feedback[i] is read by the goroutine and written by the scheduler with  *)
(* no lock: it is never written while the goroutine of i is alive, so the  *)
(* stage works with what last handed work back to it.                      *)
FeedbackCurrent == \A i \in live \ unread : seen[i] = feedback[i]

(* Every goroutine has been received when runStages returns, although      *)
(* results is unbuffered and a failure ends the loop early.                *)
NoStageLeaks == active = Cardinality(live)

(* A run that succeeds without stop_when completed every stage, and no     *)
(* output it reports is one that handed work back.                         *)
SuccessIsComplete ==
    pc = "returned" /\ mode = "open" =>
        \A i \in Stages : state[i] = "done" /\ i \notin rejected

(* Hand-backs are bounded: once every stage returns, so does runStages.    *)
Terminates == <>(pc = "returned")

=============================================================================
