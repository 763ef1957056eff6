----------------------------- MODULE Admission ------------------------------
(***************************************************************************)
(* How a process takes in and queues its runs (runtime/orchestrator.go     *)
(* admit, release, queueAndExecute, acquireRunSlots, Shutdown): a counter  *)
(* bounds the admitted runs, a run waits for a slot of its tenant, of its  *)
(* workflow and of the process, and its model calls and tools wait for     *)
(* slots of their own while it executes.                                   *)
(***************************************************************************)
EXTENDS Semaphores, Sequences, SequencesExt

CONSTANTS
    Runs,
    TenantOf,      \* the tenant of each run
    WorkflowOf,    \* its workflow's name, or NoName
    NoName,
    Inner,         \* model calls and tools every run executes side by side
    InnerOf,       \* the agent or tool of each
    Forced,        \* runs of Recover, which resumes them whatever the queue
    Endless,       \* runs whose stages may go on forever
    Canceled,      \* bound: the runs that are canceled or lose their lease
    ShutsDown,     \* bound: is Shutdown called?
    PerTenant, PerWorkflow, PerInner,
    MaxActiveRuns, MaxQueuedRuns

RunKeys(r) ==
    <<<<"tenant", TenantOf[r]>>>> \o
    (IF WorkflowOf[r] = NoName THEN <<>>
                               ELSE <<<<"workflow", TenantOf[r], WorkflowOf[r]>>>>)

Global == <<"global">>

InnerCall(r, i) == <<r, <<"call", i>>>>

SlotCalls ==
    UNION {{<<r, k>> : k \in ToSet(RunKeys(r))} \cup {InnerCall(r, i) : i \in Inner} :
           r \in Runs}

SlotKey ==
    [c \in SlotCalls |-> IF c[2][1] = "call" THEN <<"inner", InnerOf[c[2][2]]>> ELSE c[2]]

SlotLimit ==
    [k \in {SlotKey[c] : c \in SlotCalls} |->
        IF k[1] = "tenant" THEN PerTenant
        ELSE IF k[1] = "workflow" THEN PerWorkflow ELSE PerInner]

ASSUME AdmissionAssumption ==
    /\ IsFiniteSet(Runs) /\ Forced \subseteq Runs /\ Endless \subseteq Runs
    /\ Canceled \subseteq Runs /\ ShutsDown \in BOOLEAN
    /\ MaxActiveRuns \in Nat /\ MaxQueuedRuns \in Nat
    /\ Calls = SlotCalls /\ KeyOf = SlotKey /\ Limit = SlotLimit

VARIABLES
    pc,       \* per run: where createRun, resume or queueAndExecute is
    next,     \* per run: the index in Wants it has come to
    inflight, \* Orchestrator.inflight, and the count of its WaitGroup admitted
    active,   \* how many values Orchestrator.slots holds
    ended,    \* runs whose context ended
    shutdown  \* how far Shutdown is

vars == <<svars, pc, next, inflight, active, ended, shutdown>>

TypeOK ==
    /\ SemTypeOK
    /\ pc \in [Runs -> {"new", "refused", "admitted", "executing", "unwinding",
                        "aborting", "canceled", "executed", "queued", "done"}]
    /\ next \in [Runs -> 0 .. 4]
    /\ inflight \in 0 .. Cardinality(Runs)
    /\ active \in 0 .. MaxActiveRuns
    /\ ended \subseteq Runs
    /\ shutdown \in {"no", "draining", "stopped", "returned"}

Init ==
    /\ SemInit
    /\ pc = [r \in Runs |-> "new"] /\ next = [r \in Runs |-> 1]
    /\ inflight = 0 /\ active = 0 /\ ended = {} /\ shutdown = "no"

RunTo(r, place) == pc' = [pc EXCEPT ![r] = place]

-----------------------------------------------------------------------------
(* Mutant of admit: a process that shuts down still takes runs.            *)
admitAlways(r) ==
    /\ pc[r] = "new"
    /\ r \in Forced \/ MaxActiveRuns = 0 \/ inflight < MaxActiveRuns + MaxQueuedRuns
    /\ inflight' = inflight + 1
    /\ RunTo(r, "admitted")
    /\ UNCHANGED <<svars, next, active, ended, shutdown>>

admit(r) ==
    /\ pc[r] = "new" /\ shutdown = "no"
    /\ r \in Forced \/ MaxActiveRuns = 0 \/ inflight < MaxActiveRuns + MaxQueuedRuns
    /\ inflight' = inflight + 1
    /\ RunTo(r, "admitted")
    /\ UNCHANGED <<svars, next, active, ended, shutdown>>

(* ErrOverloaded.                                                          *)
refuse(r) ==
    /\ pc[r] = "new"
    /\ \/ shutdown # "no"
       \/ r \notin Forced /\ MaxActiveRuns > 0 /\ inflight >= MaxActiveRuns + MaxQueuedRuns
    /\ RunTo(r, "refused")
    /\ UNCHANGED <<svars, next, inflight, active, ended, shutdown>>

(* The store refuses what createRun or resume writes.                      *)
CreateFails(r) ==
    /\ pc[r] = "admitted"
    /\ inflight' = inflight - 1
    /\ RunTo(r, "refused")
    /\ UNCHANGED <<svars, next, active, ended, shutdown>>

(* The run's context is a child of the one Shutdown ends.                  *)
Launch(r) ==
    /\ pc[r] = "admitted"
    /\ RunTo(r, "queued")
    /\ ended' = IF shutdown = "stopped" THEN ended \cup {r} ELSE ended
    /\ UNCHANGED <<svars, next, inflight, active, shutdown>>

-----------------------------------------------------------------------------
(* acquireRunSlots.                                                        *)

(* Mutant of Wants: the slot of the process is taken first.                *)
WantsGlobalFirst(r) ==
    (IF MaxActiveRuns > 0 THEN <<Global>> ELSE <<>>) \o RunKeys(r)

(* The slots of a run, in the order it takes them.                         *)
Wants(r) ==
    RunKeys(r) \o (IF MaxActiveRuns > 0 THEN <<Global>> ELSE <<>>)

Waits(r) == pc[r] = "queued" /\ next[r] <= Len(Wants(r))

AtGlobal(r) == Wants(r)[next[r]] = Global

Call(r) == <<r, Wants(r)[next[r]]>>

Asks(r) ==
    /\ Waits(r) /\ ~AtGlobal(r)
    /\ Lookup(Call(r))
    /\ UNCHANGED <<pc, next, inflight, active, ended, shutdown>>

(* One more slot, a key's without a limit at once.                         *)
Gets(r) ==
    /\ Waits(r)
    /\ \/ /\ ~AtGlobal(r)
          /\ Take(Call(r)) \/ Unlimited(Call(r))
          /\ UNCHANGED active
       \/ /\ AtGlobal(r) /\ active < MaxActiveRuns
          /\ active' = active + 1
          /\ UNCHANGED svars
    /\ next' = [next EXCEPT ![r] = @ + 1]
    /\ UNCHANGED <<pc, inflight, ended, shutdown>>

Starts(r) ==
    /\ pc[r] = "queued" /\ next[r] > Len(Wants(r))
    /\ RunTo(r, "executing")
    /\ UNCHANGED <<svars, next, inflight, active, ended, shutdown>>

(* The context ends first: releaseAll.                                     *)
Aborts(r) ==
    /\ r \in ended /\ Waits(r)
    /\ IF AtGlobal(r) THEN UNCHANGED svars ELSE GiveUp(Call(r))
    /\ next' = [next EXCEPT ![r] = @ - 1]
    /\ RunTo(r, "aborting")
    /\ UNCHANGED <<inflight, active, ended, shutdown>>

(* The next release of releaseAll, last slot first; a key's receives from  *)
(* the channel and then leaves.                                            *)
Releases(r) ==
    /\ pc[r] \in {"unwinding", "aborting"} /\ next[r] > 0
    /\ \/ /\ AtGlobal(r) /\ active' = active - 1
          /\ next' = [next EXCEPT ![r] = @ - 1]
          /\ UNCHANGED svars
       \/ /\ ~AtGlobal(r) /\ Receive(Call(r))
          /\ next' = [next EXCEPT ![r] = IF sem[Call(r)] = Nil THEN @ - 1 ELSE @]
          /\ UNCHANGED active
       \/ /\ ~AtGlobal(r) /\ Leave(Call(r))
          /\ next' = [next EXCEPT ![r] = @ - 1]
          /\ UNCHANGED active
    /\ UNCHANGED <<pc, inflight, ended, shutdown>>

(* Mutant of Released: a run without its slots executes its stages.        *)
ReleasedExecutes(r) ==
    /\ pc[r] \in {"unwinding", "aborting"} /\ next[r] = 0
    /\ RunTo(r, IF pc[r] = "aborting" THEN "executing" ELSE "executed")
    /\ UNCHANGED <<svars, next, inflight, active, ended, shutdown>>

(* A run without its slots is executed only to record that it was canceled. *)
Released(r) ==
    /\ pc[r] \in {"unwinding", "aborting"} /\ next[r] = 0
    /\ RunTo(r, IF pc[r] = "aborting" THEN "canceled" ELSE "executed")
    /\ UNCHANGED <<svars, next, inflight, active, ended, shutdown>>

-----------------------------------------------------------------------------
(* execute, and queueAndExecute's deferred calls.                          *)

(* A model call or a tool of a run: its slot, the call, and release.       *)
InnerStep(r, k) ==
    /\ \/ pc[r] = "executing"
          /\ (Lookup(InnerCall(r, k)) \/ Unlimited(InnerCall(r, k)))
       \/ Take(InnerCall(r, k))
       \/ r \in ended /\ GiveUp(InnerCall(r, k))
       \/ Receive(InnerCall(r, k)) \/ Leave(InnerCall(r, k))
    /\ UNCHANGED <<pc, next, inflight, active, ended, shutdown>>

(* The run ends, which an Endless one need not before its context does.    *)
ExecuteEnds(r) ==
    /\ pc[r] = "executing" /\ (\A k \in Inner : at[InnerCall(r, k)] = "out")
    /\ next' = [next EXCEPT ![r] = Len(Wants(r))]
    /\ RunTo(r, "unwinding")
    /\ UNCHANGED <<svars, inflight, active, ended, shutdown>>

(* Mutant of release: a run that never got its slots stays counted.        *)
releaseExecuted(r) ==
    /\ pc[r] \in {"canceled", "executed"}
    /\ inflight' = IF pc[r] = "executed" THEN inflight - 1 ELSE inflight
    /\ RunTo(r, "done")
    /\ UNCHANGED <<svars, next, active, ended, shutdown>>

release(r) ==
    /\ pc[r] \in {"canceled", "executed"}
    /\ inflight' = inflight - 1
    /\ RunTo(r, "done")
    /\ UNCHANGED <<svars, next, active, ended, shutdown>>

(* Cancel, a lost lease or, while it executes, the run's deadline.         *)
EndContext(r) ==
    /\ pc[r] \in {"queued", "executing"} /\ r \in Canceled \ ended
    /\ ended' = ended \cup {r}
    /\ UNCHANGED <<svars, pc, next, inflight, active, shutdown>>

-----------------------------------------------------------------------------
Shutdown ==
    /\ ShutsDown /\ shutdown = "no" /\ shutdown' = "draining"
    /\ UNCHANGED <<svars, pc, next, inflight, active, ended>>

(* Its own context ends first: stopRuns ends those of the launched runs.   *)
StopRuns ==
    /\ shutdown = "draining" /\ inflight > 0
    /\ shutdown' = "stopped"
    /\ ended' = ended \cup {r \in Runs : pc[r] \notin {"new", "refused", "admitted", "done"}}
    /\ UNCHANGED <<svars, pc, next, inflight, active>>

Drained ==
    /\ shutdown \in {"draining", "stopped"} /\ inflight = 0
    /\ shutdown' = "returned"
    /\ UNCHANGED <<svars, pc, next, inflight, active, ended>>

-----------------------------------------------------------------------------
Queueing(r) ==
    \/ Asks(r) \/ Gets(r) \/ Starts(r) \/ Aborts(r)
    \/ Releases(r) \/ Released(r) \/ release(r)

Next ==
    \/ \E r \in Runs :
          \/ admit(r) \/ refuse(r) \/ CreateFails(r) \/ Launch(r) \/ Queueing(r)
          \/ ExecuteEnds(r) \/ EndContext(r)
          \/ \E k \in Inner : InnerStep(r, k)
    \/ Shutdown \/ StopRuns \/ Drained

Spec == Init /\ [][Next]_vars

(* A run is at one place, and goes on from there: its stages return once   *)
(* their calls are over, Endless ones when their context ends.             *)
GoesOn(r) ==
    \/ Launch(r) \/ CreateFails(r) \/ Queueing(r)
    \/ (r \notin Endless \/ r \in ended) /\ ExecuteEnds(r)

(* Goroutines run.  A channel serves its blocked senders in order, so one  *)
(* that can send again and again gets its turn; a run's end waits for the  *)
(* calls that are open, again and again.                                   *)
FairSpec ==
    /\ Spec
    /\ \A r \in Runs :
          /\ SF_vars(GoesOn(r))
          /\ \A k \in Inner : SF_vars(at[InnerCall(r, k)] # "out" /\ InnerStep(r, k))
    /\ WF_vars(Drained)

-----------------------------------------------------------------------------
(* Properties.                                                             *)

Working(r) == pc[r] = "executing"

(* Whatever is canceled, given up or forgotten on the way: the runs that   *)
(* execute stages never exceed the process's, their tenant's or their      *)
(* workflow's limit.                                                       *)
WorkBounded ==
    /\ MaxActiveRuns > 0 => Cardinality({r \in Runs : Working(r)}) <= MaxActiveRuns
    /\ \A q \in Runs :
          /\ PerTenant > 0 =>
                Cardinality({r \in Runs : Working(r) /\ TenantOf[r] = TenantOf[q]})
                    <= PerTenant
          /\ PerWorkflow > 0 /\ WorkflowOf[q] # NoName =>
                Cardinality({r \in Runs : /\ Working(r) /\ TenantOf[r] = TenantOf[q]
                                          /\ WorkflowOf[r] = WorkflowOf[q]})
                    <= PerWorkflow

Quiet == \A r \in Runs : pc[r] \in {"new", "refused", "done"}

(* No error path leaks: once every run is refused or done, no slot is      *)
(* taken, no key is remembered and nothing counts as admitted.  Shutdown   *)
(* returns only then, having waited for the runs that were admitted while  *)
(* it was called, too.                                                     *)
NothingLeaks ==
    /\ Quiet => /\ inflight = 0 /\ active = 0
                /\ \A k \in DOMAIN slots : slots[k] = Nil
    /\ shutdown = "returned" => Quiet

(* The nested waits never lock each other out: every admitted run ends, or *)
(* waits behind an endless run of its own tenant, and a Shutdown that has  *)
(* stopped the runs returns.                                               *)
Settled(r) ==
    \/ pc[r] \in {"new", "refused", "done"}
    \/ \E e \in Endless \ ended : TenantOf[e] = TenantOf[r] /\ Working(e)

EveryRunEnds == <>[]((\A r \in Runs : Settled(r)) /\ shutdown # "stopped")

=============================================================================
