---------------------------- MODULE RunOwnership ----------------------------
(***************************************************************************)
(* Who executes a run.  Processes that share one store keep each run to    *)
(* one executor with a lease on the run's row (store/store.go RunStore,    *)
(* runtime/orchestrator.go claim, launch, resume, Recover, keepLease,      *)
(* stillLeased, execute, Cancel, cancelPaused, Shutdown).                  *)
(*                                                                         *)
(* The module follows ONE run: ownership never relates two runs.  Every    *)
(* step is one call of the store or one critical section of Orchestrator.mu*)
(* with the local code around it, so the calls of the creating, resuming,  *)
(* cancelling, renewing and executing goroutines of all processes          *)
(* interleave as they can in the program.                                  *)
(*                                                                         *)
(* Time is relative.  One Tick is a third of a lease (the period of        *)
(* keepLease); leaseLeft counts the ticks until LeaseUntil, and since[p]   *)
(* the ticks since p's last successful renewal.                            *)
(***************************************************************************)
EXTENDS Naturals

CONSTANTS
    Procs,        \* processes sharing the store, named by Orchestrator.Owner
    NoOwner,      \* the empty Owner of a row nobody holds
    Creator,      \* the process that StartRun is called on
    Recovering,   \* processes that run KeepRecovering
    Resumers,     \* processes a human may call Resume on
    Cancellers,   \* processes a human may call Cancel on
    Stopping,     \* processes that may be told to shut down
    Mortal,       \* processes that may crash
    Lease,        \* ticks in Orchestrator.Lease (3: it is renewed every third)
    LoopResponse, \* Orchestrator.LoopResponse: "fail" or "pause"
    CreateWindow, \* may Recover or Resume meet a run its own process creates?
    Stall,        \* how long live processes may stall, see Prompt
    MaxRestarts,  \* bound: processes started again
    MaxErrors     \* bound: store calls that fail

ASSUME OwnershipAssumption ==
    /\ NoOwner \notin Procs
    /\ Creator \in Procs
    /\ Recovering \subseteq Procs /\ Resumers \subseteq Procs
    /\ Cancellers \subseteq Procs /\ Stopping \subseteq Procs
    /\ Mortal \subseteq Procs
    /\ Lease \in Nat \ {0}
    /\ LoopResponse \in {"fail", "pause"}
    /\ CreateWindow \in BOOLEAN
    /\ Stall \in {"none", "short", "any"}
    /\ MaxRestarts \in Nat /\ MaxErrors \in Nat

VARIABLES
    status,          \* the row: Run.Status, "none" before CreateRun
    owner,           \* the row: Run.Owner
    leaseLeft,       \* the row: Run.LeaseUntil, in ticks from now
    cancelRequested, \* the row: Run.CancelRequested
    starter,         \* the one StartRun call on Creator
    phase,           \* per process: running, or how far Shutdown is
    reg,             \* the processes whose Orchestrator.runs has the run
    cause,           \* per process: cancellation cause of its run context
    exe,             \* per process: the goroutine of queueAndExecute
    outcome,         \* per process: execute's finalStatus
    renewing,        \* the processes whose keepLease goroutine is alive
    due,             \* those whose ticker fired and was not served
    since,           \* per process: ticks since keepLease's "renewed"
    asks,            \* per process: who has called resume, before its claim
    rec,             \* per process: the resume that has the claim
    recBy,           \* per process: who asked for it
    recStatus,       \* per process: run.Status as that resume read it
    recCancel,       \* the processes whose resume read CancelRequested set
    can,             \* per process: the goroutine in Cancel
    restarts, errors \* how much of the fault bounds is used

row   == <<status, owner, leaseLeft, cancelRequested>>
exec  == <<exe, outcome, renewing, due, since>>
resum == <<asks, rec, recBy, recStatus, recCancel>>
vars  == <<row, starter, phase, reg, cause, exec, resum, can, restarts, errors>>

-----------------------------------------------------------------------------
(* core.RunStatus; "canceling" and "superseded" are never written.         *)
Final      == {"succeeded", "canceled"}          \* resume refuses these
Terminal   == Final \cup {"failed", "timed_out"} \* RunStatus.Terminal
Unfinished == {"queued", "running", "awaiting_approval", "paused"}
Statuses   == {"none"} \cup Unfinished \cup Terminal

Causes  == {"none", "canceled", "deadline", "shutdown", "lease_lost"}
ExePcs  == {"none", "queued", "running", "awaiting", "ending", "lost", "held",
            "written", "unwritten", "released", "kept"}
Askers  == {"recover", "human"}
RecPcs  == {"idle", "claimed", "read", "leased", "admitted", "release"}
CanPcs  == {"idle", "found", "stale", "missing", "local", "remote", "paused",
            "pclaimed", "pleased", "pread", "pfailed", "prelease"}

TypeOK ==
    /\ status \in Statuses
    /\ owner \in Procs \cup {NoOwner}
    /\ leaseLeft \in 0 .. Lease
    /\ cancelRequested \in BOOLEAN
    /\ starter \in {"none", "stored", "started", "failed"}
    /\ phase \in [Procs -> {"up", "draining", "stopped", "down"}]
    /\ reg \subseteq Procs
    /\ cause \in [Procs -> Causes]
    /\ exe \in [Procs -> ExePcs]
    /\ outcome \in [Procs -> Terminal \cup {"paused"}]
    /\ renewing \subseteq Procs
    /\ due \subseteq Procs
    /\ since \in [Procs -> 0 .. Lease]
    /\ asks \in [Procs -> SUBSET Askers]
    /\ rec \in [Procs -> RecPcs]
    /\ recBy \in [Procs -> Askers]
    /\ recStatus \in [Procs -> Statuses]
    /\ recCancel \subseteq Procs
    /\ can \in [Procs -> CanPcs]
    /\ restarts \in 0 .. MaxRestarts
    /\ errors \in 0 .. MaxErrors

Init ==
    /\ status = "none" /\ owner = NoOwner /\ leaseLeft = 0
    /\ cancelRequested = FALSE
    /\ starter = "none"
    /\ phase = [p \in Procs |-> "up"]
    /\ reg = {}
    /\ cause = [p \in Procs |-> "none"]
    /\ exe = [p \in Procs |-> "none"]
    /\ outcome = [p \in Procs |-> "succeeded"]
    /\ renewing = {}
    /\ due = {}
    /\ since = [p \in Procs |-> 0]
    /\ asks = [p \in Procs |-> {}]
    /\ rec = [p \in Procs |-> "idle"]
    /\ recBy = [p \in Procs |-> "recover"]
    /\ recStatus = [p \in Procs |-> "none"]
    /\ recCancel = {}
    /\ can = [p \in Procs |-> "idle"]
    /\ restarts = 0 /\ errors = 0

Up(p) == phase[p] # "down"

(* A store call fails: the bound counts it.                                *)
Fault == errors < MaxErrors /\ errors' = errors + 1

-----------------------------------------------------------------------------
(* The store's lease operations.                                           *)

(* Mutants of CanClaim: ClaimRun forgets the holder, or the expiry.        *)
CanClaimAlways(p) == TRUE
CanClaimFreeOnly(p) == owner \in {NoOwner, p}

(* ClaimRun's condition: nobody else holds an unexpired lease.             *)
CanClaim(p) == owner \in {NoOwner, p} \/ leaseLeft = 0

TakeLease(p) == owner' = p /\ leaseLeft' = Lease

(* ReleaseRun is conditional on the owner.                                 *)
ReleaseRun(p) ==
    /\ owner' = IF owner = p THEN NoOwner ELSE owner
    /\ leaseLeft' = IF owner = p THEN 0 ELSE leaseLeft

(* Its error is only logged: the lease then runs out.                      *)
LetGo(p) ==
    \/ ReleaseRun(p) /\ UNCHANGED errors
    \/ Fault /\ UNCHANGED <<owner, leaseLeft>>

(* The process-local registry.  A run context is born from the base        *)
(* context, which Shutdown cancels, and keeps its first cause.             *)
Claim(p) ==
    /\ reg' = reg \cup {p}
    /\ cause' = [cause EXCEPT ![p] = IF phase[p] = "stopped" THEN "shutdown"
                                                            ELSE "none"]

(* unclaim, and execute's delete: a Cancel that looked the run up keeps    *)
(* the context of a claim that is over, so its cancel reaches nobody.      *)
Unclaim(p) ==
    /\ reg' = reg \ {p}
    /\ cause' = [cause EXCEPT ![p] = "none"]

Outdated(pc) == CASE pc = "found" -> "stale"
                  [] pc = "local" -> "remote"
                  [] OTHER        -> pc

CancelCtx(p, why) ==
    cause' = [cause EXCEPT ![p] = IF @ = "none" THEN why ELSE @]

(* go queueAndExecute: keepLease starts with renewed = now, and execute    *)
(* with finalStatus = succeeded.                                           *)
Launch(p) ==
    /\ exe' = [exe EXCEPT ![p] = "queued"]
    /\ outcome' = [outcome EXCEPT ![p] = "succeeded"]
    /\ renewing' = renewing \cup {p}
    /\ due' = due \ {p}
    /\ since' = [since EXCEPT ![p] = 0]

ExeTo(p, pc) ==
    exe' = [exe EXCEPT ![p] = pc] /\ UNCHANGED <<outcome, renewing, due, since>>

RecTo(p, pc) ==
    rec' = [rec EXCEPT ![p] = pc] /\ UNCHANGED <<asks, recBy, recStatus, recCancel>>

RecReturn(p) ==
    /\ rec' = [rec EXCEPT ![p] = "idle"]
    /\ recBy' = [recBy EXCEPT ![p] = "recover"]
    /\ recStatus' = [recStatus EXCEPT ![p] = "none"]
    /\ recCancel' = recCancel \ {p}

(* The end of a resume that did not start the run: the deferred unclaim.   *)
RecGiveUp(p) ==
    /\ RecReturn(p)
    /\ Unclaim(p)
    /\ can' = [can EXCEPT ![p] = Outdated(@)]
    /\ UNCHANGED asks

-----------------------------------------------------------------------------
(* StartRun: createRun stores the run with the creator's lease, then       *)
(* launch claims it locally and starts it.                                 *)

CreateRun ==
    /\ starter = "none" /\ phase[Creator] = "up"
    /\ starter' = "stored"
    /\ status' = "queued"
    /\ TakeLease(Creator)
    /\ UNCHANGED <<cancelRequested, phase, reg, cause, exec, resum, can,
                   restarts, errors>>

LaunchRun ==
    /\ starter = "stored" /\ Creator \notin reg
    /\ starter' = "started"
    /\ Claim(Creator)
    /\ Launch(Creator)
    /\ UNCHANGED <<row, phase, resum, can, restarts, errors>>

(* StartRun returns an error: the run is already executing here, or an     *)
(* input image could not be stored.  The row and its lease stay.           *)
LaunchFails ==
    /\ starter = "stored"
    /\ \/ Creator \in reg /\ UNCHANGED errors
       \/ Fault
    /\ starter' = "failed"
    /\ UNCHANGED <<row, phase, reg, cause, exec, resum, can, restarts>>

-----------------------------------------------------------------------------
(* Recover and Resume.                                                     *)

(* The row the creator wrote but has not launched yet is visible to        *)
(* Recover and Resume of the same process.                                 *)
Visible(p) == CreateWindow \/ p # Creator \/ starter # "stored"

(* A call of resume, which may wait before its claim while others of the   *)
(* process claim, run and return.                                          *)
RecAsk(p, by) ==
    /\ phase[p] = "up" /\ by \notin asks[p] /\ Visible(p)
    /\ asks' = [asks EXCEPT ![p] = @ \cup {by}]
    /\ UNCHANGED <<row, starter, phase, reg, cause, exec, rec, recBy, recStatus,
                   recCancel, can, restarts, errors>>

(* Recover lists the unfinished runs and skips the paused ones; what it    *)
(* acts on later is this snapshot.  Its goroutine resumes one by one.      *)
RecoverList(p) ==
    /\ p \in Recovering /\ status \in Unfinished \ {"paused"}
    /\ ~(rec[p] # "idle" /\ recBy[p] = "recover")
    /\ RecAsk(p, "recover")

ResumeAsked(p) == p \in Resumers /\ status # "none" /\ RecAsk(p, "human")

(* Mutant of ResumeClaim: the registry is not consulted.                   *)
ResumeClaimBlindly(p, by) ==
    /\ by \in asks[p] /\ asks' = [asks EXCEPT ![p] = @ \ {by}]
    /\ rec' = [rec EXCEPT ![p] = "claimed"] /\ recBy' = [recBy EXCEPT ![p] = by]
    /\ Claim(p)
    /\ UNCHANGED <<row, starter, phase, exec, recStatus, recCancel, can, restarts,
                   errors>>

(* resume's claim: ErrConflict when the run is registered here.  It does   *)
(* not look at rec: that the resume before is over then, is the registry's *)
(* doing.                                                                  *)
ResumeClaim(p, by) ==
    /\ by \in asks[p] /\ asks' = [asks EXCEPT ![p] = @ \ {by}]
    /\ \/ p \in reg /\ UNCHANGED <<reg, cause, rec, recBy>>
       \/ /\ p \notin reg /\ Claim(p)
          /\ rec' = [rec EXCEPT ![p] = "claimed"]
          /\ recBy' = [recBy EXCEPT ![p] = by]
    /\ UNCHANGED <<row, starter, phase, exec, recStatus, recCancel, can, restarts,
                   errors>>

(* Mutant of ResumeRead: a finished run is not refused.                    *)
ResumeReadAny(p) ==
    /\ rec[p] = "claimed"
    /\ rec' = [rec EXCEPT ![p] = "read"]
    /\ recStatus' = [recStatus EXCEPT ![p] = status]
    /\ recCancel' = IF cancelRequested THEN recCancel \cup {p} ELSE recCancel
    /\ UNCHANGED <<row, starter, phase, reg, cause, exec, asks, recBy, can, restarts,
                   errors>>

(* GetRun, before ClaimRun: what follows uses this copy of the row.        *)
ResumeRead(p) ==
    /\ rec[p] = "claimed"
    /\ \/ /\ status \in Final
          /\ RecGiveUp(p)
       \/ /\ status \notin Final
          /\ rec' = [rec EXCEPT ![p] = "read"]
          /\ recStatus' = [recStatus EXCEPT ![p] = status]
          /\ recCancel' = IF cancelRequested THEN recCancel \cup {p} ELSE recCancel
          /\ UNCHANGED <<asks, recBy, reg, cause, can>>
    /\ UNCHANGED <<row, starter, phase, exec, restarts, errors>>

(* ClaimRun, which looks at the lease only, not at the status.             *)
ResumeLease(p) ==
    /\ rec[p] = "read"
    /\ \/ /\ CanClaim(p)
          /\ TakeLease(p)
          /\ RecTo(p, "leased")
          /\ UNCHANGED <<reg, cause, can>>
       \/ /\ ~CanClaim(p)
          /\ RecGiveUp(p)
          /\ UNCHANGED <<owner, leaseLeft>>
    /\ UNCHANGED <<status, cancelRequested, starter, phase, exec, restarts,
                   errors>>

(* Reading the run, its workflow, images or tasks, or a write, fails.      *)
ResumeError(p) ==
    /\ Fault
    /\ \/ rec[p] \in {"claimed", "read"} /\ RecGiveUp(p)
       \/ rec[p] \in {"leased", "admitted"} /\ RecTo(p, "release")
          /\ UNCHANGED <<reg, cause, can>>
    /\ UNCHANGED <<row, starter, phase, exec, restarts>>

(* finishCanceled, for a cancel asked for while nobody executed the run.   *)
ResumeCanceled(p) ==
    /\ rec[p] = "leased" /\ p \in recCancel
    /\ status' = "canceled"
    /\ RecTo(p, "release")
    /\ UNCHANGED <<owner, leaseLeft, cancelRequested, starter, phase, reg,
                   cause, exec, can, restarts, errors>>

(* admit: refused when closing, and for a human also when the queue is     *)
(* full (any time: the queue holds other runs).                            *)
ResumeAdmit(p) ==
    /\ rec[p] = "leased" /\ p \notin recCancel
    /\ \/ phase[p] = "up" /\ RecTo(p, "admitted")
       \/ (phase[p] # "up" \/ recBy[p] = "human") /\ RecTo(p, "release")
    /\ UNCHANGED <<row, starter, phase, reg, cause, exec, can, restarts,
                   errors>>

(* A failed, timed out or paused run is reopened; then it starts.          *)
ResumeLaunch(p) ==
    /\ rec[p] = "admitted"
    /\ status' = IF recStatus[p] \in Terminal \cup {"paused"} THEN "queued"
                                                              ELSE status
    /\ RecReturn(p)
    /\ Launch(p)
    /\ UNCHANGED <<owner, leaseLeft, cancelRequested, starter, phase, reg,
                   cause, asks, can, restarts, errors>>

(* The deferred ReleaseRun, then unclaim.                                  *)
ResumeRelease(p) ==
    /\ rec[p] = "release"
    /\ LetGo(p)
    /\ RecGiveUp(p)
    /\ UNCHANGED <<status, cancelRequested, starter, phase, exec, restarts>>

-----------------------------------------------------------------------------
(* queueAndExecute and execute.                                            *)

(* transitionRun(running).  It is skipped when the context ends after      *)
(* execute looked at it, and its errors are only logged.                   *)
ExecStart(p) ==
    /\ exe[p] = "queued"
    /\ \/ cause[p] = "none" /\ status' = "running" /\ UNCHANGED errors
       \/ cause[p] # "none" /\ UNCHANGED <<status, errors>>
       \/ Fault /\ UNCHANGED status
    /\ ExeTo(p, "running")
    /\ UNCHANGED <<owner, leaseLeft, cancelRequested, starter, phase, reg,
                   cause, resum, can, restarts>>

(* "canceled while queued".                                                *)
ExecCanceledQueued(p) ==
    /\ exe[p] = "queued" /\ cause[p] # "none"
    /\ exe' = [exe EXCEPT ![p] = "ending"]
    /\ outcome' = [outcome EXCEPT ![p] = "canceled"]
    /\ UNCHANGED <<row, starter, phase, reg, cause, renewing, due, since,
                   resum, can, restarts, errors>>

(* MaxRuntime passes: the run's own timeout context ends.                  *)
ExecDeadline(p) ==
    /\ exe[p] \in {"running", "awaiting"} /\ cause[p] = "none"
    /\ CancelCtx(p, "deadline")
    /\ UNCHANGED <<row, starter, phase, reg, exec, resum, can, restarts, errors>>

(* awaitApproval records that the run waits, and that it runs again once   *)
(* it is answered; a context that ended skips the second write.            *)
ExecAwait(p) ==
    /\ exe[p] = "running" /\ cause[p] = "none"
    /\ \/ status' = "awaiting_approval" /\ UNCHANGED errors
       \/ Fault /\ UNCHANGED status
    /\ ExeTo(p, "awaiting")
    /\ UNCHANGED <<owner, leaseLeft, cancelRequested, starter, phase, reg,
                   cause, resum, can, restarts>>

ExecAnswered(p) ==
    /\ exe[p] = "awaiting"
    /\ \/ cause[p] = "none" /\ status' = "running" /\ UNCHANGED errors
       \/ cause[p] # "none" /\ UNCHANGED <<status, errors>>
       \/ Fault /\ UNCHANGED status
    /\ ExeTo(p, "running")
    /\ UNCHANGED <<owner, leaseLeft, cancelRequested, starter, phase, reg,
                   cause, resum, can, restarts>>

(* What runStages may return: work that ends before it sees its context    *)
(* end keeps its own outcome, and errPaused wins over a cancellation.      *)
Outcomes(p) ==
    {"succeeded", "failed", "timed_out"}
      \cup (IF LoopResponse = "pause" THEN {"paused"} ELSE {})
      \cup (IF cause[p] \in {"none", "deadline"} THEN {} ELSE {"canceled"})

ExecOutcome(p) ==
    /\ exe[p] = "running"
    /\ \E o \in Outcomes(p) : outcome' = [outcome EXCEPT ![p] = o]
    /\ exe' = [exe EXCEPT ![p] = "ending"]
    /\ UNCHANGED <<row, starter, phase, reg, cause, renewing, due, since,
                   resum, can, restarts, errors>>

(* stillLeased: stop keepLease, then ask the store once more; an error     *)
(* counts as still held.                                                   *)
ExecCheckLease(p) ==
    /\ exe[p] = "ending"
    /\ \/ /\ cause[p] # "lease_lost" /\ owner = p
          /\ exe' = [exe EXCEPT ![p] = "held"]
          /\ leaseLeft' = Lease
          /\ UNCHANGED errors
       \/ /\ cause[p] # "lease_lost" /\ Fault
          /\ exe' = [exe EXCEPT ![p] = "held"]
          /\ UNCHANGED leaseLeft
       \/ /\ cause[p] = "lease_lost" \/ owner # p
          /\ exe' = [exe EXCEPT ![p] = "lost"]
          /\ UNCHANGED <<leaseLeft, errors>>
    /\ renewing' = renewing \ {p}
    /\ due' = due \ {p}
    /\ since' = [since EXCEPT ![p] = 0]
    /\ UNCHANGED <<status, owner, cancelRequested, starter, phase, reg, cause,
                   outcome, resum, can, restarts>>

(* A run stopped by Shutdown keeps its unfinished status.                  *)
Checkpointed(p) == outcome[p] = "canceled" /\ cause[p] = "shutdown"

ExecWriteFinal(p) ==
    /\ exe[p] = "held" /\ ~Checkpointed(p)
    /\ \/ status' = outcome[p] /\ ExeTo(p, "written") /\ UNCHANGED errors
       \/ Fault /\ ExeTo(p, "unwritten") /\ UNCHANGED status
    /\ UNCHANGED <<owner, leaseLeft, cancelRequested, starter, phase, reg,
                   cause, resum, can, restarts>>

(* releaseLease; a run whose final write failed stays in Orchestrator.runs.*)
ExecRelease(p) ==
    /\ \/ exe[p] \in {"written", "unwritten"}
       \/ exe[p] = "held" /\ Checkpointed(p)
    /\ LetGo(p)
    /\ ExeTo(p, IF exe[p] = "unwritten" THEN "kept" ELSE "released")
    /\ UNCHANGED <<status, cancelRequested, starter, phase, reg, cause, resum,
                   can, restarts>>

(* execute deletes the run from Orchestrator.runs and returns; one that    *)
(* lost its lease does so without releasing it.                            *)
ExecDone(p) ==
    /\ exe[p] \in {"released", "lost"}
    /\ exe' = [exe EXCEPT ![p] = "none"]
    /\ outcome' = [outcome EXCEPT ![p] = "succeeded"]
    /\ Unclaim(p)
    /\ can' = [can EXCEPT ![p] = Outdated(@)]
    /\ UNCHANGED <<row, starter, phase, renewing, due, since, resum, restarts,
                   errors>>

-----------------------------------------------------------------------------
(* keepLease, once per served tick.                                        *)

(* Mutant of RenewOK: the renewal's answer about cancellation is dropped.  *)
RenewDeaf(p) ==
    /\ p \in renewing /\ p \in due /\ owner = p
    /\ leaseLeft' = Lease
    /\ since' = [since EXCEPT ![p] = 0]
    /\ due' = due \ {p}
    /\ UNCHANGED <<status, owner, cancelRequested, starter, phase, reg, cause,
                   exe, outcome, renewing, resum, can, restarts, errors>>

RenewOK(p) ==
    /\ p \in renewing /\ p \in due /\ owner = p
    /\ leaseLeft' = Lease
    /\ since' = [since EXCEPT ![p] = 0]
    /\ due' = due \ {p}
    /\ IF cancelRequested THEN CancelCtx(p, "canceled") ELSE UNCHANGED cause
    /\ UNCHANGED <<status, owner, cancelRequested, starter, phase, reg, exe,
                   outcome, renewing, resum, can, restarts, errors>>

RenewLost(p) ==
    /\ p \in renewing /\ p \in due /\ owner # p
    /\ CancelCtx(p, "lease_lost")
    /\ renewing' = renewing \ {p}
    /\ due' = due \ {p}
    /\ since' = [since EXCEPT ![p] = 0]
    /\ UNCHANGED <<row, starter, phase, reg, exe, outcome, resum, can,
                   restarts, errors>>

(* Mutant of RenewError: it never gives up.                                *)
RenewErrorForever(p) ==
    /\ p \in renewing /\ p \in due /\ Fault
    /\ due' = due \ {p}
    /\ UNCHANGED <<row, starter, phase, reg, cause, exe, outcome, renewing,
                   since, resum, can, restarts>>

(* It gives up once no renewal succeeded for a whole lease.                *)
RenewError(p) ==
    /\ p \in renewing /\ p \in due /\ Fault
    /\ due' = due \ {p}
    /\ \/ /\ since[p] >= Lease
          /\ CancelCtx(p, "lease_lost")
          /\ renewing' = renewing \ {p}
          /\ since' = [since EXCEPT ![p] = 0]
       \/ since[p] < Lease /\ UNCHANGED <<cause, renewing, since>>
    /\ UNCHANGED <<row, starter, phase, reg, exe, outcome, resum, can, restarts>>

-----------------------------------------------------------------------------
(* Cancel.  It looks the run up in this process, then reads the row.       *)

CanTo(p, pc) == can' = [can EXCEPT ![p] = pc]

CancelAsk(p) ==
    /\ p \in Cancellers /\ Up(p) /\ can[p] = "idle" /\ status # "none"
    /\ CanTo(p, IF p \in reg THEN "found" ELSE "missing")
    /\ UNCHANGED <<row, starter, phase, reg, cause, exec, resum, restarts, errors>>

CancelRead(p) ==
    /\ can[p] \in {"found", "stale", "missing"}
    /\ CanTo(p, CASE status \in Terminal -> "idle"
                  [] status \notin Terminal /\ can[p] = "found" -> "local"
                  [] status = "paused" /\ can[p] = "missing" -> "paused"
                  [] OTHER -> "remote")
    /\ UNCHANGED <<row, starter, phase, reg, cause, exec, resum, restarts, errors>>

(* RequestCancel, after cancelling the context when the run is here.       *)
CancelRequest(p) ==
    /\ can[p] \in {"local", "remote"}
    /\ IF can[p] = "local" THEN CancelCtx(p, "canceled") ELSE UNCHANGED cause
    /\ \/ cancelRequested' = TRUE /\ UNCHANGED errors
       \/ Fault /\ UNCHANGED cancelRequested
    /\ CanTo(p, "idle")
    /\ UNCHANGED <<status, owner, leaseLeft, starter, phase, reg, exec, resum,
                   restarts>>

(* cancelPaused holds the claim and the lease while it cancels; on         *)
(* ErrConflict, Cancel goes on to record the request.                      *)
CancelPausedClaim(p) ==
    /\ can[p] = "paused"
    /\ \/ p \in reg /\ CanTo(p, "remote") /\ UNCHANGED <<reg, cause>>
       \/ p \notin reg /\ CanTo(p, "pclaimed") /\ Claim(p)
    /\ UNCHANGED <<row, starter, phase, exec, resum, restarts, errors>>

CancelPausedLease(p) ==
    /\ can[p] = "pclaimed"
    /\ \/ /\ CanClaim(p) /\ TakeLease(p)
          /\ CanTo(p, "pleased")
          /\ UNCHANGED <<reg, cause, errors>>
       \/ /\ ~CanClaim(p)
          /\ CanTo(p, "remote") /\ Unclaim(p)
          /\ UNCHANGED <<owner, leaseLeft, errors>>
       \/ /\ Fault
          /\ CanTo(p, "idle") /\ Unclaim(p)
          /\ UNCHANGED <<owner, leaseLeft>>
    /\ UNCHANGED <<status, cancelRequested, starter, phase, exec, resum,
                   restarts>>

CancelPausedRead(p) ==
    /\ can[p] = "pleased"
    /\ \/ status = "paused" /\ CanTo(p, "pread") /\ UNCHANGED errors
       \/ status # "paused" /\ CanTo(p, "pfailed") /\ UNCHANGED errors
       \/ Fault /\ CanTo(p, "prelease")
    /\ UNCHANGED <<row, starter, phase, reg, cause, exec, resum, restarts>>

CancelPausedWrite(p) ==
    /\ can[p] = "pread"
    /\ \/ status' = "canceled" /\ UNCHANGED errors
       \/ Fault /\ UNCHANGED status
    /\ CanTo(p, "prelease")
    /\ UNCHANGED <<owner, leaseLeft, cancelRequested, starter, phase, reg,
                   cause, exec, resum, restarts>>

CancelPausedRelease(p) ==
    /\ can[p] \in {"pfailed", "prelease"}
    /\ LetGo(p)
    /\ CanTo(p, IF can[p] = "pfailed" THEN "remote" ELSE "idle")
    /\ Unclaim(p)
    /\ UNCHANGED <<status, cancelRequested, starter, phase, exec, resum,
                   restarts>>

-----------------------------------------------------------------------------
(* Processes.  Everything but the row is lost with its process.            *)

Forget(p) ==
    /\ phase' = [phase EXCEPT ![p] = "down"]
    /\ reg' = reg \ {p}
    /\ cause' = [cause EXCEPT ![p] = "none"]
    /\ exe' = [exe EXCEPT ![p] = "none"]
    /\ outcome' = [outcome EXCEPT ![p] = "succeeded"]
    /\ renewing' = renewing \ {p}
    /\ due' = due \ {p}
    /\ since' = [since EXCEPT ![p] = 0]
    /\ RecReturn(p) /\ asks' = [asks EXCEPT ![p] = {}]
    /\ can' = [can EXCEPT ![p] = "idle"]
    /\ UNCHANGED <<row, restarts, errors>>

Crash(p) ==
    /\ p \in Mortal /\ Up(p)
    /\ Forget(p)
    /\ starter' = IF p = Creator /\ starter = "stored" THEN "failed"
                                                       ELSE starter

(* A process started again under the same Owner.                           *)
Restart(p) ==
    /\ ~Up(p) /\ restarts < MaxRestarts
    /\ phase' = [phase EXCEPT ![p] = "up"]
    /\ restarts' = restarts + 1
    /\ UNCHANGED <<row, starter, reg, cause, exec, resum, can, errors>>

(* Shutdown refuses new runs and waits for the admitted ones; when its     *)
(* context ends it cancels the base context of the runs and waits again.   *)
Shutdown(p) ==
    /\ p \in Stopping /\ phase[p] = "up"
    /\ phase' = [phase EXCEPT ![p] = "draining"]
    /\ UNCHANGED <<row, starter, reg, cause, exec, resum, can, restarts, errors>>

StopRuns(p) ==
    /\ phase[p] = "draining"
    /\ phase' = [phase EXCEPT ![p] = "stopped"]
    /\ IF p \in reg THEN CancelCtx(p, "shutdown") ELSE UNCHANGED cause
    /\ UNCHANGED <<row, starter, reg, exec, resum, can, restarts, errors>>

Admitted(p) ==
    \/ exe[p] \notin {"none", "kept"}
    \/ rec[p] = "admitted"
    \/ p = Creator /\ starter = "stored"

Exit(p) ==
    /\ phase[p] \in {"draining", "stopped"} /\ ~Admitted(p)
    /\ Forget(p)
    /\ UNCHANGED starter

-----------------------------------------------------------------------------
(* Time.                                                                   *)

(* p holds the lease for work that has no keepLease goroutine.             *)
Unrenewed(p) ==
    \/ p = Creator /\ starter = "stored"
    \/ rec[p] \in {"leased", "admitted", "release"}
    \/ exe[p] \in {"held", "written", "unwritten"}
    \/ can[p] \in {"pleased", "pread", "pfailed", "prelease"}

(* How far live processes keep up with time.  "none": a tick is served     *)
(* before the next, and work without keepLease takes less than a tick.     *)
(* "short": such work may take longer, as long as the lease still covers   *)
(* the third until keepLease's first renewal.  "any": a process may stall  *)
(* past its lease anywhere.                                                *)
Prompt ==
    \A p \in Procs : Up(p) =>
        /\ p \notin due
        /\ owner = p /\ Unrenewed(p) =>
              leaseLeft > IF Stall = "none" THEN Lease ELSE 2

Tick ==
    /\ Stall # "any" => Prompt
    /\ leaseLeft' = IF leaseLeft > 0 THEN leaseLeft - 1 ELSE 0
    /\ due' = renewing
    /\ since' = [p \in Procs |-> IF p \in renewing /\ since[p] < Lease
                                 THEN since[p] + 1 ELSE since[p]]
    /\ UNCHANGED <<status, owner, cancelRequested, starter, phase, reg, cause,
                   exe, outcome, renewing, resum, can, restarts, errors>>

-----------------------------------------------------------------------------
ResumeStep(p) ==
    \/ \E by \in Askers : ResumeClaim(p, by)
    \/ ResumeRead(p) \/ ResumeLease(p) \/ ResumeError(p) \/ ResumeCanceled(p)
    \/ ResumeAdmit(p) \/ ResumeLaunch(p) \/ ResumeRelease(p)

ExecWork(p) ==
    \/ ExecStart(p) \/ ExecAwait(p) \/ ExecAnswered(p) \/ ExecOutcome(p)

ExecEnd(p) ==
    \/ ExecCanceledQueued(p) \/ ExecCheckLease(p) \/ ExecWriteFinal(p)
    \/ ExecRelease(p) \/ ExecDone(p)

RenewStep(p) == RenewOK(p) \/ RenewLost(p) \/ RenewError(p)

CancelStep(p) ==
    \/ CancelRead(p) \/ CancelRequest(p) \/ CancelPausedClaim(p)
    \/ CancelPausedLease(p) \/ CancelPausedRead(p) \/ CancelPausedWrite(p)
    \/ CancelPausedRelease(p)

ProcStep(p) ==
    \/ Crash(p) \/ Restart(p) \/ Shutdown(p) \/ StopRuns(p) \/ Exit(p)

Next ==
    \/ CreateRun \/ LaunchRun \/ LaunchFails
    \/ \E p \in Procs :
          \/ RecoverList(p) \/ ResumeAsked(p) \/ ResumeStep(p)
          \/ ExecWork(p) \/ ExecDeadline(p) \/ ExecEnd(p)
          \/ RenewStep(p)
          \/ CancelAsk(p) \/ CancelStep(p)
          \/ ProcStep(p)
    \/ Tick

Spec == Init /\ [][Next]_vars

(* What the scheduler and the timers guarantee: goroutines run, tickers    *)
(* fire, a run whose context ended returns.  Nobody has to answer, cancel, *)
(* resume, crash or stop, and a workflow may take as long as it likes.     *)
Fairness ==
    /\ WF_vars(LaunchRun \/ LaunchFails)
    /\ WF_vars(Tick)
    /\ \A p \in Procs :
          /\ WF_vars(RecoverList(p))
          /\ WF_vars(ResumeStep(p))
          /\ WF_vars(ExecStart(p))
          /\ WF_vars(cause[p] # "none" /\ ExecWork(p))
          /\ WF_vars(ExecEnd(p))
          /\ WF_vars(RenewStep(p))
          /\ WF_vars(CancelStep(p))

FairSpec == Spec /\ Fairness

(* MaxRuntime, which every run has: Limits.Defaults fills it in.           *)
Deadlines == \A p \in Procs : WF_vars(ExecDeadline(p))

-----------------------------------------------------------------------------
(* Properties.                                                             *)

(* The process is at work on the run, and its context has not ended.       *)
Executing(p) == exe[p] \in {"running", "awaiting"} /\ cause[p] = "none"

(* The local activities that hold the claim of Orchestrator.runs.          *)
ExecuteHolds(p) == exe[p] # "none"
ResumeHolds(p) == rec[p] \in {"claimed", "read", "leased", "admitted", "release"}
CancelHolds(p) ==
    can[p] \in {"pclaimed", "pleased", "pread", "pfailed", "prelease"}

(* claim and unclaim keep each run to one activity of a process: starting, *)
(* resuming, executing and cancelling a paused run never overlap, and the  *)
(* registry has the run exactly while one of them is at work: a resume     *)
(* that claims never finds another one past its claim.                     *)
LocalExclusion ==
    \A p \in Procs :
        /\ p \in reg <=> ExecuteHolds(p) \/ ResumeHolds(p) \/ CancelHolds(p)
        /\ ~(ExecuteHolds(p) /\ ResumeHolds(p))
        /\ ~(ExecuteHolds(p) /\ CancelHolds(p))
        /\ ~(ResumeHolds(p) /\ CancelHolds(p))

(* A process at work on the run, or about to write its row under a claim   *)
(* (final status, cancellation of a paused run, reopening), owns it in the *)
(* store: two processes never execute or finish one run.                   *)
OwnedWhileActing ==
    \A p \in Procs :
        (\/ Executing(p)
         \/ exe[p] = "held"
         \/ rec[p] \in {"leased", "admitted"}
         \/ can[p] = "pread") => owner = p

(* With a store that fails: a process that has served its last tick and    *)
(* still executes the run holds its lease (keepLease gives up in time).    *)
OwnedWhenServed ==
    \A p \in Procs : Executing(p) /\ p \notin due => owner = p

(* stillLeased: a run that was taken over gets no final status from the    *)
(* process that lost it.                                                   *)
FinalFenced ==
    [][\A p \in Procs :
         exe[p] = "held" /\ exe'[p] = "written" => owner = p]_vars

(* Succeeded and canceled runs are final.                                  *)
FinalIsFinal == [][(status \in Final) => status' = status]_vars

(* A paused run is left to a human: only a resume a human asked for        *)
(* reopens it.                                                             *)
PausedLeftToHuman ==
    [][status = "paused" /\ status' = "queued" =>
         \E p \in Procs : rec[p] = "admitted" /\ recBy[p] = "human"]_vars

(* An acknowledged cancellation ends the run, wherever it executes.        *)
CancelHonoured == cancelRequested ~> status \in Terminal

(* A run with a deadline ends, or waits paused for a human, although the   *)
(* processes that execute it crash or are shut down.                       *)
RunEnds ==
    Deadlines =>
        (status \in Unfinished \ {"paused"} ~> status \in Terminal \cup {"paused"})

=============================================================================
