------------------------- MODULE RunOwnershipProofs -------------------------
(***************************************************************************)
(* Theorems about RunOwnership, for any number of processes, any lease and *)
(* any bounds on restarts and store errors.                                *)
(***************************************************************************)
EXTENDS RunOwnership, TLAPS

-----------------------------------------------------------------------------
(* Type correctness.                                                       *)

LEMMA InitType == Init => TypeOK
<1> SUFFICES ASSUME Init PROVE TypeOK
  OBVIOUS
<1>1. /\ status \in Statuses
      /\ owner \in Procs \cup {NoOwner}
      /\ leaseLeft \in 0 .. Lease
      /\ restarts \in 0 .. MaxRestarts
      /\ errors \in 0 .. MaxErrors
      /\ since \in [Procs -> 0 .. Lease]
  BY OwnershipAssumption DEF OwnershipAssumption, Init, Statuses
<1>2. /\ cancelRequested \in BOOLEAN
      /\ reg \subseteq Procs /\ renewing \subseteq Procs
      /\ due \subseteq Procs /\ recCancel \subseteq Procs
  BY DEF Init
<1>3. /\ starter \in {"none", "stored", "started", "failed"}
      /\ phase \in [Procs -> {"up", "draining", "stopped", "down"}]
      /\ cause \in [Procs -> Causes]
      /\ exe \in [Procs -> ExePcs]
      /\ outcome \in [Procs -> Terminal \cup {"paused"}]
      /\ asks \in [Procs -> SUBSET Askers]
      /\ rec \in [Procs -> RecPcs]
      /\ recBy \in [Procs -> Askers]
      /\ recStatus \in [Procs -> Statuses]
      /\ can \in [Procs -> CanPcs]
  BY DEF Init, Statuses, Causes, ExePcs, Askers, RecPcs, CanPcs, Terminal, Final
<1> QED BY <1>1, <1>2, <1>3 DEF TypeOK

(* StartRun, Recover and Resume keep the types.                            *)
LEMMA StartType ==
  ASSUME TypeOK, CreateRun \/ LaunchRun \/ LaunchFails
  PROVE  TypeOK'
<1> USE OwnershipAssumption DEF OwnershipAssumption, TypeOK, Statuses, Causes, ExePcs, Terminal,
        Final, Unfinished, row, exec, resum
<1>1. CASE CreateRun
  BY <1>1 DEF CreateRun, TakeLease
<1>2. CASE LaunchRun
  BY <1>2 DEF LaunchRun, Claim, Launch
<1>3. CASE LaunchFails
  BY <1>3 DEF LaunchFails, Fault
<1> QED BY <1>1, <1>2, <1>3

LEMMA ResumeType ==
  ASSUME TypeOK, NEW p \in Procs,
         RecoverList(p) \/ ResumeAsked(p) \/ ResumeStep(p)
  PROVE  TypeOK'
<1> USE OwnershipAssumption DEF OwnershipAssumption, TypeOK, Statuses, Causes,
        ExePcs, Askers, RecPcs, CanPcs, Terminal, Final, Unfinished, row, exec, resum
<1>1. CASE RecoverList(p)
  BY <1>1 DEF RecoverList, RecAsk
<1>2. CASE ResumeAsked(p)
  BY <1>2 DEF ResumeAsked, RecAsk
<1>3. ASSUME NEW by \in Askers, ResumeClaim(p, by) PROVE TypeOK'
  <2>1. CASE p \in reg BY <1>3, <2>1 DEF ResumeClaim
  <2>2. CASE p \notin reg BY <1>3, <2>2 DEF ResumeClaim, Claim
  <2> QED BY <2>1, <2>2
<1>4. CASE ResumeRead(p)
  <2>1. CASE status \in Final
    BY <1>4, <2>1 DEF ResumeRead, RecGiveUp, RecReturn, Unclaim, Outdated
  <2>2. CASE status \notin Final
    BY <1>4, <2>2 DEF ResumeRead
  <2> QED BY <2>1, <2>2
<1>5. CASE ResumeLease(p)
  <2>1. CASE CanClaim(p)
    BY <1>5, <2>1 DEF ResumeLease, TakeLease, RecTo
  <2>2. CASE ~CanClaim(p)
    BY <1>5, <2>2 DEF ResumeLease, RecGiveUp, RecReturn, Unclaim, Outdated
  <2> QED BY <2>1, <2>2
<1>6. CASE ResumeError(p)
  <2>1. CASE rec[p] \in {"claimed", "read"}
    BY <1>6, <2>1 DEF ResumeError, Fault, RecGiveUp, RecReturn, Unclaim, Outdated
  <2>2. CASE rec[p] \in {"leased", "admitted"}
    BY <1>6, <2>2 DEF ResumeError, Fault, RecTo
  <2> QED BY <1>6, <2>1, <2>2 DEF ResumeError
<1>7. CASE ResumeCanceled(p)
  BY <1>7 DEF ResumeCanceled, RecTo
<1>8. CASE ResumeAdmit(p)
  BY <1>8 DEF ResumeAdmit, RecTo
<1>9. CASE ResumeLaunch(p)
  BY <1>9 DEF ResumeLaunch, RecReturn, Launch
<1>10. CASE ResumeRelease(p)
  BY <1>10 DEF ResumeRelease, LetGo, ReleaseRun, Fault, RecGiveUp, RecReturn,
     Unclaim, Outdated
<1> QED BY <1>1, <1>2, <1>3, <1>4, <1>5, <1>6, <1>7, <1>8, <1>9, <1>10
        DEF ResumeStep

(* The executing goroutine and keepLease keep the types.                   *)
LEMMA ExecType ==
  ASSUME TypeOK, NEW p \in Procs,
         ExecWork(p) \/ ExecDeadline(p) \/ ExecEnd(p) \/ RenewStep(p)
  PROVE  TypeOK'
<1> USE OwnershipAssumption DEF OwnershipAssumption, TypeOK, Statuses, Causes,
        ExePcs, RecPcs, CanPcs, Terminal, Final, Unfinished, row, exec, resum
<1>1. CASE ExecStart(p)
  BY <1>1 DEF ExecStart, ExeTo, Fault
<1>2. CASE ExecAwait(p)
  BY <1>2 DEF ExecAwait, ExeTo, Fault
<1>3. CASE ExecAnswered(p)
  BY <1>3 DEF ExecAnswered, ExeTo, Fault
<1>4. CASE ExecOutcome(p)
  BY <1>4 DEF ExecOutcome, Outcomes
<1>5. CASE ExecDeadline(p)
  BY <1>5 DEF ExecDeadline, CancelCtx
<1>6. CASE ExecCanceledQueued(p)
  BY <1>6 DEF ExecCanceledQueued
<1>7. CASE ExecCheckLease(p)
  BY <1>7 DEF ExecCheckLease, Fault
<1>8. CASE ExecWriteFinal(p)
  BY <1>8 DEF ExecWriteFinal, ExeTo, Fault
<1>9. CASE ExecRelease(p)
  BY <1>9 DEF ExecRelease, ExeTo, LetGo, ReleaseRun, Fault
<1>10. CASE ExecDone(p)
  BY <1>10 DEF ExecDone, Unclaim, Outdated
<1>11. CASE RenewOK(p)
  BY <1>11 DEF RenewOK, CancelCtx
<1>12. CASE RenewLost(p)
  BY <1>12 DEF RenewLost, CancelCtx
<1>13. CASE RenewError(p)
  <2>1. CASE since[p] >= Lease
    BY <1>13, <2>1 DEF RenewError, CancelCtx, Fault
  <2>2. CASE since[p] < Lease
    BY <1>13, <2>2 DEF RenewError, Fault
  <2> QED BY <1>13, <2>1, <2>2 DEF RenewError
<1> QED BY <1>1, <1>2, <1>3, <1>4, <1>5, <1>6, <1>7, <1>8, <1>9, <1>10, <1>11,
           <1>12, <1>13 DEF ExecWork, ExecEnd, RenewStep

(* Cancel keeps the types.                                                 *)
LEMMA CancelType ==
  ASSUME TypeOK, NEW p \in Procs, CancelAsk(p) \/ CancelStep(p)
  PROVE  TypeOK'
<1> USE OwnershipAssumption DEF OwnershipAssumption, TypeOK, Statuses, Causes,
        ExePcs, RecPcs, CanPcs, Terminal, Final, Unfinished, row, exec, resum,
        CanTo
<1>1. CASE CancelAsk(p)
  BY <1>1 DEF CancelAsk
<1>2. CASE CancelRead(p)
  BY <1>2 DEF CancelRead
<1>3. CASE CancelRequest(p)
  <2>1. cancelRequested' \in BOOLEAN
    BY <1>3, Zenon DEF CancelRequest, Fault
  <2>2. cause' \in [Procs -> Causes]
    BY <1>3 DEF CancelRequest, CancelCtx
  <2>3. errors' \in 0 .. MaxErrors
    BY <1>3 DEF CancelRequest, Fault
  <2> QED BY <1>3, <2>1, <2>2, <2>3 DEF CancelRequest
<1>4. CASE CancelPausedClaim(p)
  <2>1. CASE p \in reg BY <1>4, <2>1 DEF CancelPausedClaim
  <2>2. CASE p \notin reg BY <1>4, <2>2 DEF CancelPausedClaim, Claim
  <2> QED BY <2>1, <2>2
<1>5. CASE CancelPausedLease(p)
  <2>1. CASE CanTo(p, "pleased")
    BY <1>5, <2>1 DEF CancelPausedLease, TakeLease
  <2>2. CASE CanTo(p, "remote") /\ Unclaim(p) /\ UNCHANGED errors
    BY <1>5, <2>2 DEF CancelPausedLease, Unclaim
  <2>3. CASE CanTo(p, "idle") /\ Unclaim(p) /\ Fault
    BY <1>5, <2>3 DEF CancelPausedLease, Unclaim, Fault
  <2> QED BY <1>5, <2>1, <2>2, <2>3 DEF CancelPausedLease
<1>6. CASE CancelPausedRead(p)
  BY <1>6 DEF CancelPausedRead, Fault
<1>7. CASE CancelPausedWrite(p)
  BY <1>7 DEF CancelPausedWrite, Fault
<1>8. CASE CancelPausedRelease(p)
  BY <1>8 DEF CancelPausedRelease, LetGo, ReleaseRun, Unclaim, Fault
<1> QED BY <1>1, <1>2, <1>3, <1>4, <1>5, <1>6, <1>7, <1>8 DEF CancelStep

(* Processes that come and go, and time, keep the types.                   *)
LEMMA ProcType ==
  ASSUME TypeOK, NEW p \in Procs, ProcStep(p)
  PROVE  TypeOK'
<1> USE OwnershipAssumption DEF OwnershipAssumption, TypeOK, Statuses, Causes,
        ExePcs, RecPcs, CanPcs, Terminal, Final, Unfinished, row, exec, resum
<1>0. ASSUME Forget(p), starter' \in {"none", "stored", "started", "failed"} PROVE TypeOK'
  <2>1. asks' \in [Procs -> SUBSET Askers]
    BY <1>0 DEF Forget
  <2>2. /\ status' \in Statuses /\ owner' \in Procs \cup {NoOwner}
        /\ leaseLeft' \in 0 .. Lease /\ cancelRequested' \in BOOLEAN
        /\ restarts' \in 0 .. MaxRestarts /\ errors' \in 0 .. MaxErrors
    BY <1>0 DEF Forget
  <2>3. /\ phase' \in [Procs -> {"up", "draining", "stopped", "down"}]
        /\ reg' \subseteq Procs /\ cause' \in [Procs -> Causes]
        /\ exe' \in [Procs -> ExePcs] /\ outcome' \in [Procs -> Terminal \cup {"paused"}]
        /\ renewing' \subseteq Procs /\ due' \subseteq Procs
        /\ since' \in [Procs -> 0 .. Lease] /\ can' \in [Procs -> CanPcs]
    BY <1>0 DEF Forget
  <2>4. /\ rec' \in [Procs -> RecPcs] /\ recBy' \in [Procs -> Askers]
        /\ recStatus' \in [Procs -> Statuses] /\ recCancel' \subseteq Procs
    BY <1>0 DEF Forget, RecReturn, Askers
  <2> QED BY <1>0, <2>1, <2>2, <2>3, <2>4
<1>1. CASE Crash(p)
  BY <1>0, <1>1 DEF Crash
<1>2. CASE Restart(p)
  BY <1>2 DEF Restart
<1>3. CASE Shutdown(p)
  BY <1>3 DEF Shutdown
<1>4. CASE StopRuns(p)
  BY <1>4 DEF StopRuns, CancelCtx
<1>5. CASE Exit(p)
  BY <1>0, <1>5 DEF Exit
<1> QED BY <1>1, <1>2, <1>3, <1>4, <1>5 DEF ProcStep

LEMMA TickType ==
  ASSUME TypeOK, Tick
  PROVE  TypeOK'
  BY OwnershipAssumption DEF OwnershipAssumption, TypeOK, Tick, resum

LEMMA NextType == TypeOK /\ [Next]_vars => TypeOK'
<1> SUFFICES ASSUME TypeOK, [Next]_vars PROVE TypeOK'
  OBVIOUS
<1>1. CASE CreateRun \/ LaunchRun \/ LaunchFails
  BY <1>1, StartType
<1>2. CASE Tick
  BY <1>2, TickType
<1>3. ASSUME NEW p \in Procs, RecoverList(p) \/ ResumeAsked(p) \/ ResumeStep(p)
      PROVE  TypeOK'
  BY <1>3, ResumeType
<1>4. ASSUME NEW p \in Procs,
             ExecWork(p) \/ ExecDeadline(p) \/ ExecEnd(p) \/ RenewStep(p)
      PROVE  TypeOK'
  BY <1>4, ExecType
<1>5. ASSUME NEW p \in Procs, CancelAsk(p) \/ CancelStep(p)
      PROVE  TypeOK'
  BY <1>5, CancelType
<1>6. ASSUME NEW p \in Procs, ProcStep(p)
      PROVE  TypeOK'
  BY <1>6, ProcType
<1>7. CASE UNCHANGED vars
  BY <1>7 DEF vars, row, exec, resum, TypeOK
<1> QED BY <1>1, <1>2, <1>3, <1>4, <1>5, <1>6, <1>7 DEF Next

(* Every variable keeps its type, whatever the processes do.               *)
THEOREM TypeCorrect == Spec => []TypeOK
  BY InitType, NextType, PTL DEF Spec

-----------------------------------------------------------------------------
(* Exclusion inside a process.                                             *)

LEMMA ExclusionStep == TypeOK /\ LocalExclusion /\ [Next]_vars => LocalExclusion'
<1> SUFFICES ASSUME TypeOK, LocalExclusion, [Next]_vars
             PROVE  LocalExclusion'
  OBVIOUS
<1> USE DEF TypeOK, LocalExclusion, ExecuteHolds, ResumeHolds, CancelHolds,
        row, exec, resum
<1>1. CASE CreateRun \/ LaunchFails \/ Tick
  BY <1>1 DEF CreateRun, LaunchFails, Tick
<1>2. CASE LaunchRun
  BY <1>2, OwnershipAssumption
     DEF OwnershipAssumption, LaunchRun, Claim, Launch, ExePcs
<1>3. ASSUME NEW p \in Procs, RecoverList(p) \/ ResumeAsked(p)
      PROVE  LocalExclusion'
  BY <1>3 DEF RecoverList, ResumeAsked, RecAsk
<1>4. ASSUME NEW p \in Procs, ResumeStep(p)
      PROVE  LocalExclusion'
  <2>1. ASSUME NEW by \in Askers, ResumeClaim(p, by) PROVE LocalExclusion'
    BY <2>1 DEF ResumeClaim, Claim
  <2>2. CASE ResumeRead(p)
    BY <2>2 DEF ResumeRead, RecGiveUp, RecReturn, Unclaim, Outdated
  <2>3. CASE ResumeLease(p)
    BY <2>3 DEF ResumeLease, RecTo, RecGiveUp, RecReturn, Unclaim, Outdated
  <2>4. CASE ResumeError(p)
    BY <2>4 DEF ResumeError, RecTo, RecGiveUp, RecReturn, Unclaim, Outdated
  <2>5. CASE ResumeCanceled(p) \/ ResumeAdmit(p)
    BY <2>5 DEF ResumeCanceled, ResumeAdmit, RecTo
  <2>6. CASE ResumeLaunch(p)
    BY <2>6 DEF ResumeLaunch, RecReturn, Launch
  <2>7. CASE ResumeRelease(p)
    BY <2>7 DEF ResumeRelease, RecGiveUp, RecReturn, Unclaim, Outdated
  <2> QED BY <1>4, <2>1, <2>2, <2>3, <2>4, <2>5, <2>6, <2>7 DEF ResumeStep
<1>5. ASSUME NEW p \in Procs, ExecWork(p) \/ ExecDeadline(p) \/ ExecEnd(p)
      PROVE  LocalExclusion'
  <2>1. CASE ExecStart(p) \/ ExecAwait(p) \/ ExecAnswered(p)
    BY <2>1 DEF ExecStart, ExecAwait, ExecAnswered, ExeTo
  <2>2. CASE ExecOutcome(p) \/ ExecCanceledQueued(p)
    BY <2>2 DEF ExecOutcome, ExecCanceledQueued
  <2>3. CASE ExecDeadline(p)
    BY <2>3 DEF ExecDeadline
  <2>4. CASE ExecCheckLease(p)
    BY <2>4 DEF ExecCheckLease
  <2>5. CASE ExecWriteFinal(p)
    BY <2>5 DEF ExecWriteFinal, ExeTo
  <2>6. CASE ExecRelease(p)
    BY <2>6 DEF ExecRelease, ExeTo
  <2>7. CASE ExecDone(p)
    BY <2>7 DEF ExecDone, Unclaim, Outdated
  <2> QED BY <1>5, <2>1, <2>2, <2>3, <2>4, <2>5, <2>6, <2>7
          DEF ExecWork, ExecEnd
<1>6. ASSUME NEW p \in Procs, RenewStep(p)
      PROVE  LocalExclusion'
  BY <1>6 DEF RenewStep, RenewOK, RenewLost, RenewError
<1>7. ASSUME NEW p \in Procs, CancelAsk(p) \/ CancelStep(p)
      PROVE  LocalExclusion'
  <2>1. CASE CancelAsk(p) \/ CancelRead(p) \/ CancelRequest(p)
    BY <2>1 DEF CancelAsk, CancelRead, CancelRequest, CanTo
  <2>2. CASE CancelPausedClaim(p)
    BY <2>2 DEF CancelPausedClaim, Claim, CanTo
  <2>3. CASE CancelPausedLease(p)
    BY <2>3 DEF CancelPausedLease, Unclaim, CanTo
  <2>4. CASE CancelPausedRead(p) \/ CancelPausedWrite(p)
    BY <2>4 DEF CancelPausedRead, CancelPausedWrite, CanTo
  <2>5. CASE CancelPausedRelease(p)
    BY <2>5 DEF CancelPausedRelease, Unclaim, CanTo
  <2> QED BY <1>7, <2>1, <2>2, <2>3, <2>4, <2>5 DEF CancelStep
<1>8. ASSUME NEW p \in Procs, ProcStep(p)
      PROVE  LocalExclusion'
  <2>1. CASE Crash(p) \/ Exit(p)
    BY <2>1 DEF Crash, Exit, Forget, RecReturn
  <2>2. CASE Restart(p) \/ Shutdown(p) \/ StopRuns(p)
    BY <2>2 DEF Restart, Shutdown, StopRuns
  <2> QED BY <1>8, <2>1, <2>2 DEF ProcStep
<1>9. CASE UNCHANGED vars
  BY <1>9 DEF vars
<1> QED BY <1>1, <1>2, <1>3, <1>4, <1>5, <1>6, <1>7, <1>8, <1>9 DEF Next

(* claim and unclaim keep each run to one activity of a process, with any  *)
(* store errors, stalls, crashes and restarts, and with Recover racing the *)
(* creation of the run.                                                    *)
THEOREM LocalExclusionHolds == Spec => []LocalExclusion
<1>1. Init => LocalExclusion
  BY DEF Init, LocalExclusion, ExecuteHolds, ResumeHolds, CancelHolds
<1> QED BY <1>1, ExclusionStep, TypeCorrect, PTL DEF Spec

-----------------------------------------------------------------------------
(* Exclusion between processes.                                            *)

(* What makes OwnedWhileActing inductive when the store answers and no     *)
(* process stalls past its lease.  Before StartRun nothing is at work, and *)
(* until the creator launches the run nothing else of the creator is; a    *)
(* dead process is idle; whatever works on the run owns it, and the lease  *)
(* lasts at least until the next renewal.                                  *)
BeforeStart ==
    starter = "none" =>
        /\ status = "none"
        /\ \A p \in Procs :
              /\ exe[p] = "none" /\ asks[p] = {} /\ rec[p] = "idle" /\ can[p] = "idle"

Creating ==
    starter = "stored" =>
        /\ status = "queued"
        /\ phase[Creator] # "down"
        /\ exe[Creator] = "none" /\ asks[Creator] = {} /\ rec[Creator] = "idle"
        /\ can[Creator] \in {"idle", "found", "stale", "missing", "local",
                             "remote"}

DeadIdle ==
    \A p \in Procs : phase[p] = "down" =>
        exe[p] = "none" /\ asks[p] = {} /\ rec[p] = "idle" /\ can[p] = "idle"

Renewed(p) == exe[p] \in {"queued", "running", "awaiting", "ending"}

Leased ==
    \A p \in Procs :
        /\ cause[p] # "lease_lost"
        /\ exe[p] \notin {"lost", "unwritten", "kept"}
        /\ p \in renewing <=> Renewed(p)
        /\ Renewed(p) => owner = p /\ leaseLeft >= IF p \in due THEN 1 ELSE 2
        /\ Unrenewed(p) => owner = p /\ leaseLeft >= 2

LeaseInv == LocalExclusion /\ BeforeStart /\ Creating /\ DeadIdle /\ Leased

(* The deployment the theorem is about: the store answers, no process      *)
(* stalls past its lease, and no recovery pass of the creator falls        *)
(* between storing the run and launching it.                               *)
Calm == MaxErrors = 0 /\ Stall # "any" /\ CreateWindow = FALSE /\ Lease >= 2

LEMMA NoFault == Calm /\ TypeOK => ~Fault
  BY DEF Calm, TypeOK, Fault

(* The four new conjuncts; LocalExclusion has its own proof.               *)
Owned == BeforeStart /\ Creating /\ DeadIdle /\ Leased

LEMMA StartOwned ==
  ASSUME Calm, TypeOK, LeaseInv, CreateRun \/ LaunchRun \/ LaunchFails
  PROVE  Owned'
<1> USE OwnershipAssumption DEF OwnershipAssumption, Calm, TypeOK, LeaseInv,
        Owned, BeforeStart, Creating, DeadIdle, Leased, Renewed, Unrenewed,
        row, exec, resum
<1>1. CASE CreateRun
  BY <1>1 DEF CreateRun, TakeLease
<1>2. CASE LaunchRun
  BY <1>2 DEF LaunchRun, Claim, Launch
<1>3. CASE LaunchFails
  BY <1>3, NoFault DEF LaunchFails, LocalExclusion, ExecuteHolds, ResumeHolds,
     CancelHolds
<1> QED BY <1>1, <1>2, <1>3

LEMMA ResumeOwned ==
  ASSUME Calm, TypeOK, LeaseInv, NEW p \in Procs,
         RecoverList(p) \/ ResumeAsked(p) \/ ResumeStep(p)
  PROVE  Owned'
<1> USE OwnershipAssumption DEF OwnershipAssumption, Calm, TypeOK, LeaseInv,
        Owned, BeforeStart, Creating, DeadIdle, Leased, Renewed, Unrenewed,
        row, exec, resum
<1>1. CASE RecoverList(p) \/ ResumeAsked(p)
  BY <1>1 DEF RecoverList, ResumeAsked, RecAsk, Visible, Unfinished
<1>2. ASSUME NEW by \in Askers, ResumeClaim(p, by) PROVE Owned'
  BY <1>2 DEF ResumeClaim, Claim
<1>3. CASE ResumeRead(p)
  BY <1>3 DEF ResumeRead, RecGiveUp, RecReturn, Unclaim, Outdated
<1>4. CASE ResumeLease(p)
  BY <1>4 DEF ResumeLease, CanClaim, TakeLease, RecTo, RecGiveUp, RecReturn,
     Unclaim, Outdated, LocalExclusion, ExecuteHolds, ResumeHolds, CancelHolds
<1>5. CASE ResumeError(p)
  BY <1>5, NoFault DEF ResumeError
<1>6. CASE ResumeCanceled(p) \/ ResumeAdmit(p)
  BY <1>6 DEF ResumeCanceled, ResumeAdmit, RecTo
<1>7. CASE ResumeLaunch(p)
  BY <1>7 DEF ResumeLaunch, RecReturn, Launch
<1>8. CASE ResumeRelease(p)
  BY <1>8, NoFault DEF ResumeRelease, LetGo, ReleaseRun, RecGiveUp, RecReturn,
     Unclaim, Outdated, LocalExclusion, ExecuteHolds, ResumeHolds, CancelHolds
<1> QED BY <1>1, <1>2, <1>3, <1>4, <1>5, <1>6, <1>7, <1>8 DEF ResumeStep

LEMMA ExecOwned ==
  ASSUME Calm, TypeOK, LeaseInv, NEW p \in Procs,
         ExecWork(p) \/ ExecDeadline(p) \/ ExecEnd(p) \/ RenewStep(p)
  PROVE  Owned'
<1> USE OwnershipAssumption DEF OwnershipAssumption, Calm, TypeOK, LeaseInv,
        Owned, BeforeStart, Creating, DeadIdle, Leased, Renewed, Unrenewed,
        row, exec, resum
<1>1. CASE ExecStart(p) \/ ExecAwait(p) \/ ExecAnswered(p)
  BY <1>1, NoFault DEF ExecStart, ExecAwait, ExecAnswered, ExeTo
<1>2. CASE ExecOutcome(p) \/ ExecCanceledQueued(p)
  BY <1>2 DEF ExecOutcome, ExecCanceledQueued
<1>3. CASE ExecDeadline(p)
  BY <1>3 DEF ExecDeadline, CancelCtx
<1>4. CASE ExecCheckLease(p)
  BY <1>4, NoFault DEF ExecCheckLease
<1>5. CASE ExecWriteFinal(p)
  BY <1>5, NoFault DEF ExecWriteFinal, ExeTo
<1>6. CASE ExecRelease(p)
  BY <1>6, NoFault DEF ExecRelease, ExeTo, LetGo, ReleaseRun, LocalExclusion,
     ExecuteHolds, ResumeHolds, CancelHolds
<1>7. CASE ExecDone(p)
  BY <1>7 DEF ExecDone, Unclaim, Outdated
<1>8. CASE RenewOK(p)
  BY <1>8 DEF RenewOK, CancelCtx
<1>9. CASE RenewLost(p)
  BY <1>9 DEF RenewLost
<1>10. CASE RenewError(p)
  BY <1>10, NoFault DEF RenewError
<1> QED BY <1>1, <1>2, <1>3, <1>4, <1>5, <1>6, <1>7, <1>8, <1>9, <1>10
        DEF ExecWork, ExecEnd, RenewStep

LEMMA CancelOwned ==
  ASSUME Calm, TypeOK, LeaseInv, NEW p \in Procs, CancelAsk(p) \/ CancelStep(p)
  PROVE  Owned'
<1> USE OwnershipAssumption DEF OwnershipAssumption, Calm, TypeOK, LeaseInv,
        Owned, BeforeStart, Creating, DeadIdle, Leased, Renewed, Unrenewed,
        row, exec, resum, CanTo
<1>1. CASE CancelAsk(p)
  BY <1>1 DEF CancelAsk, Up
<1>2. CASE CancelRead(p)
  BY <1>2 DEF CancelRead, Terminal, Final
<1>3. CASE CancelRequest(p)
  BY <1>3 DEF CancelRequest, CancelCtx
<1>4. CASE CancelPausedClaim(p)
  BY <1>4 DEF CancelPausedClaim, Claim
<1>5. CASE CancelPausedLease(p)
  BY <1>5, NoFault DEF CancelPausedLease, CanClaim, TakeLease, Unclaim,
     LocalExclusion, ExecuteHolds, ResumeHolds, CancelHolds
<1>6. CASE CancelPausedRead(p) \/ CancelPausedWrite(p)
  BY <1>6 DEF CancelPausedRead, CancelPausedWrite
<1>7. CASE CancelPausedRelease(p)
  BY <1>7, NoFault DEF CancelPausedRelease, LetGo, ReleaseRun, Unclaim,
     LocalExclusion, ExecuteHolds, ResumeHolds, CancelHolds
<1> QED BY <1>1, <1>2, <1>3, <1>4, <1>5, <1>6, <1>7 DEF CancelStep

LEMMA ProcOwned ==
  ASSUME Calm, TypeOK, LeaseInv, NEW p \in Procs, ProcStep(p)
  PROVE  Owned'
<1> USE OwnershipAssumption DEF OwnershipAssumption, Calm, TypeOK, LeaseInv,
        Owned, BeforeStart, Creating, DeadIdle, Leased, Renewed, Unrenewed,
        row, exec, resum
<1>1. CASE Crash(p)
  BY <1>1 DEF Crash, Forget, RecReturn
<1>2. CASE Exit(p)
  BY <1>2 DEF Exit, Admitted, Forget, RecReturn
<1>3. CASE Restart(p) \/ Shutdown(p)
  BY <1>3 DEF Restart, Shutdown, Up
<1>4. CASE StopRuns(p)
  BY <1>4 DEF StopRuns, CancelCtx
<1> QED BY <1>1, <1>2, <1>3, <1>4 DEF ProcStep

LEMMA TickOwned ==
  ASSUME Calm, TypeOK, LeaseInv, Tick
  PROVE  Owned'
  BY OwnershipAssumption
     DEF OwnershipAssumption, Calm, TypeOK, LeaseInv, Owned, BeforeStart,
         Creating, DeadIdle, Leased, Renewed, Unrenewed, Tick, Prompt, Up, resum

LEMMA LeaseStep ==
  ASSUME Calm, TypeOK, LeaseInv, [Next]_vars
  PROVE  LeaseInv'
<1>1. LocalExclusion'
  BY ExclusionStep DEF LeaseInv
<1>2. Owned'
  <2>1. CASE CreateRun \/ LaunchRun \/ LaunchFails
    BY <2>1, StartOwned
  <2>2. ASSUME NEW p \in Procs, RecoverList(p) \/ ResumeAsked(p) \/ ResumeStep(p)
        PROVE  Owned'
    BY <2>2, ResumeOwned
  <2>3. ASSUME NEW p \in Procs,
               ExecWork(p) \/ ExecDeadline(p) \/ ExecEnd(p) \/ RenewStep(p)
        PROVE  Owned'
    BY <2>3, ExecOwned
  <2>4. ASSUME NEW p \in Procs, CancelAsk(p) \/ CancelStep(p)
        PROVE  Owned'
    BY <2>4, CancelOwned
  <2>5. ASSUME NEW p \in Procs, ProcStep(p)
        PROVE  Owned'
    BY <2>5, ProcOwned
  <2>6. CASE Tick
    BY <2>6, TickOwned
  <2>7. CASE UNCHANGED vars
    BY <2>7 DEF vars, row, exec, resum, LeaseInv, Owned, BeforeStart, Creating,
       DeadIdle, Leased, Renewed, Unrenewed
  <2> QED BY <2>1, <2>2, <2>3, <2>4, <2>5, <2>6, <2>7 DEF Next
<1> QED BY <1>1, <1>2 DEF LeaseInv, Owned

LEMMA LeaseInit == Init => LeaseInv
  BY OwnershipAssumption
     DEF OwnershipAssumption, Init, LeaseInv, LocalExclusion, ExecuteHolds,
         ResumeHolds, CancelHolds, BeforeStart, Creating, DeadIdle, Leased,
         Renewed, Unrenewed

(* Whatever the number of processes, restarts, shutdowns, resumes and      *)
(* cancellations: a process at work on the run, or about to write its row  *)
(* under a claim, owns it.                                                 *)
THEOREM OwnershipHolds == Calm => (Spec => []OwnedWhileActing)
<1> SUFFICES ASSUME Calm PROVE Spec => []OwnedWhileActing
  OBVIOUS
<1>1. TypeOK /\ LeaseInv /\ [Next]_vars => LeaseInv'
  BY LeaseStep
<1>2. LeaseInv => OwnedWhileActing
  BY DEF LeaseInv, Leased, Renewed, Unrenewed, OwnedWhileActing, Executing
<1> QED BY <1>1, <1>2, LeaseInit, TypeCorrect, PTL DEF Spec

(* Two processes never execute the run at the same time.                   *)
THEOREM SoleExecutor ==
  Calm => (Spec => [](\A p, q \in Procs : Executing(p) /\ Executing(q) => p = q))
<1>1. OwnedWhileActing =>
        \A p, q \in Procs : Executing(p) /\ Executing(q) => p = q
  BY DEF OwnedWhileActing
<1> QED BY <1>1, OwnershipHolds, PTL

-----------------------------------------------------------------------------
(* A store that fails.                                                     *)

(* The deployment: live processes keep up with time, and no recovery pass  *)
(* of the creator falls between storing the run and launching it.  The     *)
(* store may fail as often as it likes.                                    *)
Punctual == Stall = "none" /\ CreateWindow = FALSE

(* Until the creator launches the run nobody else can take its lease.      *)
CreatorFirst ==
    starter = "stored" =>
        /\ status = "queued" /\ phase[Creator] # "down"
        /\ asks[Creator] = {} /\ rec[Creator] = "idle"
        /\ owner = Creator /\ leaseLeft = Lease
        /\ \A p \in Procs :
              /\ exe[p] = "none"
              /\ rec[p] \in {"idle", "claimed", "read"}
              /\ can[p] \in {"idle", "found", "stale", "missing", "local", "remote"}

(* Whoever is about to launch the run has a whole lease; keepLease runs    *)
(* while the run executes, and as long as it has not failed for a whole    *)
(* lease, the lease it renewed last has not run out.                       *)
Covered ==
    \A p \in Procs :
        /\ rec[p] \in {"leased", "admitted"} => owner = p /\ leaseLeft = Lease
        /\ Renewed(p) /\ cause[p] = "none" => p \in renewing
        /\ p \in renewing =>
              /\ Renewed(p)
              /\ p \notin due => since[p] < Lease
              /\ since[p] < Lease => owner = p /\ leaseLeft + since[p] >= Lease

Served == BeforeStart /\ CreatorFirst /\ DeadIdle /\ Covered

LEMMA StartServed ==
  ASSUME Punctual, TypeOK, LocalExclusion, Served, CreateRun \/ LaunchRun \/ LaunchFails
  PROVE  Served'
<1> USE OwnershipAssumption DEF OwnershipAssumption, Punctual, TypeOK, Served,
        BeforeStart, CreatorFirst, DeadIdle, Covered, Renewed, row, exec, resum
<1>1. CASE CreateRun
  BY <1>1 DEF CreateRun, TakeLease
<1>2. CASE LaunchRun
  BY <1>2 DEF LaunchRun, Claim, Launch
<1>3. CASE LaunchFails
  BY <1>3 DEF LaunchFails
<1> QED BY <1>1, <1>2, <1>3

LEMMA ResumeServed ==
  ASSUME Punctual, TypeOK, LocalExclusion, Served, NEW p \in Procs,
         RecoverList(p) \/ ResumeAsked(p) \/ ResumeStep(p)
  PROVE  Served'
<1> USE OwnershipAssumption DEF OwnershipAssumption, Punctual, TypeOK, Served,
        BeforeStart, CreatorFirst, DeadIdle, Covered, Renewed, row, exec, resum
<1>1. CASE RecoverList(p) \/ ResumeAsked(p)
  BY <1>1 DEF RecoverList, ResumeAsked, RecAsk, Visible, Unfinished
<1>2. ASSUME NEW by \in Askers, ResumeClaim(p, by) PROVE Served'
  BY <1>2 DEF ResumeClaim, Claim, LocalExclusion, ExecuteHolds,
     ResumeHolds, CancelHolds
<1>3. CASE ResumeRead(p)
  BY <1>3 DEF ResumeRead, RecGiveUp, RecReturn, Unclaim, Outdated, LocalExclusion,
     ExecuteHolds, ResumeHolds, CancelHolds
<1>4. CASE ResumeLease(p)
  BY <1>4 DEF ResumeLease, CanClaim, TakeLease, RecTo, RecGiveUp, RecReturn,
     Unclaim, Outdated, LocalExclusion, ExecuteHolds, ResumeHolds, CancelHolds
<1>5. CASE ResumeError(p)
  BY <1>5 DEF ResumeError, RecTo, RecGiveUp, RecReturn, Unclaim, Outdated,
     LocalExclusion, ExecuteHolds, ResumeHolds, CancelHolds
<1>6. CASE ResumeCanceled(p) \/ ResumeAdmit(p)
  BY <1>6 DEF ResumeCanceled, ResumeAdmit, RecTo
<1>7. CASE ResumeLaunch(p)
  BY <1>7 DEF ResumeLaunch, RecReturn, Launch
<1>8. CASE ResumeRelease(p)
  BY <1>8 DEF ResumeRelease, LetGo, ReleaseRun, RecGiveUp, RecReturn,
     Unclaim, Outdated, LocalExclusion, ExecuteHolds, ResumeHolds, CancelHolds
<1> QED BY <1>1, <1>2, <1>3, <1>4, <1>5, <1>6, <1>7, <1>8 DEF ResumeStep

LEMMA ExecServed ==
  ASSUME Punctual, TypeOK, LocalExclusion, Served, NEW p \in Procs,
         ExecWork(p) \/ ExecDeadline(p) \/ ExecEnd(p) \/ RenewStep(p)
  PROVE  Served'
<1> USE OwnershipAssumption DEF OwnershipAssumption, Punctual, TypeOK, Served,
        BeforeStart, CreatorFirst, DeadIdle, Covered, Renewed, row, exec, resum
<1>1. CASE ExecStart(p) \/ ExecAwait(p) \/ ExecAnswered(p)
  BY <1>1 DEF ExecStart, ExecAwait, ExecAnswered, ExeTo
<1>2. CASE ExecOutcome(p) \/ ExecCanceledQueued(p)
  BY <1>2 DEF ExecOutcome, ExecCanceledQueued
<1>3. CASE ExecDeadline(p)
  BY <1>3 DEF ExecDeadline, CancelCtx
<1>4. CASE ExecCheckLease(p)
  BY <1>4 DEF ExecCheckLease
<1>5. CASE ExecWriteFinal(p)
  BY <1>5 DEF ExecWriteFinal, ExeTo
<1>6. CASE ExecRelease(p)
  BY <1>6 DEF ExecRelease, ExeTo, LetGo, ReleaseRun, LocalExclusion,
     ExecuteHolds, ResumeHolds, CancelHolds
<1>7. CASE ExecDone(p)
  BY <1>7 DEF ExecDone, Unclaim, Outdated
<1>8. CASE RenewOK(p)
  BY <1>8 DEF RenewOK, CancelCtx
<1>9. CASE RenewLost(p)
  BY <1>9 DEF RenewLost, CancelCtx
<1>10. CASE RenewError(p)
  BY <1>10 DEF RenewError, CancelCtx
<1> QED BY <1>1, <1>2, <1>3, <1>4, <1>5, <1>6, <1>7, <1>8, <1>9, <1>10
        DEF ExecWork, ExecEnd, RenewStep

LEMMA CancelServed ==
  ASSUME Punctual, TypeOK, LocalExclusion, Served, NEW p \in Procs,
         CancelAsk(p) \/ CancelStep(p)
  PROVE  Served'
<1> USE OwnershipAssumption DEF OwnershipAssumption, Punctual, TypeOK, Served,
        BeforeStart, CreatorFirst, DeadIdle, Covered, Renewed, row, exec, resum,
        CanTo
<1>1. CASE CancelAsk(p)
  BY <1>1 DEF CancelAsk, Up
<1>2. CASE CancelRead(p)
  BY <1>2 DEF CancelRead, Terminal, Final
<1>3. CASE CancelRequest(p)
  BY <1>3 DEF CancelRequest, CancelCtx
<1>4. CASE CancelPausedClaim(p)
  BY <1>4 DEF CancelPausedClaim, Claim, LocalExclusion, ExecuteHolds
<1>5. CASE CancelPausedLease(p)
  BY <1>5 DEF CancelPausedLease, CanClaim, TakeLease, Unclaim,
     LocalExclusion, ExecuteHolds, ResumeHolds, CancelHolds
<1>6. CASE CancelPausedRead(p) \/ CancelPausedWrite(p)
  BY <1>6 DEF CancelPausedRead, CancelPausedWrite
<1>7. CASE CancelPausedRelease(p)
  BY <1>7 DEF CancelPausedRelease, LetGo, ReleaseRun, Unclaim,
     LocalExclusion, ExecuteHolds, ResumeHolds, CancelHolds
<1> QED BY <1>1, <1>2, <1>3, <1>4, <1>5, <1>6, <1>7 DEF CancelStep

LEMMA ProcServed ==
  ASSUME Punctual, TypeOK, LocalExclusion, Served, NEW p \in Procs, ProcStep(p)
  PROVE  Served'
<1> USE OwnershipAssumption DEF OwnershipAssumption, Punctual, TypeOK, Served,
        BeforeStart, CreatorFirst, DeadIdle, Covered, Renewed, row, exec, resum
<1>1. CASE Crash(p)
  BY <1>1 DEF Crash, Forget, RecReturn
<1>2. CASE Exit(p)
  BY <1>2 DEF Exit, Admitted, Forget, RecReturn
<1>3. CASE Restart(p) \/ Shutdown(p)
  BY <1>3 DEF Restart, Shutdown, Up
<1>4. CASE StopRuns(p)
  BY <1>4 DEF StopRuns, CancelCtx
<1> QED BY <1>1, <1>2, <1>3, <1>4 DEF ProcStep

(* Time passes only when every ticker was served and nobody is about to    *)
(* launch the run.                                                         *)
LEMMA TickServed ==
  ASSUME Punctual, TypeOK, LocalExclusion, Served, Tick
  PROVE  Served'
<1> USE OwnershipAssumption DEF OwnershipAssumption, Punctual, TypeOK, Served, resum
<1>1. Prompt
  BY DEF Tick
<1>2. BeforeStart' /\ DeadIdle'
  BY DEF Tick, BeforeStart, DeadIdle
<1>3. starter # "stored" /\ CreatorFirst'
  BY <1>1 DEF Tick, CreatorFirst, Prompt, Unrenewed, Up
<1>4. Covered'
  <2> SUFFICES ASSUME NEW p \in Procs
               PROVE  /\ rec[p] \notin {"leased", "admitted"}
                      /\ Renewed(p) /\ cause[p] = "none" => p \in renewing
                      /\ p \in renewing =>
                            /\ Renewed(p)
                            /\ since'[p] < Lease => owner = p /\ leaseLeft' + since'[p] >= Lease
    BY DEF Tick, Covered, Renewed
  <2>1. rec[p] \notin {"leased", "admitted"}
    BY <1>1 DEF Covered, Prompt, Unrenewed, Up, DeadIdle
  <2>2. ASSUME p \in renewing, since'[p] < Lease
        PROVE  owner = p /\ leaseLeft' + since'[p] >= Lease
    <3>1. Renewed(p) /\ p \notin due /\ since[p] < Lease
      BY <1>1, <2>2 DEF Covered, Prompt, Up, DeadIdle, Renewed
    <3>2. owner = p /\ leaseLeft + since[p] >= Lease
      BY <2>2, <3>1 DEF Covered
    <3>3. leaseLeft' = leaseLeft - 1 /\ since'[p] = since[p] + 1
      BY <2>2, <3>1, <3>2 DEF Tick
    <3> QED BY <3>2, <3>3
  <2> QED BY <2>1, <2>2 DEF Covered
<1> QED BY <1>2, <1>3, <1>4

LEMMA ServedStep ==
  ASSUME Punctual, TypeOK, LocalExclusion, Served, [Next]_vars
  PROVE  Served'
<1>1. CASE UNCHANGED vars
  BY <1>1 DEF vars, row, exec, resum, Served, BeforeStart, CreatorFirst, DeadIdle,
     Covered, Renewed
<1> QED BY <1>1, StartServed, ResumeServed, ExecServed, CancelServed, ProcServed,
           TickServed
        DEF Next

LEMMA ServedInit == Init => Served
  BY OwnershipAssumption
     DEF OwnershipAssumption, Init, Served, BeforeStart, CreatorFirst, DeadIdle,
         Covered, Renewed

(* However often the store fails: a process that has served its last tick  *)
(* and still executes the run owns it.  keepLease, which gives up once no  *)
(* renewal succeeded for a whole lease, gives up before the lease it       *)
(* renewed last can be taken.                                              *)
THEOREM ServedOwns == Punctual => (Spec => []OwnedWhenServed)
<1> SUFFICES ASSUME Punctual PROVE Spec => []OwnedWhenServed
  OBVIOUS
<1>1. TypeOK /\ LocalExclusion /\ Served /\ [Next]_vars => Served'
  BY ServedStep
<1>2. TypeOK /\ Served => OwnedWhenServed
  BY DEF Served, Covered, Renewed, OwnedWhenServed, Executing
<1> QED BY <1>1, <1>2, ServedInit, LocalExclusionHolds, TypeCorrect, PTL DEF Spec

-----------------------------------------------------------------------------
(* Final statuses.                                                         *)

(* A deployment of one process whose recovery does not meet the run it is  *)
(* about to launch.  It may stall, crash, stop and restart, and its store  *)
(* may fail.                                                               *)
Alone == Procs = {Creator} /\ CreateWindow = FALSE

(* Before the launch, nothing but a lookup of Cancel is at work.           *)
Waits ==
    starter = "stored" =>
        /\ status = "queued" /\ phase[Creator] # "down"
        /\ exe[Creator] = "none" /\ asks[Creator] = {} /\ rec[Creator] = "idle"
        /\ can[Creator] \in {"idle", "found", "stale", "missing", "local", "remote"}

(* Whoever holds the claim of a run that is final writes nothing more.     *)
Closing ==
    status \in Final =>
        /\ exe[Creator] \in {"none", "written", "released"}
        /\ rec[Creator] \in {"idle", "claimed", "release"}
        /\ can[Creator] # "pread"

FinalInv == BeforeStart /\ Waits /\ Closing

LEMMA FinalStep ==
  ASSUME Alone, TypeOK, LocalExclusion, FinalInv, [Next]_vars
  PROVE  FinalInv' /\ (status \in Final => status' = status)
<1> USE OwnershipAssumption DEF OwnershipAssumption, Alone, TypeOK, FinalInv,
        BeforeStart, Waits, Closing, Final, row, exec, resum
<1> DEFINE Goal == FinalInv' /\ (status \in Final => status' = status)
<1>1. CASE CreateRun \/ LaunchRun \/ LaunchFails
  BY <1>1 DEF CreateRun, LaunchRun, LaunchFails, TakeLease, Claim, Launch
<1>2. ASSUME NEW p \in Procs, RecoverList(p) \/ ResumeAsked(p) PROVE Goal
  BY <1>2 DEF RecoverList, ResumeAsked, RecAsk, Visible, Unfinished
<1>3. ASSUME NEW p \in Procs, ResumeRead(p) \/ \E by \in Askers : ResumeClaim(p, by)
      PROVE  Goal
  <2>1. CASE ResumeRead(p)
    BY <2>1 DEF ResumeRead, RecTo, RecGiveUp, RecReturn, Unclaim, Outdated
  <2>2. ASSUME NEW by \in Askers, ResumeClaim(p, by) PROVE Goal
    BY <2>2 DEF ResumeClaim, Claim
  <2> QED BY <1>3, <2>1, <2>2
<1>4. ASSUME NEW p \in Procs, ResumeLease(p) \/ ResumeError(p) \/ ResumeRelease(p)
      PROVE  Goal
  BY <1>4 DEF ResumeLease, ResumeError, ResumeRelease, RecTo, RecGiveUp, RecReturn,
     Unclaim, Outdated
<1>5. ASSUME NEW p \in Procs, ResumeCanceled(p) \/ ResumeAdmit(p) \/ ResumeLaunch(p)
      PROVE  Goal
  BY <1>5 DEF ResumeCanceled, ResumeAdmit, ResumeLaunch, RecTo, RecReturn, Launch,
     LocalExclusion, ExecuteHolds, ResumeHolds, CancelHolds, Terminal
<1>6. ASSUME NEW p \in Procs, ExecWork(p) \/ ExecDeadline(p) PROVE Goal
  BY <1>6 DEF ExecWork, ExecDeadline, ExecStart, ExecAwait, ExecAnswered, ExecOutcome, ExeTo
<1>7. ASSUME NEW p \in Procs, ExecEnd(p) PROVE Goal
  <2>1. CASE ExecCanceledQueued(p) \/ ExecCheckLease(p)
    BY <2>1 DEF ExecCanceledQueued, ExecCheckLease
  <2>2. CASE ExecWriteFinal(p)
    <3>1. p = Creator /\ exe[p] = "held"
      BY <2>2 DEF ExecWriteFinal
    <3>2. rec[p] = "idle" /\ can[p] # "pread"
      BY <3>1 DEF LocalExclusion, ExecuteHolds, ResumeHolds, CancelHolds, RecPcs
    <3>3. status \notin Final /\ starter # "stored" /\ starter # "none"
      BY <3>1
    <3>4. exe'[p] \in {"written", "unwritten"} /\ (exe'[p] # "written" => status' = status)
      BY <2>2, <3>1 DEF ExecWriteFinal, ExeTo
    <3>5. rec' = rec /\ can' = can /\ starter' = starter
      BY <2>2 DEF ExecWriteFinal
    <3> QED BY <3>1, <3>2, <3>3, <3>4, <3>5
  <2>3. CASE ExecRelease(p)
    BY <2>3 DEF ExecRelease, ExeTo
  <2>4. CASE ExecDone(p)
    BY <2>4 DEF ExecDone, Unclaim, Outdated
  <2> QED BY <1>7, <2>1, <2>2, <2>3, <2>4 DEF ExecEnd
<1>8. ASSUME NEW p \in Procs, RenewStep(p) PROVE Goal
  BY <1>8 DEF RenewStep, RenewOK, RenewLost, RenewError
<1>9. ASSUME NEW p \in Procs, CancelAsk(p) \/ CancelStep(p) PROVE Goal
  <2> USE DEF CanTo
  <2>1. CASE CancelAsk(p)
    BY <2>1 DEF CancelAsk
  <2>2. CASE CancelRead(p)
    BY <2>2 DEF CancelRead, Terminal
  <2>3. CASE CancelRequest(p)
    BY <2>3 DEF CancelRequest
  <2>4. CASE CancelPausedClaim(p)
    BY <2>4 DEF CancelPausedClaim
  <2>5. CASE CancelPausedLease(p)
    BY <2>5 DEF CancelPausedLease
  <2>6. CASE CancelPausedRead(p)
    BY <2>6 DEF CancelPausedRead
  <2>7. CASE CancelPausedWrite(p)
    <3>1. p = Creator /\ can[p] = "pread"
      BY <2>7 DEF CancelPausedWrite
    <3>2. rec[p] = "idle" /\ exe[p] = "none"
      BY <3>1 DEF LocalExclusion, ExecuteHolds, ResumeHolds, CancelHolds, RecPcs
    <3>3. status \notin Final /\ starter # "stored" /\ starter # "none"
      BY <3>1
    <3>4. can'[p] # "pread" /\ rec' = rec /\ exe' = exe /\ starter' = starter
      BY <2>7, <3>1 DEF CancelPausedWrite
    <3> QED BY <3>1, <3>2, <3>3, <3>4
  <2>8. CASE CancelPausedRelease(p)
    BY <2>8 DEF CancelPausedRelease
  <2> QED BY <1>9, <2>1, <2>2, <2>3, <2>4, <2>5, <2>6, <2>7, <2>8 DEF CancelStep
<1>10. ASSUME NEW p \in Procs, ProcStep(p) PROVE Goal
  BY <1>10 DEF ProcStep, Crash, Restart, Shutdown, StopRuns, Exit, Admitted, Forget,
     RecReturn, Up
<1>11. CASE Tick \/ UNCHANGED vars
  BY <1>11 DEF Tick, vars
<1> QED BY <1>1, <1>2, <1>3, <1>4, <1>5, <1>6, <1>7, <1>8, <1>9, <1>10, <1>11
        DEF Next, ResumeStep

(* In a deployment of one process a run that succeeded or was canceled     *)
(* keeps that status, whatever is cancelled, resumed, recovered, crashed   *)
(* and restarted.                                                          *)
THEOREM FinalForOneProcess == Alone => (Spec => FinalIsFinal)
<1> SUFFICES ASSUME Alone PROVE Spec => FinalIsFinal
  OBVIOUS
<1>1. Init => FinalInv
  BY OwnershipAssumption DEF OwnershipAssumption, Init, FinalInv, BeforeStart, Waits,
     Closing, Final
<1>2. TypeOK /\ LocalExclusion /\ FinalInv /\ [Next]_vars => FinalInv'
  BY FinalStep
<1>3. TypeOK /\ LocalExclusion /\ FinalInv /\ [Next]_vars
        => [(status \in Final) => status' = status]_vars
  BY FinalStep
<1> QED BY <1>1, <1>2, <1>3, LocalExclusionHolds, TypeCorrect, PTL
        DEF Spec, FinalIsFinal

=============================================================================
