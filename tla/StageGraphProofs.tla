-------------------------- MODULE StageGraphProofs --------------------------
(***************************************************************************)
(* Theorems about StageGraph, for every workflow of any size that          *)
(* compileWorkflow accepts and every hand-back limit.                      *)
(***************************************************************************)
EXTENDS StageGraph, TLAPS, FiniteSetTheorems

-----------------------------------------------------------------------------
(* plan.closure.                                                           *)

LEMMA ClosureReflexive ==
  ASSUME NEW i \in Stages, NEW e
  PROVE  i \in Closure(i, e)
  BY DEF Closure

(* The closure is closed under its edges.                                  *)
LEMMA ClosureClosed ==
  ASSUME NEW e \in [Stages -> SUBSET Stages], NEW i \in Stages,
         NEW x \in Closure(i, e), NEW y \in e[x]
  PROVE  y \in Closure(i, e)
  BY DEF Closure, Closed

(* Whatever is reached from i, other than i, is reached from one of i's    *)
(* edges.                                                                  *)
LEMMA ClosureStep ==
  ASSUME NEW e \in [Stages -> SUBSET Stages], NEW i \in Stages,
         NEW a \in Closure(i, e), a # i
  PROVE  \E d \in e[i] : a \in Closure(d, e)
<1> DEFINE S == {i} \cup {x \in Stages : \E d \in e[i] : x \in Closure(d, e)}
<1>1. S \in SUBSET Stages /\ i \in S
  OBVIOUS
<1>2. Closed(S, e)
  <2> SUFFICES ASSUME NEW x \in S, NEW y \in e[x] PROVE y \in S
    BY <1>1 DEF Closed
  <2>1. CASE x = i
    BY <2>1, ClosureReflexive
  <2>2. CASE x # i
    <3>1. PICK d \in e[i] : x \in Closure(d, e)
      BY <2>2
    <3>2. y \in Closure(d, e)
      BY <3>1, ClosureClosed
    <3> QED BY <3>1, <3>2
  <2> QED BY <2>1, <2>2
<1>3. a \in S
  BY <1>1, <1>2 DEF Closure
<1> QED BY <1>3

LEMMA DependentsType ==
  ASSUME NEW e \in [Stages -> SUBSET Stages]
  PROVE  Dependents(e) \in [Stages -> SUBSET Stages]
  BY DEF Dependents

(* If i depends on t, however indirectly, a reset of t reaches i.          *)
LEMMA ClosureDual ==
  ASSUME NEW e \in [Stages -> SUBSET Stages], NEW i \in Stages,
         NEW t \in Closure(i, e)
  PROVE  i \in Closure(t, Dependents(e))
<1> DEFINE D == Closure(t, Dependents(e))
           C == Stages \ D
<1>1. t \in Stages
  BY DEF Closure
<1>2. SUFFICES ASSUME i \notin D PROVE FALSE
  OBVIOUS
<1>3. Closed(C, e)
  <2> SUFFICES ASSUME NEW x \in C, NEW y \in e[x] PROVE y \in C
    BY DEF Closed
  <2>1. x \in Dependents(e)[y]
    BY DEF Dependents
  <2> QED BY <1>1, <2>1, DependentsType, ClosureClosed
<1>4. t \in C
  BY <1>2, <1>3 DEF Closure
<1> QED BY <1>1, <1>4, ClosureReflexive

-----------------------------------------------------------------------------
(* The inductive invariant.                                                *)

(* compileWorkflow's rule for hand_back.to.                                *)
PlanOK == \A i \in Stages : handTo[i] = NoStage \/ handTo[i] \in ancestorsOrSelf(i)

(* Until a failure, exactly the running stages have a goroutine.           *)
LiveRunning == mode # "failed" => \A i \in Stages : i \in live <=> state[i] = "running"

(* A stage that is done with an output that was handed back waits for its  *)
(* reset, unless the run has failed.                                       *)
Accepted ==
    \A i \in Stages : state[i] = "done" /\ i \in rejected =>
        mode = "failed" \/ handTo[i] \in resets

(* runStages returns only when nothing runs and no reset waits.            *)
Drained == pc = "returned" => active = 0 /\ resets = {}

StageInv ==
    /\ TypeOK /\ PlanOK /\ LiveRunning /\ InputsCurrent /\ FeedbackCurrent
    /\ NoStageLeaks /\ Accepted /\ Drained

(* What a stage depends on, however indirectly, is done once it started.   *)
LEMMA AncestorsDone ==
  ASSUME TypeOK, InputsCurrent, NEW i \in Stages, state[i] # "pending",
         NEW a \in ancestorsOrSelf(i), a # i
  PROVE  state[a] = "done"
<1> DEFINE S == {i} \cup {x \in Stages : state[x] = "done"}
<1>1. S \in SUBSET Stages /\ i \in S
  OBVIOUS
<1>2. Closed(S, deps)
  BY DEF Closed, TypeOK, InputsCurrent
<1>3. a \in S
  BY <1>1, <1>2 DEF ancestorsOrSelf, Closure
<1> QED BY <1>3

LEMMA TypeInit == Init => TypeOK
  BY DEF Init, TypeOK

LEMMA ReadySubset == Ready \subseteq Stages
  BY DEF Ready

LEMMA FiniteStages ==
  ASSUME NEW S \in SUBSET Stages
  PROVE  IsFiniteSet(S) /\ Cardinality(S) \in Nat
<1>1. IsFiniteSet(Stages)
  BY StageAssumption DEF StageAssumption
<1>2. IsFiniteSet(S)
  BY <1>1, FS_Subset
<1> QED BY <1>2, FS_CardinalityType

LEMMA TypeStep == TypeOK /\ [Next]_vars => TypeOK'
<1> SUFFICES ASSUME TypeOK, [Next]_vars PROVE TypeOK'
  OBVIOUS
<1> USE DEF TypeOK
<1>1. CASE Launch
  <2> DEFINE start == IF mode = "open" /\ resets = {} THEN Ready ELSE {}
  <2>1. start \in SUBSET Stages
    BY ReadySubset
  <2>2. active' \in Nat
    BY <1>1, <2>1, FiniteStages DEF Launch
  <2>3. live' \subseteq Stages /\ unread' \subseteq live'
    BY <1>1, <2>1 DEF Launch
  <2>4. used' \in [Stages -> [Stages -> Nat]]
    BY <1>1 DEF Launch
  <2>5. state' \in [Stages -> {"pending", "running", "done"}]
    BY <1>1 DEF Launch
  <2> QED BY <1>1, <2>2, <2>3, <2>4, <2>5 DEF Launch, plan
<1>2. CASE Return
  BY <1>2 DEF Return, plan
<1>3. CASE ApplyResets
  BY <1>3 DEF ApplyResets, plan
<1>4. ASSUME NEW i \in Stages, ReadFeedback(i) PROVE TypeOK'
  BY <1>4 DEF ReadFeedback, plan
<1>5. ASSUME NEW i \in Stages, ReceiveError(i) PROVE TypeOK'
  BY <1>5 DEF ReceiveError, Take, plan
<1>6. ASSUME NEW i \in Stages, ReceiveOutput(i) PROVE TypeOK'
  BY <1>6 DEF ReceiveOutput, Take, plan
<1>7. ASSUME NEW i \in Stages, ReceiveHandBack(i) PROVE TypeOK'
  BY <1>7 DEF ReceiveHandBack, Take, plan
<1>8. CASE UNCHANGED vars
  BY <1>8 DEF vars, plan
<1> QED
  BY <1>1, <1>2, <1>3, <1>4, <1>5, <1>6, <1>7, <1>8
  DEF Next, Scheduler, Receive, Done

LEMMA InvInit == Init => StageInv
<1> SUFFICES ASSUME Init PROVE StageInv
  OBVIOUS
<1>1. TypeOK
  BY TypeInit
<1>2. PlanOK
  BY DEF PlanOK, Init, ValidPlan, ancestorsOrSelf
<1>3. NoStageLeaks
  BY FS_EmptySet DEF Init, NoStageLeaks
<1>4. LiveRunning /\ InputsCurrent /\ FeedbackCurrent /\ Accepted /\ Drained
  BY DEF Init, LiveRunning, InputsCurrent, FeedbackCurrent, Accepted, Drained
<1> QED BY <1>1, <1>2, <1>3, <1>4 DEF StageInv

(* No step changes the plan.                                               *)
LEMMA PlanStep == PlanOK /\ [Next]_vars => PlanOK'
  BY DEF PlanOK, Next, vars, plan, Scheduler, Receive, Done, Launch, Return,
         ApplyResets, ReadFeedback, ReceiveError, ReceiveOutput,
         ReceiveHandBack, Take, ancestorsOrSelf

(* The goroutines a pass starts are new ones.                              *)
LEMMA LaunchStep == StageInv /\ Launch => StageInv'
<1> SUFFICES ASSUME StageInv, Launch PROVE StageInv'
  OBVIOUS
<1> DEFINE start == IF mode = "open" /\ resets = {} THEN Ready ELSE {}
<1>1. TypeOK /\ TypeOK' /\ PlanOK'
  BY TypeStep, PlanStep DEF StageInv, Next, Scheduler
<1>2. start \in SUBSET Stages /\ start \cap live = {}
  BY <1>1 DEF Ready, StageInv, LiveRunning
<1>3. live' = live \cup start /\ active' = active + Cardinality(start)
  BY DEF Launch
<1>4. NoStageLeaks'
  <2>1. IsFiniteSet(live) /\ IsFiniteSet(start) /\ IsFiniteSet({})
    BY <1>1, <1>2, FiniteStages, FS_EmptySet DEF TypeOK
  <2>2. Cardinality(live \cup start)
           = Cardinality(live) + Cardinality(start) - Cardinality(live \cap start)
    BY <2>1, FS_Union
  <2>3. Cardinality(live \cap start) = 0
    BY <1>2, FS_EmptySet
  <2>4. Cardinality(live) \in Nat /\ Cardinality(start) \in Nat
    BY <2>1, FS_CardinalityType
  <2> QED BY <1>3, <2>2, <2>3, <2>4 DEF NoStageLeaks, StageInv
<1>5. LiveRunning'
  BY <1>1, <1>2 DEF LiveRunning, Launch, StageInv, TypeOK
<1>6. InputsCurrent'
  <2> SUFFICES ASSUME NEW i \in Stages, state'[i] # "pending", NEW d \in deps[i]
               PROVE  state'[d] = "done" /\ used'[i][d] = ver[d]
    BY DEF InputsCurrent, Launch, plan
  <2>1. d \in Stages
    BY <1>1 DEF TypeOK
  <2>2. state[d] = "done" => state'[d] = "done"
    BY <1>1, <1>2, <2>1 DEF Launch, TypeOK, Ready
  <2>3. CASE i \in start
    BY <1>1, <2>1, <2>2, <2>3 DEF Launch, Ready, TypeOK
  <2>4. CASE i \notin start
    BY <1>1, <2>1, <2>2, <2>4 DEF Launch, TypeOK, StageInv, InputsCurrent
  <2> QED BY <2>3, <2>4
<1>7. FeedbackCurrent'
  BY <1>1, <1>2 DEF FeedbackCurrent, Launch, StageInv, TypeOK
<1>8. Accepted'
  BY <1>1, <1>2 DEF Accepted, Launch, StageInv, plan, TypeOK
<1>9. Drained'
  BY DEF Drained, Launch
<1> QED BY <1>1, <1>4, <1>5, <1>6, <1>7, <1>8, <1>9 DEF StageInv

(* A reset of a stage resets everything that depends on it.                *)
LEMMA ResetStep == StageInv /\ ApplyResets => StageInv'
<1> SUFFICES ASSUME StageInv, ApplyResets PROVE StageInv'
  OBVIOUS
<1> DEFINE hit(i) == \E t \in resets : i \in descendantsOrSelf(t)
<1>1. TypeOK /\ TypeOK' /\ PlanOK'
  BY TypeStep, PlanStep DEF StageInv, Next, Scheduler
<1>2. state' = [i \in Stages |-> IF hit(i) THEN "pending" ELSE state[i]]
  BY DEF ApplyResets
<1>3. ASSUME NEW i \in Stages, NEW d \in deps[i], hit(d) PROVE hit(i)
  <2>1. PICK t \in resets : d \in descendantsOrSelf(t)
    BY <1>3
  <2>2. i \in Dependents(deps)[d]
    BY <1>1 DEF Dependents, TypeOK
  <2>3. t \in Stages /\ Dependents(deps) \in [Stages -> SUBSET Stages]
    BY <1>1, DependentsType DEF TypeOK
  <2>4. i \in descendantsOrSelf(t)
    BY <2>1, <2>2, <2>3, ClosureClosed DEF descendantsOrSelf
  <2> QED BY <2>4
<1>4. live = {}
  <2>1. IsFiniteSet(live) /\ Cardinality(live) = 0
    BY <1>1, FiniteStages DEF ApplyResets, StageInv, NoStageLeaks, TypeOK
  <2> QED BY <2>1, FS_EmptySet
<1>5. InputsCurrent'
  <2> SUFFICES ASSUME NEW i \in Stages, state'[i] # "pending", NEW d \in deps[i]
               PROVE  state'[d] = "done" /\ used[i][d] = ver[d]
    BY DEF InputsCurrent, ApplyResets, plan
  <2>1. ~hit(i) /\ state[i] # "pending"
    BY <1>2
  <2>2. ~hit(d) /\ d \in Stages
    BY <1>1, <1>3, <2>1 DEF TypeOK
  <2> HIDE DEF hit
  <2> QED BY <1>2, <2>1, <2>2 DEF StageInv, InputsCurrent
<1>6. Accepted'
  <2> SUFFICES ASSUME NEW i \in Stages, state'[i] = "done", i \in rejected
               PROVE  mode = "failed"
    BY DEF Accepted, ApplyResets, plan
  <2>1. ~hit(i) /\ state[i] = "done"
    BY <1>2
  <2>2. mode = "failed" \/ handTo[i] \in resets
    BY <2>1 DEF StageInv, Accepted
  <2>3. ASSUME handTo[i] \in resets PROVE FALSE
    <3>1. handTo[i] \in ancestorsOrSelf(i)
      BY <1>1, <2>3, StageAssumption DEF StageInv, PlanOK, TypeOK, StageAssumption
    <3>2. i \in descendantsOrSelf(handTo[i])
      BY <1>1, <3>1, ClosureDual DEF ancestorsOrSelf, descendantsOrSelf, TypeOK
    <3> QED BY <2>1, <2>3, <3>2
  <2> QED BY <2>2, <2>3
<1>7. LiveRunning'
  <2> SUFFICES ASSUME mode # "failed", NEW i \in Stages PROVE state'[i] # "running"
    BY <1>4 DEF LiveRunning, ApplyResets
  <2>1. state[i] # "running"
    BY <1>4 DEF StageInv, LiveRunning
  <2> HIDE DEF hit
  <2> QED BY <1>2, <2>1
<1>8. NoStageLeaks' /\ FeedbackCurrent' /\ Drained'
  BY DEF NoStageLeaks, FeedbackCurrent, Drained, ApplyResets, StageInv
<1> QED BY <1>1, <1>5, <1>6, <1>7, <1>8 DEF StageInv

(* What taking the result of stage i means for the invariant.              *)
LEMMA TakeFacts ==
  ASSUME StageInv, NEW i \in Stages, Take(i)
  PROVE  /\ active' = Cardinality(live')
         /\ mode # "failed" => state[i] = "running"
<1>1. IsFiniteSet(live) /\ i \in live /\ active = Cardinality(live)
  BY FiniteStages DEF StageInv, TypeOK, Take, NoStageLeaks
<1>2. Cardinality(live \ {i}) = Cardinality(live) - 1
  BY <1>1, FS_RemoveElement
<1> QED BY <1>1, <1>2 DEF Take, StageInv, LiveRunning

LEMMA ErrorStep ==
  ASSUME StageInv, NEW i \in Stages, ReceiveError(i)
  PROVE  StageInv'
<1>1. TypeOK /\ TypeOK' /\ PlanOK'
  BY TypeStep, PlanStep DEF StageInv, Next, Receive
<1>2. NoStageLeaks'
  BY TakeFacts DEF ReceiveError, NoStageLeaks
<1>3. LiveRunning' /\ Accepted' /\ Drained'
  BY DEF ReceiveError, Take, LiveRunning, Accepted, Drained
<1>4. InputsCurrent' /\ FeedbackCurrent'
  BY DEF ReceiveError, Take, InputsCurrent, FeedbackCurrent, StageInv, plan
<1> QED BY <1>1, <1>2, <1>3, <1>4 DEF StageInv

(* A stage that completes had nobody using its previous output.            *)
LEMMA CompletionStep ==
  ASSUME StageInv, NEW i \in Stages, Take(i), mode # "failed", TypeOK',
         state' = [state EXCEPT ![i] = "done"],
         ver' = [ver EXCEPT ![i] = @ + 1]
  PROVE  /\ InputsCurrent'
         /\ \A k \in Stages : k \in live' <=> state'[k] = "running"
<1>1. TypeOK /\ state[i] = "running"
  BY TakeFacts DEF StageInv
<1>2. InputsCurrent'
  <2> SUFFICES ASSUME NEW k \in Stages, state'[k] # "pending", NEW d \in deps[k]
               PROVE  state'[d] = "done" /\ used[k][d] = ver'[d]
    BY DEF InputsCurrent, Take, plan
  <2>1. d \in Stages /\ state[k] # "pending"
    BY <1>1 DEF TypeOK
  <2>2. state[d] = "done" /\ used[k][d] = ver[d]
    BY <2>1 DEF StageInv, InputsCurrent
  <2> QED BY <1>1, <2>1, <2>2 DEF TypeOK
<1>3. \A k \in Stages : k \in live' <=> state'[k] = "running"
  BY <1>1 DEF Take, StageInv, LiveRunning, TypeOK
<1> QED BY <1>2, <1>3

LEMMA OutputStep ==
  ASSUME StageInv, NEW i \in Stages, ReceiveOutput(i)
  PROVE  StageInv'
<1>1. TypeOK /\ TypeOK' /\ PlanOK'
  BY TypeStep, PlanStep DEF StageInv, Next, Receive
<1>2. NoStageLeaks'
  BY TakeFacts DEF ReceiveOutput, NoStageLeaks
<1>3. LiveRunning' /\ InputsCurrent'
  BY <1>1, CompletionStep DEF ReceiveOutput, LiveRunning
<1>4. FeedbackCurrent' /\ Drained'
  BY DEF ReceiveOutput, Take, FeedbackCurrent, StageInv, Drained
<1>5. Accepted'
  BY <1>1 DEF ReceiveOutput, Take, Accepted, StageInv, TypeOK, plan
<1> QED BY <1>1, <1>2, <1>3, <1>4, <1>5 DEF StageInv

(* Work is handed back to the stage itself or to one that is done, so no   *)
(* live goroutine reads the feedback that is written.                      *)
LEMMA HandBackStep ==
  ASSUME StageInv, NEW i \in Stages, ReceiveHandBack(i)
  PROVE  StageInv'
<1>1. TypeOK /\ TypeOK' /\ PlanOK'
  BY TypeStep, PlanStep DEF StageInv, Next, Receive
<1>2. NoStageLeaks'
  BY TakeFacts DEF ReceiveHandBack, NoStageLeaks
<1>3. LiveRunning' /\ InputsCurrent'
  BY <1>1, CompletionStep DEF ReceiveHandBack, LiveRunning
<1>4. state[i] = "running" /\ handTo[i] \in ancestorsOrSelf(i)
  BY TakeFacts DEF ReceiveHandBack, StageInv, PlanOK
<1>5. handTo[i] \notin live'
  <2>1. CASE handTo[i] = i
    BY <2>1 DEF ReceiveHandBack, Take
  <2>2. CASE handTo[i] # i
    <3>1. state[handTo[i]] = "done" /\ handTo[i] \in Stages
      BY <1>1, <1>4, <2>2, AncestorsDone DEF StageInv, ancestorsOrSelf, Closure
    <3> QED BY <3>1 DEF ReceiveHandBack, Take, StageInv, LiveRunning
  <2> QED BY <2>1, <2>2
<1>6. FeedbackCurrent'
  <2> SUFFICES ASSUME NEW k \in live' \ unread' PROVE seen[k] = feedback'[k]
    BY DEF FeedbackCurrent, ReceiveHandBack, Take
  <2>1. k \in live \ unread /\ k # handTo[i] /\ k \in Stages
    BY <1>1, <1>5 DEF ReceiveHandBack, Take, TypeOK
  <2>2. seen[k] = feedback[k]
    BY <2>1 DEF StageInv, FeedbackCurrent
  <2> QED BY <1>1, <2>1, <2>2 DEF ReceiveHandBack, TypeOK
<1>7. Accepted'
  BY <1>1 DEF ReceiveHandBack, Take, Accepted, StageInv, TypeOK, plan
<1>8. Drained'
  BY DEF ReceiveHandBack, Take, Drained
<1> QED BY <1>1, <1>2, <1>3, <1>6, <1>7, <1>8 DEF StageInv

LEMMA InvStep == StageInv /\ [Next]_vars => StageInv'
<1> SUFFICES ASSUME StageInv, [Next]_vars PROVE StageInv'
  OBVIOUS
<1>0. TypeOK' /\ PlanOK'
  BY TypeStep, PlanStep DEF StageInv
<1>1. CASE Return
  BY <1>0, <1>1
  DEF Return, StageInv, LiveRunning, InputsCurrent, FeedbackCurrent,
      NoStageLeaks, Accepted, Drained, plan
<1>2. ASSUME NEW i \in Stages, ReadFeedback(i) PROVE StageInv'
  <2>1. FeedbackCurrent'
    BY <1>2 DEF ReadFeedback, FeedbackCurrent, StageInv, TypeOK
  <2>2. LiveRunning' /\ InputsCurrent' /\ NoStageLeaks' /\ Accepted' /\ Drained'
    BY <1>2 DEF ReadFeedback, StageInv, LiveRunning, InputsCurrent,
                NoStageLeaks, Accepted, Drained, plan
  <2> QED BY <1>0, <2>1, <2>2 DEF StageInv
<1>3. CASE UNCHANGED vars
  BY <1>0, <1>3
  DEF vars, StageInv, LiveRunning, InputsCurrent, FeedbackCurrent,
      NoStageLeaks, Accepted, Drained, plan
<1> QED
  BY <1>1, <1>2, <1>3, LaunchStep, ResetStep, ErrorStep, OutputStep, HandBackStep
  DEF Next, Scheduler, Receive, Done

-----------------------------------------------------------------------------
(* The theorems.                                                           *)

THEOREM InvariantHolds == Spec => []StageInv
<1>1. Init => StageInv
  BY InvInit
<1>2. StageInv /\ [Next]_vars => StageInv'
  BY InvStep
<1> QED BY <1>1, <1>2, PTL DEF Spec

(* The scheduler keeps its types: in particular active, which counts down  *)
(* at every result, never drops below zero, and a reset always names a     *)
(* stage of the plan.                                                      *)
THEOREM StageTypes == Spec => []TypeOK
<1>1. StageInv => TypeOK
  BY DEF StageInv
<1> QED BY <1>1, InvariantHolds, PTL

(* In every workflow, a stage that started has the latest outputs of what  *)
(* it depends on: runStages resets all the descendants of a target, and    *)
(* only while nothing runs.                                                *)
THEOREM InputsStayCurrent == Spec => []InputsCurrent
<1>1. StageInv => InputsCurrent
  BY DEF StageInv
<1> QED BY <1>1, InvariantHolds, PTL

(* The unlocked feedback slice is never written under a live reader, since *)
(* compileWorkflow lets a stage hand work back only to itself or to a      *)
(* stage it depends on.                                                    *)
THEOREM FeedbackStaysCurrent == Spec => []FeedbackCurrent
<1>1. StageInv => FeedbackCurrent
  BY DEF StageInv
<1> QED BY <1>1, InvariantHolds, PTL

(* active counts the stage goroutines, so when runStages returns nobody is *)
(* left blocked on the unbuffered results channel.                         *)
THEOREM NoStageLeak == Spec => [](NoStageLeaks /\ (pc = "returned" => live = {}))
<1>1. StageInv => NoStageLeaks /\ (pc = "returned" => live = {})
  <2> SUFFICES ASSUME StageInv, pc = "returned" PROVE live = {}
    BY DEF StageInv
  <2>1. IsFiniteSet(live) /\ Cardinality(live) = 0
    BY FiniteStages DEF StageInv, NoStageLeaks, Drained, TypeOK
  <2> QED BY <2>1, FS_EmptySet
<1> QED BY <1>1, InvariantHolds, PTL

(* Unless the run failed, no stage is left done with an output that handed *)
(* work back when runStages returns.                                       *)
THEOREM NoRejectedOutput ==
  Spec => [](pc = "returned" /\ mode # "failed" =>
                \A i \in Stages : state[i] = "done" => i \notin rejected)
<1>1. StageInv => (pc = "returned" /\ mode # "failed" =>
                     \A i \in Stages : state[i] = "done" => i \notin rejected)
  BY DEF StageInv, Accepted, Drained
<1> QED BY <1>1, InvariantHolds, PTL

-----------------------------------------------------------------------------
(* A run that succeeds is complete.                                        *)

(* A set of numbers has a least one.                                       *)
LEMMA HasLeast ==
  ASSUME NEW T \in SUBSET Nat, T # {}
  PROVE  \E n \in T : \A k \in T : n <= k
<1> DEFINE R == {ss \in Nat \X Nat : ss[1] < ss[2]}
<1>1. PICK n \in T : \A k \in T : ~(<<k, n>> \in R)
  <2>1. R = OpToRel(<, Nat)
    BY Zenon DEF OpToRel
  <2>2. IsWellFoundedOn(R, Nat)
    BY <2>1, NatLessThanWellFounded, Zenon
  <2> HIDE DEF R
  <2> QED BY <2>2, WFMin, Zenon
<1>2. \A k \in T : ~(k < n)
  BY <1>1
<1> QED BY <1>2

(* What is reached from a stage's dependency is reached from the stage,    *)
(* and in an acyclic plan it is less.                                      *)
LEMMA ClosureShrinks ==
  ASSUME NEW e \in [Stages -> SUBSET Stages], ~cyclic(e),
         NEW i \in Stages, NEW j \in e[i]
  PROVE  Cardinality(Closure(j, e)) < Cardinality(Closure(i, e))
<1>1. j \in Stages /\ j \in Closure(i, e)
  BY ClosureReflexive, ClosureClosed
<1>2. Closure(i, e) \in SUBSET Stages /\ Closed(Closure(i, e), e)
  <2>1. Closure(i, e) \in SUBSET Stages
    BY DEF Closure
  <2> QED BY <2>1, ClosureClosed DEF Closed
<1>3. Closure(j, e) \subseteq Closure(i, e)
  <2> SUFFICES ASSUME NEW x \in Closure(j, e) PROVE x \in Closure(i, e)
    OBVIOUS
  <2>1. \A S \in SUBSET Stages : j \in S /\ Closed(S, e) => x \in S
    BY DEF Closure
  <2> QED BY <1>1, <1>2, <2>1
<1>4. i \in Closure(i, e) /\ i \notin Closure(j, e)
  BY ClosureReflexive DEF cyclic
<1>5. IsFiniteSet(Closure(i, e))
  BY <1>2, FiniteStages
<1>6. Closure(j, e) # Closure(i, e)
  BY <1>4
<1> QED BY <1>3, <1>5, <1>6, FS_Subset, FS_CardinalityType

(* Stages that all wait for one another would make the plan cyclic.        *)
LEMMA SomebodyIsFirst ==
  ASSUME NEW e \in [Stages -> SUBSET Stages], ~cyclic(e),
         NEW P \in SUBSET Stages, P # {}
  PROVE  \E i \in P : e[i] \cap P = {}
<1> DEFINE size(i) == Cardinality(Closure(i, e))
           T == {size(i) : i \in P}
<1>1. ASSUME NEW i \in P PROVE size(i) \in Nat
  <2>1. Closure(i, e) \in SUBSET Stages
    BY DEF Closure
  <2> QED BY <2>1, FiniteStages
<1>2. T \in SUBSET Nat /\ T # {}
  BY <1>1
<1> HIDE DEF size
<1>3. PICK n \in T : \A k \in T : n <= k
  BY <1>2, HasLeast
<1>4. PICK i \in P : n = size(i)
  OBVIOUS
<1>5. ASSUME NEW j \in e[i], j \in P PROVE FALSE
  <2>1. size(j) \in Nat /\ size(i) \in Nat /\ size(i) <= size(j)
    BY <1>1, <1>3, <1>4, <1>5
  <2>2. size(j) < size(i)
    BY <1>5, ClosureShrinks DEF size
  <2> QED BY <2>1, <2>2
<1> QED BY <1>5

(* compileWorkflow refuses a cyclic plan.                                  *)
Acyclic == ~cyclic(deps)

(* After a pass that started nothing, with nothing running and no reset    *)
(* waiting, nothing is ready.                                              *)
Started == pc # "launch" /\ active = 0 /\ mode = "open" /\ resets = {} => Ready = {}

LEMMA AcyclicStep == Acyclic /\ [Next]_vars => Acyclic'
  BY DEF Acyclic, Next, vars, plan, Scheduler, Receive, Done, Launch, Return,
         ApplyResets, ReadFeedback, ReceiveError, ReceiveOutput,
         ReceiveHandBack, Take

LEMMA StartedStep == TypeOK /\ Started /\ [Next]_vars => Started'
<1> SUFFICES ASSUME TypeOK, Started, [Next]_vars PROVE Started'
  OBVIOUS
<1>1. CASE Launch
  <2> DEFINE start == IF mode = "open" /\ resets = {} THEN Ready ELSE {}
  <2> SUFFICES ASSUME active' = 0, mode = "open", resets = {} PROVE Ready' = {}
    BY <1>1 DEF Started, Launch
  <2>1. start = Ready /\ Ready \in SUBSET Stages
    BY ReadySubset
  <2>2. active' = active + Cardinality(Ready)
    BY <1>1 DEF Launch
  <2>3. Cardinality(Ready) \in Nat /\ IsFiniteSet(Ready)
    BY <2>1, FiniteStages
  <2>4. Cardinality(Ready) = 0
    BY <2>2, <2>3 DEF TypeOK
  <2>5. Ready = {}
    BY <2>3, <2>4, FS_EmptySet
  <2>6. state' = [i \in Stages |-> IF i \in start THEN "running" ELSE state[i]]
    BY <1>1 DEF Launch
  <2>7. state' = state
    BY <2>1, <2>5, <2>6 DEF TypeOK
  <2>8. deps' = deps
    BY <1>1 DEF Launch, plan
  <2> QED BY <2>5, <2>7, <2>8 DEF Ready
<1>2. CASE Return
  BY <1>2 DEF Return, Started, Ready, plan
<1>3. CASE ApplyResets
  BY <1>3 DEF ApplyResets, Started
<1>4. ASSUME NEW i \in Stages, ReadFeedback(i) PROVE Started'
  BY <1>4 DEF ReadFeedback, Started, Ready, plan
<1>5. ASSUME NEW i \in Stages, Receive(i) PROVE Started'
  BY <1>5 DEF Receive, ReceiveError, ReceiveOutput, ReceiveHandBack, Take, Started
<1>6. CASE UNCHANGED vars
  BY <1>6 DEF vars, plan, Started, Ready
<1> QED BY <1>1, <1>2, <1>3, <1>4, <1>5, <1>6 DEF Next, Scheduler, Done

(* When nothing runs, nothing is ready and no reset waits, all is done: a  *)
(* pending stage would wait for a pending one, and so on for ever.         *)
LEMMA AllDone ==
  ASSUME StageInv, Acyclic, Started, pc = "returned", mode = "open"
  PROVE  \A i \in Stages : state[i] = "done"
<1> DEFINE P == {i \in Stages : state[i] = "pending"}
<1>1. live = {}
  <2>1. IsFiniteSet(live) /\ Cardinality(live) = 0
    BY FiniteStages DEF StageInv, NoStageLeaks, Drained, TypeOK
  <2> QED BY <2>1, FS_EmptySet
<1>2. Ready = {}
  BY DEF Started, StageInv, Drained
<1>3. \A i \in Stages : state[i] \in {"pending", "done"}
  BY <1>1 DEF StageInv, LiveRunning, TypeOK
<1>4. ASSUME NEW i \in P PROVE deps[i] \cap P # {}
  <2>1. PICK d \in deps[i] : state[d] # "done"
    BY <1>2 DEF Ready
  <2>2. d \in Stages
    BY DEF StageInv, TypeOK
  <2> QED BY <1>3, <2>1, <2>2
<1>5. P = {}
  BY <1>4, SomebodyIsFirst DEF Acyclic, StageInv, TypeOK
<1> QED BY <1>3, <1>5

(* A run that ends without a stop or a failure has completed every stage   *)
(* of its workflow, whatever its shape and however often work was handed   *)
(* back, and reports no output that was handed back: runStages never       *)
(* returns early because nothing happens to be active.                     *)
THEOREM SuccessCompletes == Spec => []SuccessIsComplete
<1>1. Init => Acyclic /\ Started
  BY DEF Init, ValidPlan, Acyclic, Started
<1>2. TypeOK /\ (Acyclic /\ Started) /\ [Next]_vars => (Acyclic /\ Started)'
  BY AcyclicStep, StartedStep
<1>3. StageInv => TypeOK
  BY DEF StageInv
<1>4. StageInv /\ Acyclic /\ Started => SuccessIsComplete
  BY AllDone DEF SuccessIsComplete, StageInv, Accepted, Drained
<1> QED BY <1>1, <1>2, <1>3, <1>4, InvariantHolds, PTL DEF Spec
=============================================================================
