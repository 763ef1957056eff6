-------------------------- MODULE StageTasksProofs ---------------------------
(***************************************************************************)
(* Proofs about StageTasks, for any plans, keys and limits.                *)
(***************************************************************************)
EXTENDS StageTasks, FiniteSetTheorems, NaturalsInduction, WellFoundedInduction, TLAPS

-----------------------------------------------------------------------------
(* The inductive invariant.                                                *)

Size == Len(plan.keys)

Worker == [pc : Places, attempt : Nat, task : Nat, out : Nat, err : Errors]

Busy == {"create", "delegating", "ask", "answered", "failing", "backoff"}

(* The responses of a key that were given to somebody.                     *)
Used(k) == Len(log[k]) - Len(answers[k])

Done(w) == work[w].pc = "done"

Failed(w) == Done(w) /\ work[w].err # "none"

Held(w) == work[w].pc = "answered" \/ (Done(w) /\ work[w].err = "none")

(* What a worker's place says of it.                                       *)
Sound(r) ==
    /\ r.pc \in {"off", "take", "create", "backoff"} => r.task = 0
    /\ r.pc \in Places \ {"answered", "failing", "done"} => r.out = 0
    /\ r.pc \in Places \ {"failing", "done"} => r.err = "none"
    /\ r.pc \in {"off", "take"} => r.attempt = 1
    /\ r.pc = "failing" => r.err # "none"
    /\ r.pc = "done" /\ r.err # "none" => r.out = 0
    /\ r.attempt > 0

(* One that executes found no output to reuse.                             *)
WorkerOK(w) ==
    LET p == work[w].pc
        k == Key(w)
    IN  /\ Sound(work[w])
        /\ p # "off" => k \in Keys
        /\ p \in {"delegating", "ask", "answered"} => work[w].task \in DOMAIN tasks[k]
        /\ p = "failing" /\ work[w].task # 0 => work[w].task \in DOMAIN tasks[k]
        /\ p \in Busy => reuse[k] = {}
        /\ Held(w) => work[w].out \in 1 .. Used(k)
        /\ w \notin Steps /\ p \notin {"off", "done"} => work[Parent(w)].pc = "delegating"
        /\ p \in {"delegating", "backoff"} => w \in Steps

(* A process that has not started the stage has nothing of it.             *)
NotStarted ==
    phase \in {"gate", "starting"} =>
        /\ work = [w \in Workers |-> Off]
        /\ results = <<>> /\ failures = 0 /\ stageErr = "none" /\ ~canceled

(* An output to reuse is one of a completed task; only a copy has answers. *)
KeyOK(k) ==
    /\ reuse[k] \subseteq Completed(k)
    /\ \A i \in Completed(k) : tasks[k][i].out \in 1 .. Used(k)
    /\ \A j \in 1 .. Len(answers[k]) : answers[k][j] = Used(k) + j
    /\ Used(k) \in Nat
    /\ ~copying => answers[k] = <<>>

(* The steps of a sequential stage follow one another.                     *)
InOrder ==
    phase = "running" /\ plan.kind = "sequential" =>
        \E c \in Steps :
            /\ \A i \in Steps : i < c => Done(i) /\ work[i].err = "none"
            /\ work[c].pc \notin {"off", "done"}
            /\ \A i \in Steps : i > c => work[i].pc = "off"

TaskInv ==
    /\ TypeOK /\ NotStarted /\ InOrder
    /\ \A w \in Workers : WorkerOK(w)
    /\ \A k \in Keys : KeyOK(k)

(* The policy: what was counted of the results collected.                  *)
InChannel == {results[j] : j \in 1 .. Len(results)}

Fine == {i \in Steps : Done(i) /\ work[i].err = "none"}

Lost == {i \in Steps : Failed(i)}

Counted == Lost \ InChannel

ChannelOK ==
    /\ \A j \in 1 .. Len(results) : Done(results[j])
    /\ \A j, l \in 1 .. Len(results) : results[j] = results[l] => j = l
    /\ canceled <=> stageErr # "none"
    /\ plan.kind = "sequential" => results = <<>> /\ stageErr = "none"

GoesOn ==
    stageErr = "none" /\ plan.kind = "parallel" =>
        /\ failures = Cardinality(Counted)
        /\ \A i \in Counted : work[i].err # "paused"
        /\ plan.policy = "fail_fast" => Counted = {}
        /\ plan.policy = "quorum" => failures <= Size - plan.quorum

GaveUp ==
    stageErr # "none" =>
        \/ plan.policy = "fail_fast" /\ stageErr # "paused" /\ Lost # {}
        \/ stageErr = "paused" /\ \E i \in Lost : work[i].err = "paused"
        \/ /\ plan.policy = "quorum" /\ stageErr # "paused"
           /\ Cardinality(Lost) > Size - plan.quorum

(* How a stage has ended.                                                  *)
Concluded ==
    /\ phase = "review" => verdict = "ok"
    /\ phase \in {"review", "over"} /\ verdict \notin {"refused", "budget"}
           /\ plan.kind = "parallel" =>
          /\ \A i \in Steps : Done(i)
          /\ results = <<>>
          /\ stageErr # "none" => verdict = stageErr
    /\ phase = "over" /\ verdict \notin {"ok", "refused"} /\ plan.kind = "sequential" =>
          \E i \in Lost : work[i].err = verdict

PolicyInv == ChannelOK /\ GoesOn /\ GaveUp /\ Concluded /\ PolicyDecides

(* Outputs.                                                                *)
OutsDiffer ==
    /\ \A v, w \in Workers :
          Held(v) /\ Held(w) /\ Key(v) = Key(w) /\ work[v].out = work[w].out => v = w
    /\ \A k \in Keys : \A i, j \in Completed(k) : tasks[k][i].out = tasks[k][j].out => i = j
    /\ \A k \in Keys : \A w \in Workers : \A i \in Completed(k) :
          work[w].pc = "answered" /\ Key(w) = k => tasks[k][i].out # work[w].out
    /\ \A k \in Keys : \A w \in Workers : \A i \in reuse[k] :
          Held(w) /\ Key(w) = k => tasks[k][i].out # work[w].out

Owners(k) == {i \in Steps : Key(i) = k}

Finished(k) == Owners(k) \cap Fine

OnceInv ==
    \A k \in Keys : (\A i \in Steps : plan.child[i] # k) =>
        /\ Cardinality(reuse[k]) + Cardinality(Finished(k)) <= Cardinality(Owners(k))
        /\ Cardinality(Completed(k)) <= Cardinality(reuse[k]) + Cardinality(Finished(k))

(* Reservations: those that wait to be used, by R among steps not started. *)
Pending == {w \in Workers : work[w].pc \in {"create", "backoff"}}

Takers == {i \in Steps : work[i].pc = "take"}

StoredTasks == UNION {{k} \X DOMAIN tasks[k] : k \in Keys}

Covers(R) ==
    /\ Created + Cardinality(Pending) + Cardinality(R) <= subAgents
    /\ plan.kind = "parallel" => \A k \in Keys :
          Cardinality({i \in Takers \ R : Key(i) = k}) <= Cardinality(reuse[k])

ReserveInv ==
    /\ subAgents <= MaxSubAgents /\ IsFiniteSet(StoredTasks)
    /\ \E R \in SUBSET Takers : Covers(R)

(* No step of a parallel stage delegates the task of another step.         *)
Unshared ==
    \A p \in Plans : p.kind = "parallel" =>
        \A i, j \in 1 .. Len(p.keys) : p.child[i] # p.keys[j]

-----------------------------------------------------------------------------
(* A run and its copy.  A key's responses are l, and u of them were used:  *)
(* by a step, each for an attempt of its own, and none of them but the     *)
(* last was good.                                                          *)
GoodIn(l) == \E j \in 1 .. Len(l) : l[j] = "good"

LoopIn(l) == \E j \in 1 .. Len(l) : l[j] = "loop"

Before == {"off", "take", "create", "delegating", "ask", "backoff"}

Has(r) == r.pc = "answered" \/ (r.pc = "done" /\ r.err = "none")

Paused(r) == r.pc \in {"failing", "done"} /\ r.err = "paused"

(* m is the number of attempts that the plan allows.                       *)
Tries(a, m) == a = 1 \/ a <= m

Uses(r, l, u, m) ==
    /\ Has(r) => r.out = u
    /\ r.pc = "done" /\ r.err = "none" => l[r.out] = "good"
    /\ \A j \in 1 .. u : l[j] = "good" => Has(r) /\ j = u
    /\ Tries(r.attempt, m)

(* In the run, none was asked for after one that runs into a loop.         *)
RunStep(r, l, m) ==
    /\ Uses(r, l, Len(l), m)
    /\ Len(l) <= r.attempt
    /\ r.pc \in Before => Len(l) < r.attempt
    /\ \A j \in 1 .. Len(l) :
          l[j] = "loop" => j = Len(l) /\ (r.pc = "answered" \/ Paused(r))

(* In the copy, it is the attempt's turn if there is a response left.      *)
CopyStep(r, l, u, m) ==
    /\ Uses(r, l, u, m)
    /\ \A j \in 1 .. Len(l) : l[j] \in {"good", "loop"} => j = Len(l)
    /\ Len(l) = 0 \/ Tries(Len(l), m)
    /\ r.pc \in Before /\ u < Len(l) => u = r.attempt - 1
    /\ r.pc = "answered" => u = r.attempt
    /\ r.err # "paused"

(* A step of the copy that is not canceled fails only if its run's step    *)
(* had no good response, or for want of sub-agents.                        *)
Stuck(r, l) == ~GoodIn(l) \/ r.err = "budget"

FailsRight(r, l, u) ==
    /\ r.pc = "failing" /\ r.err = "failed" => u = Len(l) \/ u = r.attempt
    /\ r.pc = "failing" /\ r.err # "failed" => Stuck(r, l)
    /\ r.pc = "done" /\ r.err # "none" => Stuck(r, l)
    /\ r.err # "canceled"

StepOK(w) ==
    LET l == log[Key(w)]
        u == Used(Key(w))
    IN  IF copying THEN /\ CopyStep(work[w], l, u, plan.attempts)
                        /\ canceled \/ FailsRight(work[w], l, u)
        ELSE RunStep(work[w], l, plan.attempts)

(* A delegated task that runs into a loop ends the step that delegates.    *)
ChildOK(w) ==
    LET l == log[Key(w)]
        p == log[Key(Parent(w))]
        r == work[w]
    IN  IF copying
        THEN /\ LoopIn(l) => ~GoodIn(p)
             /\ r.pc = "failing" => /\ r.err \in {"failed", "budget", "final", "canceled"}
                                    /\ r.err = "canceled" => canceled
                                    /\ r.err = "final" => ~GoodIn(p)
        ELSE LoopIn(l) => \/ r.pc = "answered" /\ l[r.out] = "loop"
                          \/ r.pc = "failing" /\ r.err = "paused"
                          \/ Paused(work[Parent(w)])

Children == {w \in Workers \ Steps : Key(w) # "none"}

WorkCopy == (\A w \in Steps : StepOK(w)) /\ \A w \in Children : ChildOK(w)

(* The steps that got a good response, and what the policy makes of them.  *)
Goods == {i \in Steps : GoodIn(log[Key(i)])}

LogMet ==
    \/ Goods = Steps
    \/ /\ plan.kind = "parallel"
       /\ \/ plan.policy = "best_effort" /\ Goods # {}
          \/ plan.policy = "quorum" /\ Cardinality(Goods) >= plan.quorum

GoodOuts == [i \in Steps |-> IF GoodIn(log[Key(i)]) THEN Len(log[Key(i)]) ELSE 0]

CopyGaveUp ==
    stageErr # "none" =>
        \/ \E i \in Steps : Done(i) /\ work[i].err = "budget"
        \/ plan.policy = "fail_fast" /\ Goods # Steps
        \/ plan.policy = "quorum" /\ Cardinality(Steps \ Goods) > Size - plan.quorum

(* Nobody works at the end, and without gates nobody is asked.             *)
Rests ==
    /\ phase \in {"review", "over"} => \A i \in Steps : work[i].pc \in {"off", "done"}
    /\ plan.gates = {} => phase \notin {"gate", "review"} /\ verdict # "refused"

Undisturbed == Distinct /\ ~disturbed

(* Only an undisturbed run is copied, and the copy knows how it ended.     *)
CopyInv ==
    /\ Rests
    /\ copying => Undisturbed /\ plan.gates = {}
    /\ ~disturbed => context = "live" /\ reuse = None
    /\ Undisturbed => WorkCopy
    /\ copying => /\ CopyGaveUp
                  /\ first.verdict = "ok" <=> LogMet
                  /\ first.verdict = "ok" => first.outs = GoodOuts

-----------------------------------------------------------------------------
(* What an update of the workers leaves.                                   *)

WorkIs(w, p, a, t, o, e) ==
    /\ work'[w].pc = p /\ work'[w].attempt = a /\ work'[w].task = t
    /\ work'[w].out = o /\ work'[w].err = e

KeptBut(S) == \A v \in Workers \ S : work'[v] = work[v]

PutPc(r, p) == [r EXCEPT !.pc = p]
PutAttempt(r, a) == [r EXCEPT !.attempt = a]
PutTask(r, t) == [r EXCEPT !.task = t]
PutOut(r, o) == [r EXCEPT !.out = o]
PutErr(r, e) == [r EXCEPT !.err = e]

(* One field of a record, and the record one field later.                  *)
LEMMA PutFields ==
    ASSUME NEW r \in Worker
    PROVE  /\ \A x \in Places :
                 LET s == PutPc(r, x)
                 IN  /\ s \in Worker /\ s.pc = x /\ s.attempt = r.attempt
                     /\ s.task = r.task /\ s.out = r.out /\ s.err = r.err
           /\ \A x \in Nat :
                 LET s == PutAttempt(r, x)
                 IN  /\ s \in Worker /\ s.pc = r.pc /\ s.attempt = x
                     /\ s.task = r.task /\ s.out = r.out /\ s.err = r.err
           /\ \A x \in Nat :
                 LET s == PutTask(r, x)
                 IN  /\ s \in Worker /\ s.pc = r.pc /\ s.attempt = r.attempt
                     /\ s.task = x /\ s.out = r.out /\ s.err = r.err
           /\ \A x \in Nat :
                 LET s == PutOut(r, x)
                 IN  /\ s \in Worker /\ s.pc = r.pc /\ s.attempt = r.attempt
                     /\ s.task = r.task /\ s.out = x /\ s.err = r.err
           /\ \A x \in Errors :
                 LET s == PutErr(r, x)
                 IN  /\ s \in Worker /\ s.pc = r.pc /\ s.attempt = r.attempt
                     /\ s.task = r.task /\ s.out = r.out /\ s.err = x
  <1>1. ASSUME NEW x \in Places
        PROVE  LET s == PutPc(r, x)
               IN  /\ s \in Worker /\ s.pc = x /\ s.attempt = r.attempt
                   /\ s.task = r.task /\ s.out = r.out /\ s.err = r.err
    BY <1>1, Zenon DEF Worker, PutPc
  <1>2. ASSUME NEW x \in Nat
        PROVE  LET s == PutAttempt(r, x)
               IN  /\ s \in Worker /\ s.pc = r.pc /\ s.attempt = x
                   /\ s.task = r.task /\ s.out = r.out /\ s.err = r.err
    BY <1>2, Zenon DEF Worker, PutAttempt
  <1>3. ASSUME NEW x \in Nat
        PROVE  LET s == PutTask(r, x)
               IN  /\ s \in Worker /\ s.pc = r.pc /\ s.attempt = r.attempt
                   /\ s.task = x /\ s.out = r.out /\ s.err = r.err
    BY <1>3, Zenon DEF Worker, PutTask
  <1>4. ASSUME NEW x \in Nat
        PROVE  LET s == PutOut(r, x)
               IN  /\ s \in Worker /\ s.pc = r.pc /\ s.attempt = r.attempt
                   /\ s.task = r.task /\ s.out = x /\ s.err = r.err
    BY <1>4, Zenon DEF Worker, PutOut
  <1>5. ASSUME NEW x \in Errors
        PROVE  LET s == PutErr(r, x)
               IN  /\ s \in Worker /\ s.pc = r.pc /\ s.attempt = r.attempt
                   /\ s.task = r.task /\ s.out = r.out /\ s.err = x
    BY <1>5, Zenon DEF Worker, PutErr
  <1> QED BY <1>1, <1>2, <1>3, <1>4, <1>5, Zenon

LEMMA OffIs ==
    /\ Off \in Worker /\ Off.pc = "off" /\ Off.attempt = 1 /\ Off.task = 0
    /\ Off.out = 0 /\ Off.err = "none"
  BY Zenon DEF Off, Worker, Places, Errors

LEMMA PutIs ==
    ASSUME NEW f \in [Workers -> Worker], NEW w \in Workers, NEW r \in Worker,
           NEW g, g = [f EXCEPT ![w] = r]
    PROVE  g \in [Workers -> Worker] /\ g[w] = r /\ \A v \in Workers \ {w} : g[v] = f[v]
  OBVIOUS

(* The update of the workers when w's result is there.                     *)
LEMMA DoneIs ==
    ASSUME NEW f \in [Workers -> Worker], NEW w \in Workers, NEW o \in Nat, NEW e \in Errors,
           NEW g, g = [f EXCEPT ![w] = PutErr(PutOut(PutPc(f[w], "done"), o), e)]
    PROVE  /\ g \in [Workers -> Worker] /\ \A v \in Workers \ {w} : g[v] = f[v]
           /\ g[w].pc = "done" /\ g[w].attempt = f[w].attempt /\ g[w].task = f[w].task
           /\ g[w].out = o /\ g[w].err = e
  <1> DEFINE s == PutPc(f[w], "done")
             u == PutOut(s, o)
             r == PutErr(u, e)
  <1>1. f[w] \in Worker /\ "done" \in Places
    BY DEF Places
  <1>2. s \in Worker /\ s.pc = "done" /\ s.attempt = f[w].attempt /\ s.task = f[w].task
    BY <1>1, PutFields
  <1> HIDE DEF s
  <1>3. /\ u \in Worker /\ u.pc = "done" /\ u.attempt = f[w].attempt
        /\ u.task = f[w].task /\ u.out = o
    BY <1>2, PutFields
  <1> HIDE DEF u
  <1>4. /\ r \in Worker /\ r.pc = "done" /\ r.attempt = f[w].attempt
        /\ r.task = f[w].task /\ r.out = o /\ r.err = e
    BY <1>3, PutFields
  <1>5. g = [f EXCEPT ![w] = r]
    BY DEF s, u
  <1> HIDE DEF r
  <1>6. g \in [Workers -> Worker] /\ g[w] = r /\ \A v \in Workers \ {w} : g[v] = f[v]
    BY <1>4, <1>5, PutIs
  <1> QED BY <1>4, <1>6

(* The place and the error of a worker change.                             *)
LEMMA PcErrIs ==
    ASSUME NEW f \in [Workers -> Worker], NEW w \in Workers, NEW p \in Places, NEW e \in Errors,
           NEW g, g = [f EXCEPT ![w] = PutErr(PutPc(f[w], p), e)]
    PROVE  /\ g \in [Workers -> Worker] /\ \A v \in Workers \ {w} : g[v] = f[v]
           /\ g[w].pc = p /\ g[w].attempt = f[w].attempt /\ g[w].task = f[w].task
           /\ g[w].out = f[w].out /\ g[w].err = e
  <1> DEFINE s == PutPc(f[w], p)
             r == PutErr(s, e)
  <1>1. f[w] \in Worker
    OBVIOUS
  <1>2. s \in Worker /\ s.pc = p /\ s.attempt = f[w].attempt /\ s.task = f[w].task
        /\ s.out = f[w].out
    BY <1>1, PutFields
  <1> HIDE DEF s
  <1>4. /\ r \in Worker /\ r.pc = p /\ r.attempt = f[w].attempt
        /\ r.task = f[w].task /\ r.out = f[w].out /\ r.err = e
    BY <1>2, PutFields
  <1>5. g = [f EXCEPT ![w] = r]
    BY DEF s
  <1> HIDE DEF r
  <1>6. g \in [Workers -> Worker] /\ g[w] = r /\ \A v \in Workers \ {w} : g[v] = f[v]
    BY <1>4, <1>5, PutIs
  <1> QED BY <1>4, <1>6

(* The place of a worker changes.                                          *)
LEMMA PcIs ==
    ASSUME NEW f \in [Workers -> Worker], NEW w \in Workers, NEW p \in Places,
           NEW g, g = [f EXCEPT ![w] = PutPc(f[w], p)]
    PROVE  /\ g \in [Workers -> Worker] /\ \A v \in Workers \ {w} : g[v] = f[v]
           /\ g[w].pc = p /\ g[w].attempt = f[w].attempt /\ g[w].task = f[w].task
           /\ g[w].out = f[w].out /\ g[w].err = f[w].err
  <1> DEFINE r == PutPc(f[w], p)
  <1>1. f[w] \in Worker
    OBVIOUS
  <1>4. /\ r \in Worker /\ r.pc = p /\ r.attempt = f[w].attempt
        /\ r.task = f[w].task /\ r.out = f[w].out /\ r.err = f[w].err
    BY <1>1, PutFields
  <1> HIDE DEF r
  <1>6. g \in [Workers -> Worker] /\ g[w] = r /\ \A v \in Workers \ {w} : g[v] = f[v]
    BY <1>4, PutIs DEF r
  <1> QED BY <1>4, <1>6

-----------------------------------------------------------------------------
(* Steps, the tasks they delegate, and their keys.                         *)

LEMMA PlanFacts ==
    ASSUME plan \in Plans
    PROVE  /\ plan.kind \in {"parallel", "sequential"} /\ plan.policy \in Policies
           /\ plan.keys \in Seq(Keys) /\ Size \in Nat \ {0}
           /\ plan.child \in [Steps -> Keys \cup {"none"}]
           /\ plan.quorum \in 0 .. Size /\ plan.attempts \in Nat
           /\ plan.policy = "quorum" <=> plan.quorum > 0
           /\ plan.policy = "quorum" => plan.kind = "parallel"
           /\ "none" \notin Keys /\ MaxConcurrent \in Nat \ {0}
           /\ MaxSubAgents \in Nat /\ MaxResumes \in Nat /\ MaxFaults \in Nat
  <1>1. Len(plan.keys) \in Nat /\ Len(plan.keys) > 0
    BY StageTasksAssumption
  <1> QED BY <1>1, StageTasksAssumption DEF Size, Steps

LEMMA WorkersAre ==
    ASSUME plan \in Plans
    PROVE  /\ Steps = 1 .. Size /\ Workers = 1 .. 2 * Size /\ Size \in Nat \ {0}
           /\ Steps \subseteq Workers /\ 1 \in Steps
           /\ \A w \in Workers \ Steps :
                 /\ Parent(w) \in Steps /\ Parent(w) # w /\ Child(Parent(w)) = w
                 /\ Key(w) = plan.child[Parent(w)] /\ Key(w) \in Keys \cup {"none"}
           /\ \A w \in Steps :
                 /\ Child(w) \in Workers \ Steps /\ Parent(Child(w)) = w
                 /\ Key(w) = plan.keys[w] /\ Key(w) \in Keys
           /\ "none" \notin Keys
  <1>1. Size \in Nat \ {0} /\ Steps = 1 .. Size /\ Workers = 1 .. 2 * Size
    BY PlanFacts DEF Steps, Workers, Size
  <1>2. \A w \in Workers \ Steps : w - Size \in Steps /\ w - Size # w /\ w - Size + Size = w
    BY <1>1
  <1>3. \A w \in Steps : w + Size \in Workers \ Steps /\ w + Size - Size = w
    BY <1>1
  <1>4. \A w \in Steps : plan.keys[w] \in Keys
    BY <1>1, PlanFacts DEF Size
  <1>5. Steps \subseteq Workers /\ 1 \in Steps
    BY <1>1
  <1>6. \A w : Parent(w) = w - Size /\ Child(w) = w + Size
    BY DEF Parent, Child, Size
  <1>7. \A w : Key(w) = IF w \in Steps THEN plan.keys[w] ELSE plan.child[w - Size]
    BY DEF Key, Size
  <1>8. \A w \in Workers \ Steps : plan.child[w - Size] \in Keys \cup {"none"}
    BY <1>2, PlanFacts
  <1>11. \A w \in Steps : Child(w) \in Workers \ Steps /\ Parent(Child(w)) = w
    BY <1>1, <1>3 DEF Parent, Child, Size
  <1> HIDE DEF Size, Steps, Workers, Parent, Child, Key
  <1>9. \A w \in Workers \ Steps :
            /\ Parent(w) \in Steps /\ Parent(w) # w /\ Child(Parent(w)) = w
            /\ Key(w) = plan.child[Parent(w)] /\ Key(w) \in Keys \cup {"none"}
    BY <1>2, <1>6, <1>7, <1>8
  <1>10. \A w \in Steps :
            /\ Child(w) \in Workers \ Steps /\ Parent(Child(w)) = w
            /\ Key(w) = plan.keys[w] /\ Key(w) \in Keys
    BY <1>4, <1>7, <1>11
  <1> QED BY <1>1, <1>5, <1>9, <1>10, PlanFacts

LEMMA SamePlan ==
    ASSUME plan' = plan
    PROVE  /\ Steps' = Steps /\ Workers' = Workers /\ Size' = Size
           /\ \A w : Key(w)' = Key(w) /\ Parent(w)' = Parent(w) /\ Child(w)' = Child(w)
           /\ Distinct' = Distinct
  BY DEF Steps, Workers, Size, Key, Parent, Child, Distinct

LEMMA WorkTypes ==
    TypeOK => work \in [Workers -> Worker]
  BY DEF TypeOK, Worker

-----------------------------------------------------------------------------
(* What the workers' actions do.                                           *)

Statics == UNCHANGED <<plan, copying, context, canceled, resumes, disturbed, first>>

(* Only w moves.                                                           *)
Alone(w) ==
    /\ Statics /\ KeptBut({w}) /\ work' \in [Workers -> Worker]
    /\ UNCHANGED <<results, failures, stageErr, verdict, phase>>

(* Where the result goes.                                                  *)
ToParent(w, err) ==
    LET p == Parent(w)
    IN  /\ w \notin Steps /\ KeptBut({w, p})
        /\ UNCHANGED <<results, failures, stageErr, verdict, phase>>
        /\ IF err \in {"none", "failed"}
           THEN WorkIs(p, "ask", work[p].attempt, work[p].task, work[p].out, work[p].err)
           ELSE WorkIs(p, "failing", work[p].attempt, work[p].task, work[p].out, err)

ToChannel(w) ==
    /\ w \in Steps /\ plan.kind = "parallel" /\ KeptBut({w})
    /\ results' = Append(results, w)
    /\ UNCHANGED <<failures, stageErr, verdict, phase>>

ToNext(w, err) ==
    LET n == w + 1
    IN  /\ w \in Steps /\ n \in Steps /\ plan.kind = "sequential" /\ err = "none"
        /\ KeptBut({w, n})
        /\ WorkIs(n, "take", work[n].attempt, work[n].task, work[n].out, work[n].err)
        /\ UNCHANGED <<results, failures, stageErr, verdict, phase>>

ToEnd(w, err) ==
    /\ w \in Steps /\ plan.kind = "sequential" /\ KeptBut({w})
    /\ err = "none" => w = Size
    /\ Ends(IF err = "none" THEN "ok" ELSE err)

Returned(w, out, err) ==
    /\ work' \in [Workers -> Worker]
    /\ WorkIs(w, "done", work[w].attempt, work[w].task, out, err)
    /\ ToParent(w, err) \/ ToChannel(w) \/ ToNext(w, err) \/ ToEnd(w, err)

LEMMA ReturnsIs ==
    ASSUME TypeOK, NEW w \in Workers, NEW out \in Nat, NEW err \in Errors, Returns(w, out, err)
    PROVE  Returned(w, out, err)
  <1> DEFINE done == [work EXCEPT ![w].pc = "done", ![w].out = out, ![w].err = err]
  <1>0. plan \in Plans /\ work \in [Workers -> Worker]
    BY WorkTypes DEF TypeOK
  <1>done. done = [work EXCEPT ![w] = PutErr(PutOut(PutPc(work[w], "done"), out), err)]
    BY Zenon DEF PutErr, PutOut, PutPc
  <1> HIDE DEF done
  <1>1. /\ done \in [Workers -> Worker] /\ \A v \in Workers \ {w} : done[v] = work[v]
        /\ done[w].pc = "done" /\ done[w].attempt = work[w].attempt
        /\ done[w].task = work[w].task /\ done[w].out = out /\ done[w].err = err
    BY <1>0, <1>done, DoneIs
  <1>2. CASE w \notin Steps
    <2> DEFINE p == Parent(w)
    <2>1. p \in Workers /\ p # w
      BY <1>0, <1>2, WorkersAre
    <2>2. UNCHANGED <<results, failures, stageErr, verdict, phase>>
      BY <1>2 DEF Returns, collector
    <2>3. CASE err \in {"none", "failed"}
      <3>1. work' = [done EXCEPT ![p] = PutPc(done[p], "ask")]
        BY <1>2, <2>3, Zenon DEF Returns, done, PutPc
      <3>2. "ask" \in Places
        BY DEF Places
      <3> HIDE DEF p
      <3>3. /\ work' \in [Workers -> Worker] /\ \A v \in Workers \ {p} : work'[v] = done[v]
            /\ work'[p].pc = "ask" /\ work'[p].attempt = done[p].attempt
            /\ work'[p].task = done[p].task /\ work'[p].out = done[p].out
            /\ work'[p].err = done[p].err
        BY <1>1, <2>1, <3>1, <3>2, PcIs
      <3>4. done[p] = work[p] /\ work'[w] = done[w]
        BY <1>1, <2>1, <3>3
      <3>5. KeptBut({w, p})
        BY <1>1, <3>3 DEF KeptBut
      <3>6. WorkIs(w, "done", work[w].attempt, work[w].task, out, err)
        BY <1>1, <3>4 DEF WorkIs
      <3>7. WorkIs(p, "ask", work[p].attempt, work[p].task, work[p].out, work[p].err)
        BY <3>3, <3>4 DEF WorkIs
      <3>8. ToParent(w, err)
        BY <1>2, <2>2, <2>3, <3>5, <3>7, Zenon DEF ToParent, p
      <3> QED BY <3>3, <3>6, <3>8 DEF Returned
    <2>4. CASE err \notin {"none", "failed"}
      <3>1. work' = [done EXCEPT ![p] = PutErr(PutPc(done[p], "failing"), err)]
        BY <1>2, <2>4, Zenon DEF Returns, done, PutPc, PutErr
      <3>2. "failing" \in Places
        BY DEF Places
      <3> HIDE DEF p
      <3>3. /\ work' \in [Workers -> Worker] /\ \A v \in Workers \ {p} : work'[v] = done[v]
            /\ work'[p].pc = "failing" /\ work'[p].attempt = done[p].attempt
            /\ work'[p].task = done[p].task /\ work'[p].out = done[p].out
            /\ work'[p].err = err
        BY <1>1, <2>1, <3>1, <3>2, PcErrIs
      <3>4. done[p] = work[p] /\ work'[w] = done[w]
        BY <1>1, <2>1, <3>3
      <3>5. KeptBut({w, p})
        BY <1>1, <3>3 DEF KeptBut
      <3>6. WorkIs(w, "done", work[w].attempt, work[w].task, out, err)
        BY <1>1, <3>4 DEF WorkIs
      <3>7. WorkIs(p, "failing", work[p].attempt, work[p].task, work[p].out, err)
        BY <3>3, <3>4 DEF WorkIs
      <3>8. ToParent(w, err)
        BY <1>2, <2>2, <2>4, <3>5, <3>7, Zenon DEF ToParent, p
      <3> QED BY <3>3, <3>6, <3>8 DEF Returned
    <2> QED BY <2>3, <2>4
  <1>3. ASSUME w \in Steps, work' = done
        PROVE  /\ work' \in [Workers -> Worker] /\ KeptBut({w})
               /\ WorkIs(w, "done", work[w].attempt, work[w].task, out, err)
    BY <1>1, <1>3, Zenon DEF WorkIs, KeptBut
  <1>4. CASE w \in Steps /\ plan.kind = "parallel"
    <2>1. /\ work' = done /\ results' = Append(results, w)
          /\ UNCHANGED <<failures, stageErr, verdict, phase>>
      BY <1>4, Zenon DEF Returns, done
    <2>2. ToChannel(w)
      BY <1>3, <1>4, <2>1 DEF ToChannel
    <2> QED BY <1>3, <1>4, <2>1, <2>2 DEF Returned
  <1>5. CASE w \in Steps /\ plan.kind # "parallel" /\ err = "none" /\ w < Len(plan.keys)
    <2> DEFINE n == w + 1
    <2>1. work' = [done EXCEPT ![n] = PutPc(done[n], "take")]
      BY <1>5, Zenon DEF Returns, done, PutPc
    <2>2. UNCHANGED <<results, failures, stageErr, verdict, phase>>
      BY <1>5 DEF Returns, collector
    <2>3. n \in Steps /\ n \in Workers /\ n # w /\ plan.kind = "sequential" /\ "take" \in Places
      BY <1>0, <1>5, WorkersAre, PlanFacts DEF Size, Places
    <2> HIDE DEF n
    <2>4. /\ work' \in [Workers -> Worker] /\ \A v \in Workers \ {n} : work'[v] = done[v]
          /\ work'[n].pc = "take" /\ work'[n].attempt = done[n].attempt
          /\ work'[n].task = done[n].task /\ work'[n].out = done[n].out
          /\ work'[n].err = done[n].err
      BY <1>1, <2>1, <2>3, PcIs
    <2>5. done[n] = work[n] /\ work'[w] = done[w]
      BY <1>1, <2>3, <2>4
    <2>6. KeptBut({w, n})
      BY <1>1, <2>4 DEF KeptBut
    <2>7. WorkIs(w, "done", work[w].attempt, work[w].task, out, err)
      BY <1>1, <2>5 DEF WorkIs
    <2>8. WorkIs(n, "take", work[n].attempt, work[n].task, work[n].out, work[n].err)
      BY <2>4, <2>5 DEF WorkIs
    <2>9. ToNext(w, err)
      BY <1>5, <2>2, <2>3, <2>6, <2>8, Zenon DEF ToNext, n
    <2> QED BY <2>4, <2>7, <2>9 DEF Returned
  <1>6. CASE w \in Steps /\ plan.kind # "parallel" /\ ~(err = "none" /\ w < Len(plan.keys))
    <2>1. work' = done /\ Ends(IF err = "none" THEN "ok" ELSE err)
      BY <1>6, Zenon DEF Returns, done
    <2>2. plan.kind = "sequential" /\ (err = "none" => w = Size)
      BY <1>0, <1>6, WorkersAre, PlanFacts DEF Size
    <2>3. ToEnd(w, err)
      BY <1>3, <1>6, <2>1, <2>2 DEF ToEnd
    <2> QED BY <1>3, <1>6, <2>1, <2>3 DEF Returned
  <1> QED BY <1>2, <1>4, <1>5, <1>6

TaskRecord == [status : {"running", "completed", "failed"}, out : Nat]

LEMMA SeqFacts ==
    ASSUME NEW S, NEW s \in Seq(S)
    PROVE  /\ Len(s) \in Nat /\ DOMAIN s = 1 .. Len(s)
           /\ \A i \in 1 .. Len(s) : s[i] \in S
  OBVIOUS

LEMMA AppendFacts ==
    ASSUME NEW S, NEW s \in Seq(S), NEW x \in S
    PROVE  /\ Append(s, x) \in Seq(S) /\ Len(Append(s, x)) = Len(s) + 1
           /\ \A i \in 1 .. Len(s) : Append(s, x)[i] = s[i]
           /\ Append(s, x)[Len(s) + 1] = x
  OBVIOUS

LEMMA TailFacts ==
    ASSUME NEW S, NEW s \in Seq(S), Len(s) > 0
    PROVE  /\ Tail(s) \in Seq(S) /\ Len(Tail(s)) = Len(s) - 1
           /\ \A i \in 1 .. Len(s) - 1 : Tail(s)[i] = s[i + 1]
  OBVIOUS

LEMMA EmptyIs ==
    ASSUME NEW S
    PROVE  <<>> \in Seq(S) /\ Len(<<>>) = 0
  OBVIOUS

LEMMA StoredTypes ==
    ASSUME TypeOK, NEW k \in Keys
    PROVE  /\ tasks[k] \in Seq(TaskRecord) /\ Len(tasks[k]) \in Nat
           /\ DOMAIN tasks[k] = 1 .. Len(tasks[k])
           /\ \A i \in 1 .. Len(tasks[k]) :
                 /\ tasks[k][i] \in TaskRecord /\ tasks[k][i].out \in Nat
                 /\ tasks[k][i].status \in {"running", "completed", "failed"}
           /\ log[k] \in Seq({"good", "bad", "loop"}) /\ Len(log[k]) \in Nat
           /\ \A i \in 1 .. Len(log[k]) : log[k][i] \in {"good", "bad", "loop"}
           /\ DOMAIN log[k] = 1 .. Len(log[k])
           /\ answers[k] \in Seq(1 .. Len(log[k])) /\ Len(answers[k]) \in Nat
           /\ DOMAIN answers[k] = 1 .. Len(answers[k])
           /\ \A i \in 1 .. Len(answers[k]) : answers[k][i] \in 1 .. Len(log[k])
           /\ reuse[k] \subseteq 1 .. Len(tasks[k])
           /\ DOMAIN tasks = Keys /\ DOMAIN log = Keys /\ DOMAIN reuse = Keys
           /\ DOMAIN answers = Keys
  <1>1. /\ tasks[k] \in Seq(TaskRecord) /\ log[k] \in Seq({"good", "bad", "loop"})
        /\ answers[k] \in Seq(DOMAIN log[k]) /\ reuse[k] \subseteq DOMAIN tasks[k]
        /\ DOMAIN tasks = Keys /\ DOMAIN log = Keys /\ DOMAIN reuse = Keys
        /\ DOMAIN answers = Keys
    BY Zenon DEF TypeOK, TaskRecord
  <1>2. /\ Len(tasks[k]) \in Nat /\ DOMAIN tasks[k] = 1 .. Len(tasks[k])
        /\ \A i \in 1 .. Len(tasks[k]) : tasks[k][i] \in TaskRecord
    BY <1>1, SeqFacts
  <1>3. \A r \in TaskRecord : r.out \in Nat /\ r.status \in {"running", "completed", "failed"}
    BY DEF TaskRecord
  <1>4. /\ Len(log[k]) \in Nat /\ DOMAIN log[k] = 1 .. Len(log[k])
        /\ \A i \in 1 .. Len(log[k]) : log[k][i] \in {"good", "bad", "loop"}
    BY <1>1, SeqFacts
  <1>5. answers[k] \in Seq(1 .. Len(log[k]))
    BY <1>1, <1>4
  <1>6. /\ Len(answers[k]) \in Nat /\ DOMAIN answers[k] = 1 .. Len(answers[k])
        /\ \A i \in 1 .. Len(answers[k]) : answers[k][i] \in 1 .. Len(log[k])
    BY <1>5, SeqFacts
  <1> QED BY <1>1, <1>2, <1>3, <1>4, <1>5, <1>6, Zenon

LEMMA Moving ==
    ASSUME TypeOK, NEW w \in Workers, WorkerOK(w), work[w].pc # "off"
    PROVE  Key(w) \in Keys
  BY DEF WorkerOK

LEMMA GivesUpIs ==
    ASSUME TypeOK, NEW w \in Workers, GivesUp(w)
    PROVE  /\ At(w, "take") /\ w \in Steps /\ plan.kind = "parallel" /\ Over
           /\ Statics /\ Returned(w, 0, "canceled")
           /\ UNCHANGED <<tasks, log, subAgents, reuse, answers, faults>>
  <1>1. Returned(w, 0, "canceled")
    BY ReturnsIs DEF GivesUp, Errors
  <1> QED BY <1>1 DEF GivesUp, Statics, stored, history

LEMMA TakesIs ==
    ASSUME TypeOK, NEW w \in Workers, WorkerOK(w), Takes(w)
    PROVE  /\ At(w, "take") /\ Slot(w) /\ Statics
           /\ UNCHANGED <<tasks, log, answers, faults>>
           /\ \/ \E i \in reuse[Key(w)] :
                    /\ Returned(w, tasks[Key(w)][i].out, "none")
                    /\ reuse' = [reuse EXCEPT ![Key(w)] = @ \ {i}] /\ subAgents' = subAgents
              \/ /\ reuse[Key(w)] = {} /\ reuse' = reuse /\ Alone(w)
                 /\ WorkIs(w, "create", work[w].attempt, work[w].task, work[w].out, work[w].err)
                 /\ \/ w \in Steps /\ plan.kind = "parallel" /\ subAgents' = subAgents
                    \/ /\ ~(w \in Steps /\ plan.kind = "parallel")
                       /\ HasRoom(1) /\ subAgents' = subAgents + 1
              \/ /\ reuse[Key(w)] = {} /\ reuse' = reuse /\ subAgents' = subAgents
                 /\ ~(w \in Steps /\ plan.kind = "parallel")
                 /\ Returned(w, 0, "budget")
  <1>1. At(w, "take") /\ Slot(w) /\ Statics /\ UNCHANGED <<tasks, log, answers, faults>>
    BY DEF Takes, Statics, stored, history
  <1>2. /\ Key(w) \in Keys /\ reuse[Key(w)] \subseteq 1 .. Len(tasks[Key(w)])
        /\ \A i \in 1 .. Len(tasks[Key(w)]) : tasks[Key(w)][i].out \in Nat
    BY <1>1, Moving, StoredTypes DEF At
  <1>3. work \in [Workers -> Worker] /\ "create" \in Places /\ {"none", "budget"} \subseteq Errors
    BY WorkTypes DEF Places, Errors
  <1>4. ASSUME work' = [work EXCEPT ![w].pc = "create"], UNCHANGED <<collector, phase>>
        PROVE  /\ Alone(w)
               /\ WorkIs(w, "create", work[w].attempt, work[w].task, work[w].out, work[w].err)
    <2>1. work' = [work EXCEPT ![w] = PutPc(work[w], "create")]
      BY <1>4, Zenon DEF PutPc
    <2>2. /\ work' \in [Workers -> Worker] /\ \A v \in Workers \ {w} : work'[v] = work[v]
          /\ work'[w].pc = "create" /\ work'[w].attempt = work[w].attempt
          /\ work'[w].task = work[w].task /\ work'[w].out = work[w].out
          /\ work'[w].err = work[w].err
      BY <1>3, <2>1, PcIs
    <2> QED BY <1>1, <1>4, <2>2 DEF Alone, WorkIs, KeptBut, collector
  <1>5. CASE take(w) /\ UNCHANGED subAgents
    <2>1. PICK i \in reuse[Key(w)] :
            /\ Returns(w, tasks[Key(w)][i].out, "none")
            /\ reuse' = [reuse EXCEPT ![Key(w)] = @ \ {i}]
      BY <1>5 DEF take
    <2>2. tasks[Key(w)][i].out \in Nat
      BY <1>2, <2>1
    <2>3. Returned(w, tasks[Key(w)][i].out, "none")
      BY <1>3, <2>1, <2>2, ReturnsIs
    <2> QED BY <1>1, <1>5, <2>1, <2>3
  <1>6. CASE /\ reuse[Key(w)] = {} /\ UNCHANGED reuse /\ w \in Steps /\ plan.kind = "parallel"
             /\ work' = [work EXCEPT ![w].pc = "create"]
             /\ UNCHANGED <<subAgents, collector, phase>>
    BY <1>1, <1>4, <1>6, Zenon
  <1>7. CASE /\ reuse[Key(w)] = {} /\ UNCHANGED reuse /\ ~(w \in Steps /\ plan.kind = "parallel")
             /\ HasRoom(1) /\ work' = [work EXCEPT ![w].pc = "create"]
             /\ subAgents' = subAgents + 1 /\ UNCHANGED <<collector, phase>>
    BY <1>1, <1>4, <1>7, Zenon
  <1>8. CASE /\ reuse[Key(w)] = {} /\ UNCHANGED reuse /\ ~(w \in Steps /\ plan.kind = "parallel")
             /\ Returns(w, 0, "budget") /\ UNCHANGED subAgents
    <2>1. Returned(w, 0, "budget")
      BY <1>3, <1>8, ReturnsIs
    <2> QED BY <1>1, <1>8, <2>1
  <1>9. \/ take(w) /\ UNCHANGED subAgents
        \/ /\ reuse[Key(w)] = {} /\ UNCHANGED reuse /\ w \in Steps /\ plan.kind = "parallel"
           /\ work' = [work EXCEPT ![w].pc = "create"]
           /\ UNCHANGED <<subAgents, collector, phase>>
        \/ /\ reuse[Key(w)] = {} /\ UNCHANGED reuse /\ ~(w \in Steps /\ plan.kind = "parallel")
           /\ HasRoom(1) /\ work' = [work EXCEPT ![w].pc = "create"]
           /\ subAgents' = subAgents + 1 /\ UNCHANGED <<collector, phase>>
        \/ /\ reuse[Key(w)] = {} /\ UNCHANGED reuse /\ ~(w \in Steps /\ plan.kind = "parallel")
           /\ Returns(w, 0, "budget") /\ UNCHANGED subAgents
    BY Zenon DEF Takes
  <1> QED BY <1>5, <1>6, <1>7, <1>8, <1>9, Zenon

LEMMA CreatesIs ==
    ASSUME TypeOK, NEW w \in Workers, WorkerOK(w), Creates(w)
    PROVE  /\ At(w, "create") /\ Statics /\ UNCHANGED <<log, subAgents, reuse, answers, faults>>
           /\ tasks' = [tasks EXCEPT ![Key(w)] = Append(@, [status |-> "running", out |-> 0])]
           /\ UNCHANGED <<results, failures, stageErr, verdict, phase>>
           /\ work' \in [Workers -> Worker]
           /\ \/ /\ w \in Steps /\ plan.child[w] # "none" /\ KeptBut({w, Child(w)})
                 /\ WorkIs(w, "delegating", work[w].attempt, Len(tasks[Key(w)]) + 1,
                           work[w].out, work[w].err)
                 /\ WorkIs(Child(w), "take", 1, 0, 0, "none")
              \/ /\ ~(w \in Steps /\ plan.child[w] # "none") /\ KeptBut({w})
                 /\ WorkIs(w, "ask", work[w].attempt, Len(tasks[Key(w)]) + 1,
                           work[w].out, work[w].err)
  <1>1. /\ At(w, "create") /\ Statics /\ UNCHANGED <<log, subAgents, reuse, answers, faults>>
        /\ tasks' = [tasks EXCEPT ![Key(w)] = Append(@, [status |-> "running", out |-> 0])]
        /\ UNCHANGED <<results, failures, stageErr, verdict, phase>>
    BY DEF Creates, CreateTask, Statics, stored, history, collector
  <1>2. Len(tasks[Key(w)]) \in Nat
    BY <1>1, Moving, StoredTypes DEF At
  <1>3. work \in [Workers -> Worker] /\ {"delegating", "ask", "take"} \subseteq Places
        /\ plan \in Plans
    BY WorkTypes DEF Places, TypeOK
  <1> DEFINE d == w \in Steps /\ plan.child[w] # "none"
             t == Len(tasks[Key(w)]) + 1
             p == IF d THEN "delegating" ELSE "ask"
             s == PutTask(work[w], t)
             r == PutPc(s, p)
             f == [work EXCEPT ![w] = r]
             b == PutPc(Off, "take")
  <1>4. work' = IF d THEN [f EXCEPT ![Child(w)] = b] ELSE f
    BY Zenon DEF Creates, PutTask, PutPc
  <1>5. p \in Places /\ t \in Nat /\ work[w] \in Worker
    BY <1>2, <1>3
  <1>6. p = "delegating" \/ p = "ask"
    OBVIOUS
  <1>7. (d => p = "delegating") /\ (~d => p = "ask")
    OBVIOUS
  <1> HIDE DEF p, t
  <1>8. /\ s \in Worker /\ s.attempt = work[w].attempt /\ s.task = t
        /\ s.out = work[w].out /\ s.err = work[w].err
    BY <1>5, PutFields
  <1> HIDE DEF s
  <1>9. /\ r \in Worker /\ r.pc = p /\ r.attempt = work[w].attempt /\ r.task = t
        /\ r.out = work[w].out /\ r.err = work[w].err
    BY <1>5, <1>8, PutFields
  <1> HIDE DEF r
  <1>10. f \in [Workers -> Worker] /\ f[w] = r /\ \A v \in Workers \ {w} : f[v] = work[v]
    BY <1>3, <1>9
  <1>11. /\ b \in Worker /\ b.pc = "take" /\ b.attempt = 1 /\ b.task = 0
         /\ b.out = 0 /\ b.err = "none"
    BY <1>3, OffIs, PutFields
  <1> HIDE DEF b, f
  <1>12. CASE d
    <2> DEFINE c == Child(w)
    <2>1. c \in Workers /\ c # w
      BY <1>3, <1>12, WorkersAre
    <2> HIDE DEF c
    <2>2. work' = [f EXCEPT ![c] = b]
      BY <1>4, <1>12 DEF c
    <2>3. work' \in [Workers -> Worker] /\ work'[c] = b /\ \A v \in Workers \ {c} : work'[v] = f[v]
      BY <1>10, <1>11, <2>1, <2>2, PutIs
    <2>4. work'[w] = r /\ \A v \in Workers \ {w, c} : work'[v] = work[v]
      BY <1>10, <2>1, <2>3
    <2>5. WorkIs(w, "delegating", work[w].attempt, t, work[w].out, work[w].err)
      BY <1>7, <1>9, <1>12, <2>4 DEF WorkIs
    <2>6. WorkIs(c, "take", 1, 0, 0, "none")
      BY <1>11, <2>3 DEF WorkIs
    <2>7. KeptBut({w, c})
      BY <2>4 DEF KeptBut
    <2> QED BY <1>1, <1>12, <2>3, <2>5, <2>6, <2>7, Zenon DEF c, t
  <1>13. CASE ~d
    <2>1. work' = f
      BY <1>4, <1>13
    <2>2. WorkIs(w, "ask", work[w].attempt, t, work[w].out, work[w].err)
      BY <1>7, <1>9, <1>10, <1>13, <2>1 DEF WorkIs
    <2>3. KeptBut({w})
      BY <1>10, <2>1 DEF KeptBut
    <2> QED BY <1>1, <1>10, <1>13, <2>1, <2>2, <2>3, Zenon DEF t
  <1> QED BY <1>12, <1>13

LEMMA CreateFailsIs ==
    ASSUME TypeOK, NEW w \in Workers, CreateFails(w)
    PROVE  /\ At(w, "create") /\ Alone(w) /\ UNCHANGED <<tasks, log, reuse, answers>>
           /\ subAgents' = subAgents - 1
           /\ WorkIs(w, "failing", work[w].attempt, 0, work[w].out,
                     IF Over THEN "canceled" ELSE "failed")
           /\ IF Over THEN faults' = faults ELSE Fault
  <1>1. /\ At(w, "create") /\ Statics /\ UNCHANGED <<tasks, log, reuse, answers>>
        /\ subAgents' = subAgents - 1
        /\ UNCHANGED <<results, failures, stageErr, verdict, phase>>
        /\ IF Over THEN faults' = faults ELSE Fault
    <2>1. /\ At(w, "create") /\ subAgents' = subAgents - 1
          /\ UNCHANGED <<plan, copying, phase, stored, context, canceled, reuse, answers,
                         collector, history>>
          /\ IF Over THEN UNCHANGED faults ELSE Fault
      BY Zenon DEF CreateFails
    <2> QED BY <2>1 DEF Statics, stored, history, collector
  <1> DEFINE e == IF Over THEN "canceled" ELSE "failed"
             s == PutPc(work[w], "failing")
             u == PutTask(s, 0)
             r == PutErr(u, e)
  <1>2. work' = [work EXCEPT ![w] = r]
    BY Zenon DEF CreateFails, PutPc, PutTask, PutErr
  <1>3. work \in [Workers -> Worker] /\ work[w] \in Worker /\ "failing" \in Places /\ e \in Errors
    BY WorkTypes DEF Places, Errors
  <1> HIDE DEF e
  <1>4. /\ s \in Worker /\ s.pc = "failing" /\ s.attempt = work[w].attempt
        /\ s.out = work[w].out
    BY <1>3, PutFields
  <1> HIDE DEF s
  <1>5. /\ u \in Worker /\ u.pc = "failing" /\ u.attempt = work[w].attempt /\ u.task = 0
        /\ u.out = work[w].out
    BY <1>4, PutFields
  <1> HIDE DEF u
  <1>6. /\ r \in Worker /\ r.pc = "failing" /\ r.attempt = work[w].attempt /\ r.task = 0
        /\ r.out = work[w].out /\ r.err = e
    BY <1>3, <1>5, PutFields
  <1> HIDE DEF r
  <1>7. work' \in [Workers -> Worker] /\ work'[w] = r
        /\ \A v \in Workers \ {w} : work'[v] = work[v]
    BY <1>2, <1>3, <1>6, PutIs
  <1>8. Alone(w)
    BY <1>1, <1>7, Zenon DEF Alone, KeptBut
  <1>9. WorkIs(w, "failing", work[w].attempt, 0, work[w].out, e)
    BY <1>6, <1>7, Zenon DEF WorkIs
  <1> QED BY <1>1, <1>8, <1>9, Zenon DEF e

(* A response comes.                                                       *)
LEMMA AnsweredIs ==
    ASSUME TypeOK, NEW w \in Workers, NEW o \in Nat,
           work' = [work EXCEPT ![w] = PutOut(PutPc(work[w], "answered"), o)]
    PROVE  /\ work' \in [Workers -> Worker] /\ KeptBut({w})
           /\ WorkIs(w, "answered", work[w].attempt, work[w].task, o, work[w].err)
  <1> DEFINE s == PutPc(work[w], "answered")
             r == PutOut(s, o)
  <1>1. work \in [Workers -> Worker] /\ work[w] \in Worker /\ "answered" \in Places
    BY WorkTypes DEF Places
  <1>2. /\ s \in Worker /\ s.pc = "answered" /\ s.attempt = work[w].attempt
        /\ s.task = work[w].task /\ s.err = work[w].err
    BY <1>1, PutFields
  <1>3. work' = [work EXCEPT ![w] = r]
    OBVIOUS
  <1> HIDE DEF s
  <1>4. /\ r \in Worker /\ r.pc = "answered" /\ r.attempt = work[w].attempt
        /\ r.task = work[w].task /\ r.out = o /\ r.err = work[w].err
    BY <1>2, PutFields
  <1> HIDE DEF r
  <1>5. work' \in [Workers -> Worker] /\ work'[w] = r
        /\ \A v \in Workers \ {w} : work'[v] = work[v]
    BY <1>1, <1>3, <1>4, PutIs
  <1> QED BY <1>4, <1>5, Zenon DEF WorkIs, KeptBut

LEMMA AsksIs ==
    ASSUME TypeOK, NEW w \in Workers, WorkerOK(w), Asks(w)
    PROVE  /\ At(w, "ask") /\ ~copying /\ Alone(w)
           /\ UNCHANGED <<tasks, subAgents, reuse, answers>>
           /\ \E as \in {"good", "bad", "loop"} :
                 /\ log' = [log EXCEPT ![Key(w)] = Append(@, as)]
                 /\ IF as = "loop" THEN Fault ELSE faults' = faults
           /\ WorkIs(w, "answered", work[w].attempt, work[w].task, Len(log[Key(w)]) + 1,
                     work[w].err)
  <1>1. /\ At(w, "ask") /\ ~copying /\ Statics /\ UNCHANGED <<tasks, subAgents, reuse, answers>>
        /\ UNCHANGED <<results, failures, stageErr, verdict, phase>>
        /\ \E as \in {"good", "bad", "loop"} :
              /\ log' = [log EXCEPT ![Key(w)] = Append(@, as)]
              /\ IF as = "loop" THEN Fault ELSE faults' = faults
    BY DEF Asks, Statics, stored, history, collector
  <1> DEFINE o == Len(log[Key(w)]) + 1
  <1>2. o \in Nat
    BY <1>1, Moving, StoredTypes DEF At
  <1>3. work' = [work EXCEPT ![w] = PutOut(PutPc(work[w], "answered"), o)]
    BY Zenon DEF Asks, PutPc, PutOut
  <1> HIDE DEF o
  <1>4. /\ work' \in [Workers -> Worker] /\ KeptBut({w})
        /\ WorkIs(w, "answered", work[w].attempt, work[w].task, o, work[w].err)
    BY <1>2, <1>3, AnsweredIs
  <1>5. Alone(w)
    BY <1>1, <1>4, Zenon DEF Alone
  <1> QED BY <1>1, <1>4, <1>5, Zenon DEF o

LEMMA ChatIs ==
    ASSUME TypeOK, NEW w \in Workers, WorkerOK(w), Chat(w)
    PROVE  /\ At(w, "ask") /\ copying /\ Alone(w) /\ answers[Key(w)] # <<>>
           /\ UNCHANGED <<tasks, log, subAgents, reuse, faults>>
           /\ answers' = [answers EXCEPT ![Key(w)] = Tail(@)]
           /\ WorkIs(w, "answered", work[w].attempt, work[w].task, answers[Key(w)][1],
                     work[w].err)
  <1>1. /\ At(w, "ask") /\ copying /\ Statics /\ UNCHANGED <<tasks, log, subAgents, reuse, faults>>
        /\ answers[Key(w)] # <<>>
        /\ UNCHANGED <<results, failures, stageErr, verdict, phase>>
        /\ answers' = [answers EXCEPT ![Key(w)] = Tail(@)]
    BY DEF Chat, Statics, stored, history, collector
  <1> DEFINE o == Head(answers[Key(w)])
  <1>2. o \in Nat /\ o = answers[Key(w)][1]
    <2>1. Key(w) \in Keys
      BY <1>1, Moving DEF At
    <2>2. answers[Key(w)] \in Seq(1 .. Len(log[Key(w)])) /\ Len(log[Key(w)]) \in Nat
      BY <2>1, StoredTypes
    <2>3. Len(answers[Key(w)]) > 0 /\ o = answers[Key(w)][1]
      BY <1>1, <2>2
    <2> QED BY <2>1, <2>3, StoredTypes
  <1>3. work' = [work EXCEPT ![w] = PutOut(PutPc(work[w], "answered"), o)]
    BY Zenon DEF Chat, PutPc, PutOut
  <1> HIDE DEF o
  <1>4. /\ work' \in [Workers -> Worker] /\ KeptBut({w})
        /\ WorkIs(w, "answered", work[w].attempt, work[w].task, o, work[w].err)
    BY <1>2, <1>3, AnsweredIs
  <1>5. Alone(w)
    BY <1>1, <1>4, Zenon DEF Alone
  <1> QED BY <1>1, <1>2, <1>4, <1>5, Zenon

(* Where an attempt fails.                                                 *)
LEMMA FailingIs ==
    ASSUME TypeOK, NEW w \in Workers, NEW e \in Errors,
           work' = [work EXCEPT ![w] = PutErr(PutPc(work[w], "failing"), e)]
    PROVE  /\ work' \in [Workers -> Worker] /\ KeptBut({w})
           /\ WorkIs(w, "failing", work[w].attempt, work[w].task, work[w].out, e)
  <1>1. work \in [Workers -> Worker] /\ "failing" \in Places
    BY WorkTypes DEF Places
  <1> DEFINE g == work'
  <1>3. g = [work EXCEPT ![w] = PutErr(PutPc(work[w], "failing"), e)]
    OBVIOUS
  <1> HIDE DEF g
  <1>4. /\ g \in [Workers -> Worker] /\ \A v \in Workers \ {w} : g[v] = work[v]
        /\ g[w].pc = "failing" /\ g[w].attempt = work[w].attempt
        /\ g[w].task = work[w].task /\ g[w].out = work[w].out /\ g[w].err = e
    BY <1>1, <1>3, PcErrIs
  <1>2. /\ work' \in [Workers -> Worker] /\ \A v \in Workers \ {w} : work'[v] = work[v]
        /\ work'[w].pc = "failing" /\ work'[w].attempt = work[w].attempt
        /\ work'[w].task = work[w].task /\ work'[w].out = work[w].out /\ work'[w].err = e
    BY <1>4 DEF g
  <1> QED BY <1>2 DEF WorkIs, KeptBut

LEMMA AskFailsIs ==
    ASSUME TypeOK, NEW w \in Workers, AskFails(w)
    PROVE  /\ At(w, "ask") /\ Alone(w) /\ UNCHANGED <<tasks, log, subAgents, reuse, answers>>
           /\ WorkIs(w, "failing", work[w].attempt, work[w].task, work[w].out,
                     IF Over THEN "canceled" ELSE "failed")
           /\ IF Over \/ (copying /\ answers[Key(w)] = <<>>) THEN faults' = faults ELSE Fault
  <1>1. /\ At(w, "ask") /\ Statics /\ UNCHANGED <<tasks, log, subAgents, reuse, answers>>
        /\ UNCHANGED <<results, failures, stageErr, verdict, phase>>
        /\ IF Over \/ (copying /\ answers[Key(w)] = <<>>) THEN faults' = faults ELSE Fault
    BY DEF AskFails, Statics, stored, history, collector
  <1> DEFINE e == IF Over THEN "canceled" ELSE "failed"
  <1>2. work' = [work EXCEPT ![w] = PutErr(PutPc(work[w], "failing"), e)]
    BY Zenon DEF AskFails, PutPc, PutErr
  <1>3. e \in Errors
    BY DEF Errors
  <1> HIDE DEF e
  <1>4. /\ work' \in [Workers -> Worker] /\ KeptBut({w})
        /\ WorkIs(w, "failing", work[w].attempt, work[w].task, work[w].out, e)
    BY <1>2, <1>3, FailingIs
  <1>5. Alone(w)
    BY <1>1, <1>4, Zenon DEF Alone
  <1> QED BY <1>1, <1>4, <1>5, Zenon DEF e

LEMMA RejectsIs ==
    ASSUME TypeOK, NEW w \in Workers, Rejects(w)
    PROVE  /\ At(w, "answered") /\ Response(w) # "good" /\ Alone(w)
           /\ UNCHANGED <<tasks, log, subAgents, reuse, answers, faults>>
           /\ WorkIs(w, "failing", work[w].attempt, work[w].task, work[w].out,
                     IF Response(w) = "bad" THEN "failed"
                     ELSE IF copying THEN "final" ELSE "paused")
  <1>1. /\ At(w, "answered") /\ Statics /\ UNCHANGED <<tasks, log, subAgents, reuse, answers, faults>>
        /\ UNCHANGED <<results, failures, stageErr, verdict, phase>> /\ Response(w) # "good"
    BY DEF Rejects, Statics, stored, history, collector
  <1> DEFINE e == IF Response(w) = "bad" THEN "failed"
                  ELSE IF copying THEN "final" ELSE "paused"
  <1>2. work' = [work EXCEPT ![w] = PutErr(PutPc(work[w], "failing"), e)]
    BY Zenon DEF Rejects, PutPc, PutErr
  <1>3. e \in Errors
    BY DEF Errors
  <1> HIDE DEF e
  <1>4. /\ work' \in [Workers -> Worker] /\ KeptBut({w})
        /\ WorkIs(w, "failing", work[w].attempt, work[w].task, work[w].out, e)
    BY <1>2, <1>3, FailingIs
  <1>5. Alone(w)
    BY <1>1, <1>4, Zenon DEF Alone
  <1> QED BY <1>1, <1>4, <1>5, Zenon DEF e

LEMMA CompletesIs ==
    ASSUME TypeOK, NEW w \in Workers, Completes(w)
    PROVE  /\ At(w, "answered") /\ Response(w) = "good" /\ Statics
           /\ Returned(w, work[w].out, "none")
           /\ UNCHANGED <<log, subAgents, reuse, answers>>
           /\ \/ tasks' = Updated(w, "completed", work[w].out) /\ faults' = faults
              \/ tasks' = tasks /\ Over /\ faults' = faults
              \/ tasks' = tasks /\ ~Over /\ Fault
  <1>1. /\ At(w, "answered") /\ Response(w) = "good" /\ Statics
        /\ UNCHANGED <<log, subAgents, reuse, answers>>
        /\ \/ tasks' = Updated(w, "completed", work[w].out) /\ faults' = faults
           \/ tasks' = tasks /\ Over /\ faults' = faults
           \/ tasks' = tasks /\ ~Over /\ Fault
    BY DEF Completes, Statics, stored, history
  <1>2. work[w].out \in Nat /\ "none" \in Errors
    BY WorkTypes DEF Worker, Errors
  <1>3. Returned(w, work[w].out, "none")
    BY <1>2, ReturnsIs DEF Completes
  <1> QED BY <1>1, <1>3

Again(w) ==
    w \in Steps /\ work[w].err = "failed" /\ ~Over /\ work[w].attempt < plan.attempts

LEMMA FailsIs ==
    ASSUME TypeOK, NEW w \in Workers, Fails(w)
    PROVE  /\ At(w, "failing") /\ failTask(w) /\ Statics
           /\ UNCHANGED <<log, reuse, answers>> /\ (faults' = faults \/ Fault)
           /\ \/ /\ Again(w) /\ HasRoom(1) /\ subAgents' = subAgents + 1 /\ Alone(w)
                 /\ WorkIs(w, "backoff", work[w].attempt + 1, 0, 0, "none")
              \/ /\ Again(w) /\ ~HasRoom(1) /\ subAgents' = subAgents
                 /\ Returned(w, 0, "budget")
              \/ /\ ~Again(w) /\ subAgents' = subAgents
                 /\ Returned(w, 0, work[w].err)
  <1>1. /\ At(w, "failing") /\ failTask(w) /\ Statics
        /\ UNCHANGED <<log, reuse, answers>> /\ (faults' = faults \/ Fault)
    BY DEF Fails, failTask, Statics, history
  <1>2. work \in [Workers -> Worker] /\ work[w] \in Worker /\ "backoff" \in Places
    BY WorkTypes DEF Places
  <1>3. work[w].attempt + 1 \in Nat /\ work[w].err \in Errors /\ "budget" \in Errors
    BY <1>2 DEF Worker, Errors
  <1>4. CASE Again(w) /\ HasRoom(1)
    <2>1. subAgents' = subAgents + 1 /\ UNCHANGED <<results, failures, stageErr, verdict, phase>>
      BY <1>4 DEF Fails, Again, collector
    <2> DEFINE a == work[w].attempt + 1
               s == PutPc(Off, "backoff")
               r == PutAttempt(s, a)
    <2>2. work' = [work EXCEPT ![w] = r]
      BY <1>4, Zenon DEF Fails, Again, PutPc, PutAttempt
    <2> HIDE DEF a
    <2>3. /\ s \in Worker /\ s.pc = "backoff" /\ s.task = 0 /\ s.out = 0 /\ s.err = "none"
      BY <1>2, OffIs, PutFields
    <2> HIDE DEF s
    <2>4. a \in Nat
      BY <1>3 DEF a
    <2>5. /\ r \in Worker /\ r.pc = "backoff" /\ r.attempt = a /\ r.task = 0
          /\ r.out = 0 /\ r.err = "none"
      BY <2>3, <2>4, PutFields
    <2> HIDE DEF r
    <2>6. work' \in [Workers -> Worker] /\ work'[w] = r
          /\ \A v \in Workers \ {w} : work'[v] = work[v]
      BY <1>2, <2>2, <2>5, PutIs
    <2>7. Alone(w)
      BY <1>1, <2>1, <2>6, Zenon DEF Alone, KeptBut
    <2>8. WorkIs(w, "backoff", a, 0, 0, "none")
      BY <2>5, <2>6, Zenon DEF WorkIs
    <2> QED BY <1>1, <1>4, <2>1, <2>7, <2>8, Zenon DEF a
  <1>5. CASE Again(w) /\ ~HasRoom(1)
    <2>1. Returns(w, 0, "budget") /\ subAgents' = subAgents
      BY <1>5, Zenon DEF Fails, Again
    <2>2. Returned(w, 0, "budget")
      BY <1>3, <2>1, ReturnsIs
    <2> QED BY <1>1, <1>5, <2>1, <2>2
  <1>6. CASE ~Again(w)
    <2>1. Returns(w, 0, work[w].err) /\ subAgents' = subAgents
      BY <1>6, Zenon DEF Fails, Again
    <2>2. Returned(w, 0, work[w].err)
      BY <1>3, <2>1, ReturnsIs
    <2> QED BY <1>1, <1>6, <2>1, <2>2
  <1> QED BY <1>4, <1>5, <1>6

LEMMA BackoffEndsIs ==
    ASSUME TypeOK, NEW w \in Workers, BackoffEnds(w)
    PROVE  /\ At(w, "backoff") /\ Statics /\ UNCHANGED <<tasks, log, reuse, answers, faults>>
           /\ \/ /\ Alone(w) /\ subAgents' = subAgents
                 /\ WorkIs(w, "create", work[w].attempt, work[w].task, work[w].out, work[w].err)
              \/ Over /\ subAgents' = subAgents - 1 /\ Returned(w, 0, "canceled")
  <1>1. /\ At(w, "backoff") /\ Statics /\ UNCHANGED <<tasks, log, reuse, answers, faults>>
    BY DEF BackoffEnds, Statics, history, stored
  <1>2. work \in [Workers -> Worker] /\ "create" \in Places /\ "canceled" \in Errors
    BY WorkTypes DEF Places, Errors
  <1>3. CASE work' = [work EXCEPT ![w].pc = "create"] /\ UNCHANGED <<subAgents, collector, phase>>
    <2>1. work' = [work EXCEPT ![w] = PutPc(work[w], "create")]
      BY <1>3, Zenon DEF PutPc
    <2>2. /\ work' \in [Workers -> Worker] /\ \A v \in Workers \ {w} : work'[v] = work[v]
          /\ work'[w].pc = "create" /\ work'[w].attempt = work[w].attempt
          /\ work'[w].task = work[w].task /\ work'[w].out = work[w].out
          /\ work'[w].err = work[w].err
      BY <1>2, <2>1, PcIs
    <2> QED BY <1>1, <1>3, <2>2 DEF Alone, WorkIs, KeptBut, collector
  <1>4. CASE Over /\ subAgents' = subAgents - 1 /\ Returns(w, 0, "canceled")
    <2>1. Returned(w, 0, "canceled")
      BY <1>2, <1>4, ReturnsIs
    <2> QED BY <1>1, <1>4, <2>1
  <1> QED BY <1>3, <1>4 DEF BackoffEnds

(* A stored task gets a status and an output.                              *)
IsUpdate(g, w, st, o) ==
    /\ DOMAIN g = Keys
    /\ \A k \in Keys : g[k] \in Seq(TaskRecord) /\ Len(g[k]) = Len(tasks[k])
    /\ \A k \in Keys : \A i \in 1 .. Len(tasks[k]) :
          k # Key(w) \/ i # work[w].task => g[k][i] = tasks[k][i]
    /\ g[Key(w)][work[w].task].status = st /\ g[Key(w)][work[w].task].out = o

LEMMA UpdatedIs ==
    ASSUME TypeOK, NEW w \in Workers, NEW o \in Nat,
           NEW st \in {"running", "completed", "failed"}, NEW g,
           Key(w) \in Keys, work[w].task \in 1 .. Len(tasks[Key(w)]), g = Updated(w, st, o)
    PROVE  IsUpdate(g, w, st, o)
  <1> DEFINE k == Key(w)
             t == work[w].task
             r == [status |-> st, out |-> o]
             s == [tasks[k] EXCEPT ![t] = r]
  <1>1. g = [tasks EXCEPT ![k] = s]
    BY Zenon DEF Updated
  <1>2. r \in TaskRecord /\ r.status = st /\ r.out = o
    BY DEF TaskRecord
  <1>3. tasks[k] \in Seq(TaskRecord) /\ DOMAIN tasks = Keys
    BY StoredTypes
  <1> HIDE DEF r
  <1>4. s \in Seq(TaskRecord) /\ Len(s) = Len(tasks[k]) /\ s[t] = r
        /\ \A i \in 1 .. Len(tasks[k]) : i # t => s[i] = tasks[k][i]
    BY <1>2, <1>3
  <1> HIDE DEF s, t, k
  <1>5. k \in Keys
    BY DEF k
  <1>6. DOMAIN g = Keys /\ g[k] = s /\ \A j \in Keys \ {k} : g[j] = tasks[j]
    BY <1>1, <1>3, <1>5
  <1>7. \A j \in Keys : g[j] \in Seq(TaskRecord) /\ Len(g[j]) = Len(tasks[j])
    <2> TAKE j \in Keys
    <2>1. CASE j = k
      BY <1>4, <1>6, <2>1
    <2>2. CASE j # k
      BY <1>6, <2>2, StoredTypes
    <2> QED BY <2>1, <2>2
  <1>8. \A j \in Keys : \A i \in 1 .. Len(tasks[j]) :
            j # k \/ i # t => g[j][i] = tasks[j][i]
    BY <1>4, <1>6
  <1> QED BY <1>2, <1>4, <1>6, <1>7, <1>8, Zenon DEF k, t, IsUpdate

-----------------------------------------------------------------------------
(* Types and stored data.                                                  *)

PlainOK ==
    /\ plan \in Plans /\ copying \in BOOLEAN /\ phase \in Phases
    /\ context \in {"live", "ended"} /\ canceled \in BOOLEAN /\ subAgents \in Int
    /\ results \in Seq(Steps) /\ failures \in 0 .. Size
    /\ stageErr \in Errors /\ verdict \in Verdicts
    /\ resumes \in 0 .. MaxResumes /\ faults \in 0 .. MaxFaults
    /\ disturbed \in BOOLEAN

KeyTypes(k) ==
    /\ tasks[k] \in Seq(TaskRecord) /\ log[k] \in Seq({"good", "bad", "loop"})
    /\ answers[k] \in Seq(1 .. Len(log[k])) /\ reuse[k] \subseteq 1 .. Len(tasks[k])

StoreOK ==
    /\ DOMAIN tasks = Keys /\ DOMAIN log = Keys /\ DOMAIN reuse = Keys
    /\ DOMAIN answers = Keys
    /\ \A k \in Keys : KeyTypes(k)

LEMMA TypeParts ==
    TypeOK <=> PlainOK /\ StoreOK /\ work \in [Workers -> Worker]
  <1>1. ASSUME TypeOK
        PROVE  PlainOK /\ StoreOK /\ work \in [Workers -> Worker]
    <2>1. PlainOK
      BY <1>1 DEF TypeOK, PlainOK, Size
    <2>2. DOMAIN tasks = Keys /\ DOMAIN log = Keys /\ DOMAIN reuse = Keys /\ DOMAIN answers = Keys
      BY <1>1 DEF TypeOK
    <2>3. \A k \in Keys : KeyTypes(k)
      BY <1>1, StoredTypes DEF KeyTypes
    <2> QED BY <1>1, <2>1, <2>2, <2>3, WorkTypes DEF StoreOK
  <1>2. ASSUME PlainOK, StoreOK, work \in [Workers -> Worker]
        PROVE  TypeOK
    <2>1. \A k \in Keys :
              /\ tasks[k] \in Seq(TaskRecord) /\ log[k] \in Seq({"good", "bad", "loop"})
              /\ answers[k] \in Seq(DOMAIN log[k]) /\ reuse[k] \subseteq DOMAIN tasks[k]
      <3> TAKE k \in Keys
      <3>1. /\ tasks[k] \in Seq(TaskRecord) /\ log[k] \in Seq({"good", "bad", "loop"})
            /\ answers[k] \in Seq(1 .. Len(log[k])) /\ reuse[k] \subseteq 1 .. Len(tasks[k])
        BY <1>2 DEF StoreOK, KeyTypes
      <3>2. DOMAIN log[k] = 1 .. Len(log[k]) /\ DOMAIN tasks[k] = 1 .. Len(tasks[k])
        BY <3>1, SeqFacts
      <3> QED BY <3>1, <3>2
    <2>2. DOMAIN tasks = Keys /\ DOMAIN log = Keys /\ DOMAIN reuse = Keys /\ DOMAIN answers = Keys
      BY <1>2 DEF StoreOK
    <2> QED BY <1>2, <2>1, <2>2, Zenon DEF TypeOK, PlainOK, Size, TaskRecord, Worker
  <1> QED BY <1>1, <1>2

LEMMA TypePartsNext ==
    ASSUME PlainOK', StoreOK', plan' = plan, work' \in [Workers -> Worker]
    PROVE  TypeOK'
  <1>1. Workers' = Workers
    BY SamePlan
  <1>2. TypeOK' <=> (PlainOK /\ StoreOK /\ work \in [Workers -> Worker])'
    BY TypeParts, PTL
  <1> QED BY <1>1, <1>2 DEF Worker

(* A stage that returns leaves types as they are.                          *)
LEMMA ReturnedTypes ==
    ASSUME PlainOK, Statics, subAgents' \in Int, faults' \in 0 .. MaxFaults,
           NEW w \in Workers, NEW out, NEW err \in Errors,
           \/ UNCHANGED <<results, failures, stageErr, verdict, phase>>
           \/ Returned(w, out, err)
    PROVE  PlainOK'
  <1>1. Steps' = Steps /\ Size' = Size
    BY SamePlan DEF Statics
  <1>2. /\ results' \in Seq(Steps) /\ failures' \in 0 .. Size /\ stageErr' \in Errors
        /\ verdict' \in Verdicts /\ phase' \in Phases
    <2>1. CASE UNCHANGED <<results, failures, stageErr, verdict, phase>>
      BY <2>1 DEF PlainOK
    <2>2. CASE ToChannel(w)
      BY <2>2 DEF PlainOK, ToChannel
    <2>3. CASE ToEnd(w, err)
      BY <2>3 DEF PlainOK, ToEnd, Ends, Phases, Verdicts
    <2>4. CASE ToParent(w, err)
      BY <2>4, <2>1, Zenon DEF ToParent
    <2>5. CASE ToNext(w, err)
      BY <2>5, <2>1, Zenon DEF ToNext
    <2> QED BY <2>1, <2>2, <2>3, <2>4, <2>5, Zenon DEF Returned
  <1> QED BY <1>1, <1>2, Zenon DEF PlainOK, Statics

(* What a worker does adds to what is stored.                              *)
Grows ==
    /\ plan' = plan /\ copying' = copying
    /\ \A k \in Keys : /\ Len(tasks[k]) <= Len(tasks'[k]) /\ reuse'[k] \subseteq reuse[k]
                       /\ Used(k) <= Used(k)'

StoreInv == StoreOK /\ \A k \in Keys : KeyOK(k)

LEMMA StoreSame ==
    ASSUME TaskInv, UNCHANGED <<plan, copying, tasks, log, answers, reuse>>
    PROVE  StoreInv' /\ Grows
  <1>1. StoreInv
    BY TypeParts DEF TaskInv, StoreInv
  <1>2. StoreInv'
    BY <1>1 DEF StoreInv, StoreOK, KeyTypes, KeyOK, Completed, Used
  <1>3. \A k \in Keys : Len(tasks[k]) \in Nat /\ Used(k) \in Nat /\ Used(k)' = Used(k)
    BY StoredTypes DEF TaskInv, KeyOK, Used
  <1> QED BY <1>2, <1>3 DEF Grows

(* Only what is stored of k changes.                                       *)
LEMMA StoreAt ==
    ASSUME TaskInv, plan' = plan, copying' = copying, NEW k \in Keys,
           DOMAIN tasks' = Keys, DOMAIN log' = Keys, DOMAIN reuse' = Keys,
           DOMAIN answers' = Keys,
           \A j \in Keys \ {k} : /\ tasks'[j] = tasks[j] /\ log'[j] = log[j]
                                 /\ reuse'[j] = reuse[j] /\ answers'[j] = answers[j],
           KeyTypes(k)', KeyOK(k)',
           Len(tasks[k]) <= Len(tasks'[k]), reuse'[k] \subseteq reuse[k], Used(k) <= Used(k)'
    PROVE  StoreInv' /\ Grows
  <1>1. StoreInv
    BY TypeParts DEF TaskInv, StoreInv
  <1>2. ASSUME NEW j \in Keys, j # k
        PROVE  /\ KeyTypes(j)' /\ KeyOK(j)' /\ Len(tasks[j]) <= Len(tasks'[j])
               /\ reuse'[j] \subseteq reuse[j] /\ Used(j) <= Used(j)'
    <2>1. KeyTypes(j) /\ KeyOK(j) /\ Len(tasks[j]) \in Nat
      BY <1>1, StoredTypes DEF StoreInv, StoreOK, TaskInv
    <2>2. /\ tasks'[j] = tasks[j] /\ log'[j] = log[j] /\ reuse'[j] = reuse[j]
          /\ answers'[j] = answers[j]
      BY <1>2
    <2>3. KeyTypes(j)'
      BY <2>1, <2>2 DEF KeyTypes
    <2>4. Used(j)' = Used(j) /\ Completed(j)' = Completed(j)
      BY <2>2 DEF Used, Completed
    <2>5. KeyOK(j)'
      BY <2>1, <2>2, <2>4 DEF KeyOK
    <2> QED BY <2>1, <2>2, <2>3, <2>4, <2>5 DEF KeyOK
  <1>3. \A j \in Keys :
            /\ KeyTypes(j)' /\ KeyOK(j)' /\ Len(tasks[j]) <= Len(tasks'[j])
            /\ reuse'[j] \subseteq reuse[j] /\ Used(j) <= Used(j)'
    BY <1>2
  <1> QED BY <1>3, Zenon DEF StoreInv, StoreOK, Grows

LEMMA KeyFacts ==
    ASSUME TaskInv, NEW k \in Keys
    PROVE  /\ KeyTypes(k) /\ KeyOK(k) /\ DOMAIN tasks = Keys /\ DOMAIN log = Keys
           /\ DOMAIN reuse = Keys /\ DOMAIN answers = Keys
           /\ Len(tasks[k]) \in Nat /\ Len(log[k]) \in Nat /\ Len(answers[k]) \in Nat
           /\ Used(k) \in Nat /\ Len(log[k]) = Used(k) + Len(answers[k])
           /\ Completed(k) = {i \in 1 .. Len(tasks[k]) : tasks[k][i].status = "completed"}
  BY TypeParts, StoredTypes DEF TaskInv, StoreOK, KeyOK, Used, Completed

LEMMA TakesStore ==
    ASSUME TaskInv, NEW w \in Workers, Takes(w)
    PROVE  StoreInv' /\ Grows
  <1>1. TypeOK /\ WorkerOK(w) /\ plan' = plan /\ copying' = copying
    BY DEF TaskInv, Takes
  <1>2. /\ UNCHANGED <<tasks, log, answers>> /\ work[w].pc = "take"
        /\ reuse' = reuse \/ \E i \in reuse[Key(w)] : reuse' = [reuse EXCEPT ![Key(w)] = @ \ {i}]
    BY <1>1, TakesIs, Zenon DEF At
  <1>3. PICK k \in Keys : k = Key(w)
    BY <1>1, <1>2, Moving
  <1>4. CASE reuse' = reuse
    BY <1>1, <1>2, <1>4, StoreSame
  <1>5. CASE \E i \in reuse[k] : reuse' = [reuse EXCEPT ![k] = @ \ {i}]
    <2>1. PICK i \in reuse[k] : reuse' = [reuse EXCEPT ![k] = @ \ {i}]
      BY <1>5
    <2>2. DOMAIN reuse' = Keys /\ reuse'[k] \subseteq reuse[k] /\ \A j \in Keys \ {k} : reuse'[j] = reuse[j]
      BY <1>3, <2>1, KeyFacts
    <2>7. KeyTypes(k)' /\ Used(k)' = Used(k) /\ Completed(k)' = Completed(k)
      <3>1. KeyTypes(k)
        BY KeyFacts
      <3> QED BY <1>2, <2>2, <3>1 DEF KeyTypes, Used, Completed
    <2>3. KeyTypes(k)' /\ KeyOK(k)' /\ Used(k)' = Used(k)
      <3>1. KeyOK(k)
        BY KeyFacts
      <3> QED BY <1>1, <1>2, <2>2, <2>7, <3>1 DEF KeyOK
    <2>6. Len(tasks[k]) \in Nat /\ Used(k) \in Nat
      BY KeyFacts
    <2>4. /\ DOMAIN tasks' = Keys /\ DOMAIN log' = Keys /\ DOMAIN answers' = Keys
          /\ Len(tasks[k]) <= Len(tasks'[k]) /\ Used(k) <= Used(k)'
      <3>1. DOMAIN tasks' = Keys /\ DOMAIN log' = Keys /\ DOMAIN answers' = Keys
        BY <1>2, KeyFacts
      <3>2. Len(tasks[k]) <= Len(tasks'[k])
        BY <1>2, <2>6
      <3>3. Used(k) <= Used(k)'
        BY <2>3, <2>6
      <3> QED BY <3>1, <3>2, <3>3
    <2>5. \A j \in Keys \ {k} : /\ tasks'[j] = tasks[j] /\ log'[j] = log[j]
                                /\ reuse'[j] = reuse[j] /\ answers'[j] = answers[j]
      BY <1>2, <2>2
    <2> QED BY <1>1, <2>2, <2>3, <2>4, <2>5, StoreAt
  <1> QED BY <1>2, <1>3, <1>4, <1>5

LEMMA CreatesStore ==
    ASSUME TaskInv, NEW w \in Workers, Creates(w)
    PROVE  /\ StoreInv' /\ Grows /\ Key(w) \in Keys
           /\ \A k \in Keys : Completed(k)' = Completed(k)
           /\ \A k \in Keys : \A i \in Completed(k) : tasks'[k][i] = tasks[k][i]
           /\ Len(tasks'[Key(w)]) = Len(tasks[Key(w)]) + 1
           /\ \A j \in Keys \ {Key(w)} : tasks'[j] = tasks[j]
  <1> DEFINE r == [status |-> "running", out |-> 0]
  <1>1. TypeOK /\ WorkerOK(w) /\ plan' = plan /\ copying' = copying
    BY DEF TaskInv, Creates
  <1>2. /\ UNCHANGED <<log, reuse, answers>> /\ work[w].pc = "create"
        /\ tasks' = [tasks EXCEPT ![Key(w)] = Append(@, r)]
    BY <1>1, CreatesIs, Zenon DEF At
  <1>3. PICK k \in Keys : k = Key(w)
    BY <1>1, <1>2, Moving
  <1>4. r \in TaskRecord /\ r.status = "running"
    BY DEF TaskRecord
  <1> HIDE DEF r
  <1>5. /\ DOMAIN tasks' = Keys /\ tasks'[k] = Append(tasks[k], r)
        /\ \A j \in Keys \ {k} : tasks'[j] = tasks[j]
    BY <1>2, <1>3, KeyFacts
  <1>6. tasks[k] \in Seq(TaskRecord) /\ Len(tasks[k]) \in Nat
    BY <1>3, KeyFacts DEF KeyTypes
  <1>7. /\ tasks'[k] \in Seq(TaskRecord) /\ Len(tasks'[k]) = Len(tasks[k]) + 1
        /\ \A i \in 1 .. Len(tasks[k]) : tasks'[k][i] = tasks[k][i]
        /\ tasks'[k][Len(tasks[k]) + 1] = r
        /\ DOMAIN tasks'[k] = 1 .. Len(tasks[k]) + 1
    BY <1>4, <1>5, <1>6
  <1>8. KeyTypes(k)'
    BY <1>2, <1>3, <1>6, <1>7, KeyFacts DEF KeyTypes
  <1>9. Completed(k)' = Completed(k)
    <2>1. Completed(k)' = {i \in 1 .. Len(tasks[k]) + 1 : tasks'[k][i].status = "completed"}
      BY <1>7 DEF Completed
    <2>2. Completed(k) = {i \in 1 .. Len(tasks[k]) : tasks[k][i].status = "completed"}
      BY <1>3, KeyFacts
    <2> QED BY <1>4, <1>6, <1>7, <2>1, <2>2
  <1>10. Used(k)' = Used(k)
    BY <1>2 DEF Used
  <1>14. \A i \in Completed(k) : i \in 1 .. Len(tasks[k])
    BY <1>3, KeyFacts
  <1>15. KeyOK(k)
    BY <1>3, KeyFacts
  <1>11. KeyOK(k)'
    BY <1>1, <1>2, <1>7, <1>9, <1>10, <1>14, <1>15 DEF KeyOK
  <1>12. StoreInv' /\ Grows
    BY <1>1, <1>2, <1>3, <1>5, <1>6, <1>7, <1>8, <1>10, <1>11, KeyFacts, StoreAt
  <1>13. \A j \in Keys : /\ Completed(j)' = Completed(j)
                         /\ \A i \in Completed(j) : tasks'[j][i] = tasks[j][i]
    <2> TAKE j \in Keys
    <2>1. CASE j = k
      BY <1>7, <1>9, <1>14, <2>1
    <2>2. CASE j # k
      BY <1>5, <2>2 DEF Completed
    <2> QED BY <2>1, <2>2
  <1> QED BY <1>3, <1>5, <1>7, <1>12, <1>13

(* One more response of w's key is given, to w.                            *)
Given(w) ==
    LET k == Key(w)
    IN  /\ k \in Keys /\ Used(k)' = Used(k) + 1 /\ Used(k) + 1 = work'[w].out
        /\ \A j \in Keys \ {k} : Used(j)' = Used(j) /\ log'[j] = log[j]
        /\ Len(log'[k]) >= Len(log[k]) /\ \A j \in 1 .. Len(log[k]) : log'[k][j] = log[k][j]

LEMMA AsksStore ==
    ASSUME TaskInv, NEW w \in Workers, Asks(w)
    PROVE  /\ StoreInv' /\ Grows /\ Given(w)
           /\ LET k == Key(w)
              IN  Len(log'[k]) = Len(log[k]) + 1 /\ log'[k][Len(log[k]) + 1] \in {"good", "bad", "loop"}
  <1>1. TypeOK /\ WorkerOK(w) /\ plan' = plan /\ copying' = copying /\ ~copying
    BY DEF TaskInv, Asks
  <1>2. /\ UNCHANGED <<tasks, reuse, answers>> /\ work[w].pc = "ask"
        /\ work'[w].out = Len(log[Key(w)]) + 1
        /\ \E as \in {"good", "bad", "loop"} : log' = [log EXCEPT ![Key(w)] = Append(@, as)]
    BY <1>1, AsksIs DEF At, WorkIs
  <1>3. PICK k \in Keys : k = Key(w)
    BY <1>1, <1>2, Moving
  <1>4. PICK x \in {"good", "bad", "loop"} : log' = [log EXCEPT ![k] = Append(@, x)]
    BY <1>2, <1>3
  <1>5. /\ DOMAIN log' = Keys /\ log'[k] = Append(log[k], x)
        /\ \A j \in Keys \ {k} : log'[j] = log[j]
    BY <1>4, KeyFacts
  <1>6. log[k] \in Seq({"good", "bad", "loop"}) /\ Len(log[k]) \in Nat
    BY <1>3, KeyFacts DEF KeyTypes
  <1>7. /\ log'[k] \in Seq({"good", "bad", "loop"}) /\ Len(log'[k]) = Len(log[k]) + 1
        /\ \A j \in 1 .. Len(log[k]) : log'[k][j] = log[k][j]
        /\ log'[k][Len(log[k]) + 1] = x
    <2>1. /\ Append(log[k], x) \in Seq({"good", "bad", "loop"})
      BY <1>6, AppendFacts
    <2>2. /\ Len(Append(log[k], x)) = Len(log[k]) + 1
      BY <1>6, AppendFacts
    <2>3. /\ \A j \in 1 .. Len(log[k]) : Append(log[k], x)[j] = log[k][j]
      BY <1>6, AppendFacts
    <2>4. /\ Append(log[k], x)[Len(log[k]) + 1] = x
      BY <1>6, AppendFacts
    <2> QED BY <1>5, <2>1, <2>2, <2>3, <2>4
  <1>8. answers[k] = <<>> /\ Len(answers[k]) = 0 /\ answers'[k] = <<>>
    <2>1. KeyOK(k)
      BY KeyFacts
    <2> QED BY <1>1, <1>2, <2>1 DEF KeyOK
  <1>9. Used(k) = Len(log[k]) /\ Used(k)' = Len(log[k]) + 1
    BY <1>6, <1>7, <1>8 DEF Used
  <1>16. KeyTypes(k)
    BY KeyFacts
  <1>17. answers'[k] \in Seq(1 .. Len(log'[k]))
    <2>1. <<>> \in Seq(1 .. Len(log'[k]))
      OBVIOUS
    <2> QED BY <1>8, <2>1
  <1>10. KeyTypes(k)'
    BY <1>2, <1>7, <1>16, <1>17 DEF KeyTypes
  <1>11. Completed(k)' = Completed(k)
    BY <1>2 DEF Completed
  <1>12. KeyOK(k)'
    <2>1. KeyOK(k)
      BY KeyFacts
    <2> QED BY <1>1, <1>2, <1>6, <1>8, <1>9, <1>11, <2>1 DEF KeyOK
  <1>13. StoreInv' /\ Grows
    <2>1. /\ DOMAIN tasks' = Keys /\ DOMAIN reuse' = Keys /\ DOMAIN answers' = Keys
          /\ Len(tasks[k]) <= Len(tasks'[k]) /\ reuse'[k] \subseteq reuse[k]
          /\ Used(k) <= Used(k)'
      BY <1>2, <1>6, <1>9, KeyFacts
    <2>2. \A j \in Keys \ {k} : /\ tasks'[j] = tasks[j] /\ log'[j] = log[j]
                                /\ reuse'[j] = reuse[j] /\ answers'[j] = answers[j]
      BY <1>2, <1>5
    <2> QED BY <1>1, <1>5, <1>10, <1>12, <2>1, <2>2, StoreAt
  <1>14. \A j \in Keys \ {k} : Used(j)' = Used(j)
    BY <1>2, <1>5 DEF Used
  <1>15. Given(w)
    BY <1>2, <1>3, <1>5, <1>6, <1>7, <1>9, <1>14, SamePlan, <1>1 DEF Given
  <1> QED BY <1>3, <1>7, <1>13, <1>15

LEMMA ChatStore ==
    ASSUME TaskInv, NEW w \in Workers, Chat(w)
    PROVE  StoreInv' /\ Grows /\ Given(w) /\ Len(answers'[Key(w)]) = Len(answers[Key(w)]) - 1
  <1>1. TypeOK /\ WorkerOK(w) /\ plan' = plan /\ copying' = copying /\ copying
    BY DEF TaskInv, Chat
  <1>2. /\ UNCHANGED <<tasks, log, reuse>> /\ work[w].pc = "ask" /\ answers[Key(w)] # <<>>
        /\ work'[w].out = answers[Key(w)][1]
        /\ answers' = [answers EXCEPT ![Key(w)] = Tail(@)]
    BY <1>1, ChatIs DEF At, WorkIs
  <1>3. PICK k \in Keys : k = Key(w)
    BY <1>1, <1>2, Moving
  <1>4. /\ DOMAIN answers' = Keys /\ answers'[k] = Tail(answers[k])
        /\ \A j \in Keys \ {k} : answers'[j] = answers[j]
    BY <1>2, <1>3, KeyFacts
  <1>5. answers[k] \in Seq(1 .. Len(log[k])) /\ Len(log[k]) \in Nat /\ Len(answers[k]) \in Nat
    BY <1>3, KeyFacts DEF KeyTypes
  <1>6. Len(answers[k]) > 0
    BY <1>2, <1>3, <1>5
  <1>7. /\ answers'[k] \in Seq(1 .. Len(log[k])) /\ Len(answers'[k]) = Len(answers[k]) - 1
        /\ \A j \in 1 .. Len(answers[k]) - 1 : answers'[k][j] = answers[k][j + 1]
    BY <1>4, <1>5, <1>6, TailFacts
  <1>8. Used(k)' = Used(k) + 1 /\ Used(k) \in Nat
    <2>1. Used(k) \in Nat
      BY KeyFacts
    <2>2. Used(k) = Len(log[k]) - Len(answers[k]) /\ Used(k)' = Len(log[k]) - Len(answers'[k])
      BY <1>2 DEF Used
    <2> QED BY <1>5, <1>7, <2>1, <2>2
  <1>9. KeyTypes(k)'
    BY <1>2, <1>3, <1>7, KeyFacts DEF KeyTypes
  <1>10. Completed(k)' = Completed(k)
    BY <1>2 DEF Completed
  <1>11. KeyOK(k)
    BY KeyFacts
  <1>12. \A j \in 1 .. Len(answers'[k]) : answers'[k][j] = Used(k)' + j
    <2> TAKE j \in 1 .. Len(answers'[k])
    <2>1. answers'[k][j] = answers[k][j + 1] /\ j + 1 \in 1 .. Len(answers[k]) /\ j \in Nat
      BY <1>5, <1>7
    <2>2. answers[k][j + 1] = Used(k) + (j + 1)
      BY <1>11, <2>1 DEF KeyOK
    <2> QED BY <1>8, <2>1, <2>2
  <1>13. KeyOK(k)'
    BY <1>1, <1>2, <1>8, <1>10, <1>11, <1>12 DEF KeyOK
  <1>14. StoreInv' /\ Grows
    BY <1>1, <1>2, <1>3, <1>4, <1>5, <1>8, <1>9, <1>13, KeyFacts, StoreAt
  <1>15. \A j \in Keys \ {k} : Used(j)' = Used(j)
    BY <1>2, <1>4 DEF Used
  <1>16. work'[w].out = Used(k) + 1
    BY <1>2, <1>3, <1>5, <1>6, <1>11 DEF KeyOK
  <1>17. Given(w)
    BY <1>2, <1>3, <1>5, <1>8, <1>15, <1>16, SamePlan, <1>1 DEF Given
  <1> QED BY <1>3, <1>7, <1>14, <1>17

(* A stored task is updated.                                               *)
LEMMA UpdatedStore ==
    ASSUME TaskInv, NEW w \in Workers, work[w].pc \in {"answered", "failing"},
           work[w].task # 0, NEW st \in {"completed", "failed"}, NEW o \in Nat,
           plan' = plan, copying' = copying, UNCHANGED <<log, answers, reuse>>,
           tasks' = Updated(w, st, o), st = "completed" => o \in 1 .. Used(Key(w))
    PROVE  /\ StoreInv' /\ Grows /\ Key(w) \in Keys
           /\ \A k \in Keys : Len(tasks'[k]) = Len(tasks[k])
           /\ \A k \in Keys \ {Key(w)} : tasks'[k] = tasks[k]
           /\ Completed(Key(w))' = IF st = "completed" THEN Completed(Key(w)) \cup {work[w].task}
                                   ELSE Completed(Key(w)) \ {work[w].task}
           /\ \A i \in Completed(Key(w)) \ {work[w].task} : tasks'[Key(w)][i] = tasks[Key(w)][i]
           /\ tasks'[Key(w)][work[w].task].out = o
  <1>1. TypeOK /\ WorkerOK(w)
    BY DEF TaskInv
  <1>2. PICK k \in Keys : k = Key(w)
    BY <1>1, Moving
  <1>3. work[w].task \in 1 .. Len(tasks[k]) /\ reuse[k] = {}
    BY <1>1, <1>2, StoredTypes DEF WorkerOK, Busy
  <1> DEFINE t == work[w].task
  <1>4. /\ DOMAIN tasks' = Keys
        /\ \A j \in Keys : tasks'[j] \in Seq(TaskRecord) /\ Len(tasks'[j]) = Len(tasks[j])
        /\ \A j \in Keys : \A i \in 1 .. Len(tasks[j]) :
              j # k \/ i # t => tasks'[j][i] = tasks[j][i]
        /\ tasks'[k][t].status = st /\ tasks'[k][t].out = o
    <2>1. st \in {"running", "completed", "failed"} /\ Key(w) \in Keys
          /\ work[w].task \in 1 .. Len(tasks[Key(w)])
      BY <1>2, <1>3
    <2>2. PICK g : g = tasks'
      OBVIOUS
    <2>3. IsUpdate(g, w, st, o)
      BY <1>1, <2>1, <2>2, UpdatedIs
    <2> QED BY <1>2, <2>2, <2>3 DEF IsUpdate
  <1>5. t \in 1 .. Len(tasks[k])
    BY <1>3
  <1> HIDE DEF t
  <1>7. \A j \in Keys \ {k} : tasks'[j] = tasks[j]
    <2> TAKE j \in Keys \ {k}
    <2>1. tasks[j] \in Seq(TaskRecord)
      BY KeyFacts DEF KeyTypes
    <2>2. /\ tasks'[j] \in Seq(TaskRecord) /\ Len(tasks'[j]) = Len(tasks[j])
          /\ \A i \in 1 .. Len(tasks[j]) : tasks'[j][i] = tasks[j][i]
      BY <1>4
    <2> QED BY <2>1, <2>2
  <1>8. /\ tasks'[k] \in Seq(TaskRecord) /\ Len(tasks'[k]) = Len(tasks[k]) /\ Len(tasks[k]) \in Nat
    BY <1>4, KeyFacts
  <1>9. KeyTypes(k)'
    BY <1>2, <1>8, KeyFacts DEF KeyTypes
  <1>10. Completed(k)' = {i \in 1 .. Len(tasks[k]) : tasks'[k][i].status = "completed"}
    BY <1>8, SeqFacts DEF Completed
  <1>11. Completed(k) = {i \in 1 .. Len(tasks[k]) : tasks[k][i].status = "completed"}
    BY KeyFacts
  <1>12. Completed(k)' = IF st = "completed" THEN Completed(k) \cup {t} ELSE Completed(k) \ {t}
    BY <1>4, <1>5, <1>10, <1>11
  <1>13. \A i \in Completed(k) \ {t} : tasks'[k][i] = tasks[k][i]
    BY <1>4, <1>11
  <1>14. Used(k)' = Used(k) /\ KeyOK(k) /\ Used(k) \in Nat
    BY KeyFacts DEF Used
  <1>15. \A i \in Completed(k)' : tasks'[k][i].out \in 1 .. Used(k)
    <2> SUFFICES ASSUME NEW i \in Completed(k)' PROVE tasks'[k][i].out \in 1 .. Used(k)
      OBVIOUS
    <2>1. CASE i = t
      <3>1. st = "completed"
        BY <1>12, <2>1
      <3> QED BY <1>2, <1>4, <2>1, <3>1
    <2>2. CASE i # t
      BY <1>12, <1>13, <1>14, <2>2 DEF KeyOK
    <2> QED BY <2>1, <2>2
  <1>16. KeyOK(k)'
    BY <1>3, <1>14, <1>15 DEF KeyOK
  <1>17. StoreInv' /\ Grows
    BY <1>2, <1>4, <1>7, <1>8, <1>9, <1>14, <1>16, KeyFacts, StoreAt
  <1>18. Key(w)' = k
    BY <1>2, SamePlan
  <1> QED BY <1>2, <1>4, <1>7, <1>12, <1>13, <1>17, <1>18 DEF t, Completed

(* What fails a task, and what the workers' actions do to what is stored.  *)
LEMMA FailsStore ==
    ASSUME TaskInv, NEW w \in Workers, Fails(w)
    PROVE  /\ StoreInv' /\ Grows /\ \A k \in Keys : Len(tasks'[k]) = Len(tasks[k])
           /\ \A k \in Keys : /\ Completed(k)' \subseteq Completed(k)
                              /\ \A i \in Completed(k)' : tasks'[k][i] = tasks[k][i]
  <1>1. /\ TypeOK /\ work[w].pc = "failing" /\ plan' = plan /\ copying' = copying
        /\ UNCHANGED <<log, reuse, answers>> /\ failTask(w)
    BY FailsIs DEF TaskInv, At, Statics
  <1>2. CASE tasks' = tasks
    <2> QED BY <1>1, <1>2, StoreSame DEF Completed
  <1>3. CASE work[w].task # 0 /\ tasks' = Updated(w, "failed", 0)
    <2>1. tasks' = Updated(w, "failed", 0)
      BY <1>3
    <2>2. /\ StoreInv' /\ Grows /\ Key(w) \in Keys
          /\ \A k \in Keys : Len(tasks'[k]) = Len(tasks[k])
          /\ \A k \in Keys \ {Key(w)} : tasks'[k] = tasks[k]
          /\ Completed(Key(w))' = Completed(Key(w)) \ {work[w].task}
          /\ \A i \in Completed(Key(w)) \ {work[w].task} : tasks'[Key(w)][i] = tasks[Key(w)][i]
      BY <1>1, <1>3, <2>1, UpdatedStore
    <2>3. PICK k \in Keys : k = Key(w)
      BY <2>2
    <2>4. Key(w)' = k
      BY <1>1, <2>3, SamePlan
    <2>5. \A j \in Keys : /\ Completed(j)' \subseteq Completed(j)
                          /\ \A i \in Completed(j)' : tasks'[j][i] = tasks[j][i]
      <3> TAKE j \in Keys
      <3>1. CASE j = k
        BY <2>2, <2>3, <2>4, <3>1 DEF Completed
      <3>2. CASE j # k
        BY <2>2, <2>3, <3>2 DEF Completed
      <3> QED BY <3>1, <3>2
    <2> QED BY <2>2, <2>5
  <1> QED BY <1>1, <1>2, <1>3 DEF failTask

LEMMA CompletesStore ==
    ASSUME TaskInv, NEW w \in Workers, Completes(w)
    PROVE  /\ StoreInv' /\ Grows /\ Key(w) \in Keys
           /\ \A k \in Keys : Len(tasks'[k]) = Len(tasks[k])
           /\ \A k \in Keys \ {Key(w)} : tasks'[k] = tasks[k]
           /\ \/ tasks' = tasks
              \/ /\ Completed(Key(w))' = Completed(Key(w)) \cup {work[w].task}
                 /\ \A i \in Completed(Key(w)) \ {work[w].task} :
                       tasks'[Key(w)][i] = tasks[Key(w)][i]
                 /\ tasks'[Key(w)][work[w].task].out = work[w].out
  <1>1. /\ TypeOK /\ WorkerOK(w) /\ work[w].pc = "answered" /\ plan' = plan /\ copying' = copying
        /\ UNCHANGED <<log, reuse, answers>>
        /\ tasks' = tasks \/ tasks' = Updated(w, "completed", work[w].out)
    BY CompletesIs DEF TaskInv, At, Statics
  <1>2. work[w].out \in Nat /\ work[w].task # 0 /\ work[w].out \in 1 .. Used(Key(w))
        /\ Key(w) \in Keys
    <2>1. Key(w) \in Keys
      BY <1>1, Moving
    <2>2. work[w].task \in DOMAIN tasks[Key(w)] /\ work[w].out \in 1 .. Used(Key(w))
      BY <1>1 DEF WorkerOK, Held
    <2>3. work[w].out \in Nat
      BY <1>1, WorkTypes DEF Worker
    <2> QED BY <1>1, <2>1, <2>2, <2>3, StoredTypes
  <1>3. CASE tasks' = tasks
    BY <1>1, <1>2, <1>3, StoreSame
  <1>4. CASE tasks' = Updated(w, "completed", work[w].out)
    <2>1. PICK o \in Nat : o = work[w].out
      BY <1>2
    <2>2. /\ StoreInv' /\ Grows /\ Key(w) \in Keys
          /\ \A k \in Keys : Len(tasks'[k]) = Len(tasks[k])
          /\ \A k \in Keys \ {Key(w)} : tasks'[k] = tasks[k]
          /\ Completed(Key(w))' = Completed(Key(w)) \cup {work[w].task}
          /\ \A i \in Completed(Key(w)) \ {work[w].task} :
                tasks'[Key(w)][i] = tasks[Key(w)][i]
          /\ tasks'[Key(w)][work[w].task].out = o
      BY <1>1, <1>2, <1>4, <2>1, UpdatedStore
    <2> QED BY <2>1, <2>2
  <1> QED BY <1>1, <1>3, <1>4

LEMMA WorksStore ==
    ASSUME TaskInv, NEW w \in Workers, Works(w)
    PROVE  StoreInv' /\ Grows
  <1>1. ASSUME UNCHANGED <<plan, copying, tasks, log, answers, reuse>>
        PROVE  StoreInv' /\ Grows
    BY <1>1, StoreSame
  <1>2. TypeOK /\ WorkerOK(w)
    BY DEF TaskInv
  <1>3. CASE GivesUp(w)
    BY <1>1, <1>3 DEF GivesUp, stored
  <1>4. CASE CreateFails(w)
    BY <1>1, <1>4 DEF CreateFails, stored
  <1>5. CASE AskFails(w)
    BY <1>1, <1>5 DEF AskFails, stored
  <1>6. CASE Rejects(w)
    BY <1>1, <1>6 DEF Rejects, stored
  <1>7. CASE BackoffEnds(w)
    BY <1>1, <1>7 DEF BackoffEnds, stored
  <1> QED BY <1>3, <1>4, <1>5, <1>6, <1>7, TakesStore, CreatesStore, AsksStore, ChatStore,
             CompletesStore, FailsStore DEF Works

-----------------------------------------------------------------------------
(* What the workers' actions keep of the workers.                          *)

LEMMA KeepsOK ==
    ASSUME TypeOK, StoreInv', Grows, NEW v \in Workers, WorkerOK(v), work'[v] = work[v],
           v \notin Steps /\ work[v].pc \notin {"off", "done"} =>
               work'[Parent(v)].pc = "delegating"
    PROVE  WorkerOK(v)'
  <1>1. Steps' = Steps /\ Key(v)' = Key(v) /\ Parent(v)' = Parent(v)
    BY SamePlan DEF Grows
  <1>2. PICK k : k = Key(v)
    OBVIOUS
  <1>3. Key(v)' = k
    BY <1>1, <1>2
  <1>4. CASE k \in Keys
    <2>1. /\ DOMAIN tasks[k] \subseteq DOMAIN tasks'[k]
          /\ reuse'[k] \subseteq reuse[k]
      <3>1. /\ tasks'[k] \in Seq(TaskRecord) /\ Len(tasks[k]) <= Len(tasks'[k])
            /\ Used(k)' \in Nat /\ Used(k) <= Used(k)' /\ reuse'[k] \subseteq reuse[k]
        BY <1>4 DEF StoreInv, StoreOK, KeyTypes, KeyOK, Grows
      <3>2. DOMAIN tasks'[k] = 1 .. Len(tasks'[k]) /\ Len(tasks'[k]) \in Nat
        BY <3>1, SeqFacts
      <3>3. DOMAIN tasks[k] = 1 .. Len(tasks[k]) /\ Len(tasks[k]) \in Nat
        BY <1>4, StoredTypes
      <3> QED BY <3>1, <3>2, <3>3
    <2>2. Held(v) => work[v].out \in 1 .. Used(k)'
      <3> SUFFICES ASSUME Held(v) PROVE work[v].out \in 1 .. Used(k)'
        OBVIOUS
      <3>1. work[v].out \in 1 .. Used(k) /\ Used(k) <= Used(k)' /\ Used(k)' \in Nat
        BY <1>2, <1>4 DEF WorkerOK, Grows, StoreInv, KeyOK
      <3>2. Used(k) \in Int
        BY <1>4, StoredTypes DEF Used
      <3> QED BY <3>1, <3>2
    <2>3. (Held(v) <=> Held(v)') /\ (Sound(work[v]) <=> Sound(work[v])')
      BY DEF Held, Done, Sound
    <2>4. /\ work[v].task \in DOMAIN tasks[k] => work[v].task \in DOMAIN tasks'[k]
          /\ reuse[k] = {} => reuse'[k] = {}
      BY <2>1
    <2> QED BY <1>1, <1>2, <1>3, <1>4, <2>2, <2>3, <2>4 DEF WorkerOK, Busy
  <1>5. CASE k \notin Keys
    <2>1. work[v].pc = "off"
      BY <1>2, <1>5 DEF WorkerOK
    <2> QED BY <1>1, <1>2, <1>3, <2>1 DEF WorkerOK, Held, Done, Failed, Busy, Places
  <1> QED BY <1>4, <1>5

(* The child of a step that does not wait for it is idle.                  *)
LEMMA IdleChild ==
    ASSUME TaskInv, NEW w \in Workers, work[w].pc # "delegating",
           NEW v \in Workers \ Steps, work[v].pc \notin {"off", "done"}
    PROVE  Parent(v) # w
  BY DEF TaskInv, WorkerOK

LEMMA AloneOK ==
    ASSUME TaskInv, StoreInv', Grows, NEW w \in Workers, work[w].pc # "delegating",
           KeptBut({w}), WorkerOK(w)'
    PROVE  \A v \in Workers : WorkerOK(v)'
  <1> SUFFICES ASSUME NEW v \in Workers, v # w PROVE WorkerOK(v)'
    OBVIOUS
  <1>1. TypeOK /\ WorkerOK(v) /\ plan \in Plans /\ work'[v] = work[v]
    BY DEF TaskInv, TypeOK, KeptBut
  <1>2. ASSUME v \notin Steps, work[v].pc \notin {"off", "done"}
        PROVE  work'[Parent(v)].pc = "delegating"
    <2>1. Parent(v) # w /\ Parent(v) \in Workers /\ work[Parent(v)].pc = "delegating"
      BY <1>1, <1>2, IdleChild, WorkersAre DEF WorkerOK
    <2> QED BY <2>1 DEF KeptBut
  <1> QED BY <1>1, <1>2, KeepsOK

LEMMA OrderIs ==
    ASSUME TaskInv, NEW w \in Steps, phase = "running", plan.kind = "sequential",
           work[w].pc \notin {"off", "done"}
    PROVE  /\ \A i \in Steps : i < w => Done(i) /\ work[i].err = "none"
           /\ \A i \in Steps : i > w => work[i].pc = "off"
  <1>1. PICK c \in Steps :
            /\ \A i \in Steps : i < c => Done(i) /\ work[i].err = "none"
            /\ work[c].pc \notin {"off", "done"}
            /\ \A i \in Steps : i > c => work[i].pc = "off"
    BY DEF TaskInv, InOrder
  <1>2. w = c
    <2>1. ~(w < c) /\ ~(w > c)
      BY <1>1 DEF Done
    <2>2. w \in Int /\ c \in Int
      BY WorkersAre DEF TaskInv, TypeOK
    <2> QED BY <2>1, <2>2
  <1> QED BY <1>1, <1>2

LEMMA ReturnedOK ==
    ASSUME TaskInv, StoreInv', Grows, NEW w \in Workers, phase = "running",
           work[w].pc \notin {"off", "done", "delegating"},
           NEW out \in Nat, NEW err \in Errors, Returned(w, out, err),
           err # "none" => out = 0, err = "none" => out \in 1 .. Used(Key(w))
    PROVE  \A v \in Workers : WorkerOK(v)'
  <1>1. /\ TypeOK /\ \A v \in Workers : WorkerOK(v)
        /\ plan \in Plans /\ plan' = plan /\ Steps' = Steps
        /\ \A v : Key(v)' = Key(v) /\ Parent(v)' = Parent(v)
    BY SamePlan DEF TaskInv, TypeOK, Grows
  <1>2. PICK k \in Keys : k = Key(w)
    BY <1>1, Moving
  <1>3. WorkIs(w, "done", work[w].attempt, work[w].task, out, err)
    BY DEF Returned
  <1>4. WorkerOK(w)'
    <2>1. Sound(work'[w])
      BY <1>1, <1>3, Zenon DEF WorkIs, WorkerOK, Sound, Places
    <2>2. out \in 1 .. Used(k) => out \in 1 .. Used(k)'
      <3>1. Used(k) \in Nat /\ Used(k)' \in Nat /\ Used(k) <= Used(k)'
        BY KeyFacts DEF StoreInv, KeyOK, Grows
      <3> QED BY <3>1
    <2>3. Held(w)' => work'[w].out \in 1 .. Used(k)'
      BY <1>2, <1>3, <2>2 DEF Held, Done, WorkIs
    <2> QED BY <1>1, <1>2, <1>3, <2>1, <2>3 DEF WorkerOK, WorkIs, Busy
  <1>5. ASSUME NEW S, KeptBut(S), NEW v \in Workers \ S, w \in S,
               \A x \in S : x # w => work[x].pc # "delegating" \/ x = Parent(w)
        PROVE  WorkerOK(v)'
    <2>1. ASSUME v \notin Steps, work[v].pc \notin {"off", "done"}
          PROVE  work'[Parent(v)].pc = "delegating"
      <3>1. /\ Parent(v) # w /\ Parent(v) \in Workers /\ work[Parent(v)].pc = "delegating"
        BY <1>1, <2>1, IdleChild, WorkersAre DEF WorkerOK
      <3>2. CASE Parent(v) \notin S
        BY <1>5, <3>1, <3>2 DEF KeptBut
      <3>3. CASE Parent(v) \in S
        <4>1. Parent(v) = Parent(w)
          BY <1>5, <3>1, <3>3
        <4>2. CASE w \in Steps
          <5>1. Parent(w) < 1 /\ Parent(v) \in Steps
            BY <1>1, <2>1, <4>2, WorkersAre DEF Parent, Size
          <5> QED BY <1>1, <4>1, <5>1, WorkersAre
        <4>3. CASE w \notin Steps
          <5>1. Child(Parent(v)) = v /\ Child(Parent(w)) = w
            BY <1>1, <2>1, <4>3, WorkersAre
          <5> QED BY <1>5, <4>1, <5>1
        <4> QED BY <4>2, <4>3
      <3> QED BY <3>2, <3>3
    <2>2. work'[v] = work[v]
      BY <1>5 DEF KeptBut
    <2> QED BY <1>1, <2>1, <2>2, KeepsOK
  <1>6. CASE ToChannel(w) \/ ToEnd(w, err)
    <2>1. KeptBut({w})
      BY <1>6 DEF ToChannel, ToEnd
    <2> QED BY <1>4, <1>5, <2>1
  <1>7. CASE ToParent(w, err)
    <2>1. PICK p \in Steps : p = Parent(w)
      BY <1>1, <1>7, WorkersAre DEF ToParent
    <2>2. KeptBut({w, p})
      BY <1>7, <2>1 DEF ToParent
    <2>3. work[p].pc = "delegating" /\ p \in Workers /\ Key(p) \in Keys
      BY <1>1, <1>7, <2>1, WorkersAre DEF ToParent, WorkerOK
    <2>4. Sound(work[p]) /\ work[p].task \in DOMAIN tasks[Key(p)] /\ reuse[Key(p)] = {}
      BY <1>1, <2>3, Zenon DEF WorkerOK, Busy
    <2>5. work[p].task \in DOMAIN tasks'[Key(p)] /\ reuse'[Key(p)] = {}
      <3>1. PICK j \in Keys : j = Key(p)
        BY <2>3
      <3>2. tasks'[j] \in Seq(TaskRecord) /\ Len(tasks[j]) <= Len(tasks'[j])
            /\ reuse'[j] \subseteq reuse[j]
        BY DEF StoreInv, StoreOK, KeyTypes, Grows
      <3>3. DOMAIN tasks'[j] = 1 .. Len(tasks'[j]) /\ Len(tasks'[j]) \in Nat
        BY <3>2, SeqFacts
      <3>4. DOMAIN tasks[j] = 1 .. Len(tasks[j]) /\ Len(tasks[j]) \in Nat
        BY <1>1, StoredTypes
      <3> QED BY <2>4, <3>1, <3>2, <3>3, <3>4
    <2>6. CASE err \in {"none", "failed"}
      <3>1. WorkIs(p, "ask", work[p].attempt, work[p].task, work[p].out, work[p].err)
        BY <1>7, <2>1, <2>6, Zenon DEF ToParent
      <3>2. Sound(work'[p])
        BY <2>3, <2>4, <3>1, Zenon DEF WorkIs, Sound, Places
      <3>3. ~Held(p)'
        BY <3>1 DEF Held, Done, WorkIs
      <3>4. WorkerOK(p)'
        BY <1>1, <2>3, <2>5, <3>1, <3>2, <3>3 DEF WorkerOK, WorkIs, Busy
      <3> QED BY <1>4, <1>5, <2>1, <2>2, <3>4
    <2>7. CASE err \notin {"none", "failed"}
      <3>1. WorkIs(p, "failing", work[p].attempt, work[p].task, work[p].out, err)
        BY <1>7, <2>1, <2>7, Zenon DEF ToParent
      <3>2. Sound(work'[p])
        BY <2>3, <2>4, <2>7, <3>1 DEF WorkIs, Sound, Places
      <3>3. ~Held(p)'
        BY <3>1 DEF Held, Done, WorkIs
      <3>4. WorkerOK(p)'
        BY <1>1, <2>3, <2>5, <3>1, <3>2, <3>3 DEF WorkerOK, WorkIs, Busy
      <3> QED BY <1>4, <1>5, <2>1, <2>2, <3>4
    <2> QED BY <2>6, <2>7
  <1>8. CASE ToNext(w, err)
    <2>1. PICK n \in Steps : n = w + 1
      BY <1>8 DEF ToNext
    <2>2. /\ KeptBut({w, n}) /\ n \in Workers /\ Key(n) \in Keys /\ w \in Steps
          /\ plan.kind = "sequential" /\ w \in Int
          /\ WorkIs(n, "take", work[n].attempt, work[n].task, work[n].out, work[n].err)
      BY <1>1, <1>8, <2>1, WorkersAre DEF ToNext
    <2>3. work[n].pc = "off"
      <3>1. n > w
        BY <2>1, <2>2
      <3> QED BY <2>2, <3>1, OrderIs
    <2>4. Sound(work[n])
      BY <1>1, <2>2, Zenon DEF WorkerOK
    <2>5. Sound(work'[n])
      BY <2>2, <2>3, <2>4, Zenon DEF WorkIs, Sound, Places
    <2>6. ~Held(n)'
      BY <2>2 DEF Held, Done, WorkIs
    <2>7. WorkerOK(n)'
      BY <1>1, <2>2, <2>5, <2>6 DEF WorkerOK, WorkIs, Busy
    <2> QED BY <1>4, <1>5, <2>2, <2>3, <2>7
  <1> QED BY <1>6, <1>7, <1>8 DEF Returned

(* A worker that goes on by itself.                                        *)
LEMMA GoingOn ==
    ASSUME TaskInv, StoreInv', Grows, NEW w \in Workers, NEW k \in Keys, k = Key(w),
           work[w].pc \notin {"off", "done", "delegating"}, KeptBut({w}),
           Sound(work'[w]), reuse[k] = {},
           work'[w].pc \in {"create", "ask", "answered", "failing", "backoff"},
           work'[w].pc \in {"ask", "answered"} \/ (work'[w].pc = "failing" /\ work'[w].task # 0)
               => work'[w].task \in DOMAIN tasks'[k],
           work'[w].pc = "answered" => work'[w].out \in 1 .. Used(k)',
           work'[w].pc = "backoff" => w \in Steps
    PROVE  \A v \in Workers : WorkerOK(v)'
  <1>1. /\ WorkerOK(w) /\ plan \in Plans /\ Steps' = Steps
        /\ Key(w)' = k /\ Parent(w)' = Parent(w)
    BY SamePlan DEF TaskInv, TypeOK, Grows
  <1>2. w \notin Steps => work'[Parent(w)].pc = "delegating"
    BY <1>1, WorkersAre DEF WorkerOK, KeptBut
  <1>3. Held(w)' <=> work'[w].pc = "answered"
    BY DEF Held, Done
  <1>4. reuse'[k] = {}
    BY DEF Grows
  <1>5. WorkerOK(w)'
    BY <1>1, <1>2, <1>3, <1>4 DEF WorkerOK
  <1> QED BY <1>5, AloneOK

LEMMA TakesWorkers ==
    ASSUME TaskInv, NEW w \in Workers, Takes(w)
    PROVE  \A v \in Workers : WorkerOK(v)'
  <1>1. TypeOK /\ WorkerOK(w) /\ StoreInv' /\ Grows
    BY TakesStore DEF TaskInv
  <1>2. /\ At(w, "take")
        /\ \/ \E i \in reuse[Key(w)] : Returned(w, tasks[Key(w)][i].out, "none")
           \/ /\ reuse[Key(w)] = {} /\ Alone(w)
              /\ WorkIs(w, "create", work[w].attempt, work[w].task, work[w].out, work[w].err)
           \/ Returned(w, 0, "budget")
    BY <1>1, TakesIs, Zenon
  <1>3. PICK k \in Keys : k = Key(w)
    BY <1>1, <1>2, Moving DEF At
  <1>4. phase = "running" /\ work[w].pc = "take" /\ {"none", "budget"} \subseteq Errors
    BY <1>2 DEF At, Errors
  <1>5. CASE \E i \in reuse[k] : Returned(w, tasks[k][i].out, "none")
    <2>1. PICK i \in reuse[k] : Returned(w, tasks[k][i].out, "none")
      BY <1>5
    <2>2. PICK o \in 1 .. Used(k) : o = tasks[k][i].out
      BY KeyFacts DEF KeyOK
    <2>3. o \in Nat /\ Returned(w, o, "none")
      BY <2>1, <2>2, KeyFacts
    <2> QED BY <1>1, <1>3, <1>4, <2>3, ReturnedOK
  <1>6. CASE /\ reuse[k] = {} /\ Alone(w)
             /\ WorkIs(w, "create", work[w].attempt, work[w].task, work[w].out, work[w].err)
    <2>1. Sound(work'[w])
      BY <1>1, <1>4, <1>6, Zenon DEF WorkerOK, WorkIs, Sound, Places
    <2>2. work'[w].pc = "create" /\ KeptBut({w})
      BY <1>6 DEF WorkIs, Alone
    <2> QED BY <1>1, <1>3, <1>4, <1>6, <2>1, <2>2, GoingOn
  <1>7. CASE Returned(w, 0, "budget")
    BY <1>1, <1>4, <1>7, ReturnedOK
  <1> QED BY <1>2, <1>3, <1>5, <1>6, <1>7

LEMMA CreatesWorkers ==
    ASSUME TaskInv, NEW w \in Workers, Creates(w)
    PROVE  \A v \in Workers : WorkerOK(v)'
  <1>1. /\ TypeOK /\ (\A v \in Workers : WorkerOK(v)) /\ plan \in Plans
        /\ StoreInv' /\ Grows /\ Key(w) \in Keys /\ Len(tasks'[Key(w)]) = Len(tasks[Key(w)]) + 1
    BY CreatesStore DEF TaskInv, TypeOK
  <1>2. PICK k \in Keys : k = Key(w)
    BY <1>1
  <1>3. /\ At(w, "create")
        /\ \/ /\ w \in Steps /\ plan.child[w] # "none" /\ KeptBut({w, Child(w)})
              /\ WorkIs(w, "delegating", work[w].attempt, Len(tasks[k]) + 1,
                        work[w].out, work[w].err)
              /\ WorkIs(Child(w), "take", 1, 0, 0, "none")
           \/ /\ KeptBut({w})
              /\ WorkIs(w, "ask", work[w].attempt, Len(tasks[k]) + 1,
                        work[w].out, work[w].err)
    BY <1>1, <1>2, CreatesIs
  <1>4. Len(tasks[k]) + 1 \in DOMAIN tasks'[k]
    <2>1. tasks'[k] \in Seq(TaskRecord) /\ Len(tasks[k]) \in Nat
      BY <1>1, <1>2, KeyFacts DEF StoreInv, StoreOK, KeyTypes
    <2>2. DOMAIN tasks'[k] = 1 .. Len(tasks'[k])
      BY <2>1, SeqFacts
    <2> QED BY <1>1, <1>2, <2>1, <2>2
  <1>5. phase = "running" /\ work[w].pc = "create"
    BY <1>3 DEF At
  <1>6. reuse[k] = {} /\ Sound(work[w])
    BY <1>1, <1>2, <1>5, Zenon DEF WorkerOK, Busy
  <1>7. CASE /\ KeptBut({w})
             /\ WorkIs(w, "ask", work[w].attempt, Len(tasks[k]) + 1, work[w].out, work[w].err)
    <2>1. Sound(work'[w])
      BY <1>5, <1>6, <1>7, Zenon DEF WorkIs, Sound, Places
    <2>2. work'[w].pc = "ask" /\ work'[w].task = Len(tasks[k]) + 1
      BY <1>7 DEF WorkIs
    <2> QED BY <1>1, <1>2, <1>4, <1>5, <1>6, <1>7, <2>1, <2>2, GoingOn
  <1>8. CASE /\ w \in Steps /\ plan.child[w] # "none" /\ KeptBut({w, Child(w)})
             /\ WorkIs(w, "delegating", work[w].attempt, Len(tasks[k]) + 1,
                       work[w].out, work[w].err)
             /\ WorkIs(Child(w), "take", 1, 0, 0, "none")
    <2>1. PICK c \in Workers \ Steps : c = Child(w)
      BY <1>1, <1>8, WorkersAre
    <2>2. Parent(c) = w /\ Key(c) = plan.child[w] /\ Key(c) \in Keys
      BY <1>1, <1>8, <2>1, WorkersAre
    <2>3. /\ Steps' = Steps /\ Key(w)' = k /\ Key(c)' = Key(c) /\ Parent(c)' = w
      BY <1>1, <1>2, <2>2, SamePlan DEF Grows
    <2>4. WorkIs(c, "take", 1, 0, 0, "none") /\ KeptBut({w, c})
      BY <1>8, <2>1
    <2>5. Sound(work'[w])
      BY <1>5, <1>6, <1>8, Zenon DEF WorkIs, Sound, Places
    <2>6. WorkerOK(w)'
      <3>1. work'[w].pc = "delegating" /\ work'[w].task = Len(tasks[k]) + 1
        BY <1>8 DEF WorkIs
      <3>2. ~Held(w)' /\ reuse'[k] = {}
        BY <1>1, <1>6, <3>1 DEF Held, Done, Grows
      <3> QED BY <1>4, <1>8, <2>3, <2>5, <3>1, <3>2 DEF WorkerOK
    <2>7. WorkerOK(c)'
      <3>1. Sound(work'[c])
        BY <2>4 DEF WorkIs, Sound, Places
      <3>2. work'[c].pc = "take" /\ work'[w].pc = "delegating"
        BY <1>8, <2>4 DEF WorkIs
      <3>3. ~Held(c)'
        BY <3>2 DEF Held, Done
      <3> QED BY <2>2, <2>3, <3>1, <3>2, <3>3 DEF WorkerOK, Busy
    <2>8. ASSUME NEW v \in Workers, v # w, v # c
          PROVE  WorkerOK(v)'
      <3>1. WorkerOK(v) /\ work'[v] = work[v]
        BY <1>1, <2>4, <2>8 DEF KeptBut
      <3>2. ASSUME v \notin Steps, work[v].pc \notin {"off", "done"}
            PROVE  work'[Parent(v)].pc = "delegating"
        <4>1. Parent(v) \in Steps /\ Parent(v) \in Workers /\ work[Parent(v)].pc = "delegating"
          BY <1>1, <3>1, <3>2, WorkersAre DEF WorkerOK
        <4> QED BY <1>5, <2>4, <4>1 DEF KeptBut
      <3> QED BY <1>1, <3>1, <3>2, KeepsOK
    <2> QED BY <2>6, <2>7, <2>8
  <1> QED BY <1>3, <1>7, <1>8

LEMMA TaskFacts ==
    ASSUME TaskInv, NEW w \in Workers, work[w].pc \in Busy
    PROVE  /\ TypeOK /\ WorkerOK(w) /\ Key(w) \in Keys /\ Sound(work[w]) /\ reuse[Key(w)] = {}
           /\ work[w].pc \in {"delegating", "ask", "answered"}
                 \/ (work[w].pc = "failing" /\ work[w].task # 0) =>
                 work[w].task \in DOMAIN tasks[Key(w)]
           /\ work[w].pc = "answered" => work[w].out \in 1 .. Used(Key(w))
           /\ work[w].out \in Nat /\ work[w].err \in Errors
  <1>1. TypeOK /\ WorkerOK(w)
    BY DEF TaskInv
  <1>2. Key(w) \in Keys
    BY <1>1, Moving DEF Busy
  <1>3. work[w].out \in Nat /\ work[w].err \in Errors
    BY <1>1, WorkTypes DEF Worker
  <1> QED BY <1>1, <1>2, <1>3 DEF WorkerOK, Held

LEMMA StoredGrows ==
    ASSUME TaskInv, StoreInv', Grows, NEW k \in Keys
    PROVE  DOMAIN tasks[k] \subseteq DOMAIN tasks'[k]
  <1>1. tasks'[k] \in Seq(TaskRecord) /\ Len(tasks[k]) <= Len(tasks'[k])
    BY DEF StoreInv, StoreOK, KeyTypes, Grows
  <1>2. DOMAIN tasks'[k] = 1 .. Len(tasks'[k]) /\ Len(tasks'[k]) \in Nat
    BY <1>1, SeqFacts
  <1>3. DOMAIN tasks[k] = 1 .. Len(tasks[k]) /\ Len(tasks[k]) \in Nat
    BY StoredTypes DEF TaskInv
  <1> QED BY <1>1, <1>2, <1>3

LEMMA FailingWorkers ==
    ASSUME TaskInv, NEW w \in Workers, CreateFails(w) \/ AskFails(w) \/ Rejects(w)
    PROVE  \A v \in Workers : WorkerOK(v)'
  <1>1. TypeOK /\ StoreInv' /\ Grows
    BY WorksStore DEF TaskInv, Works
  <1>2. PICK t, e :
            /\ Alone(w) /\ work[w].pc \in {"create", "ask", "answered"}
            /\ WorkIs(w, "failing", work[w].attempt, t, work[w].out, e) /\ e # "none"
            /\ t = 0 \/ (t = work[w].task /\ work[w].pc # "create")
    <2>1. CASE CreateFails(w)
      BY <1>1, <2>1, CreateFailsIs DEF At
    <2>2. CASE AskFails(w)
      BY <1>1, <2>2, AskFailsIs DEF At
    <2>3. CASE Rejects(w)
      BY <1>1, <2>3, RejectsIs DEF At
    <2> QED BY <2>1, <2>2, <2>3
  <1>3. work[w].pc \in Busy
    BY <1>2 DEF Busy
  <1>4. PICK k \in Keys : k = Key(w)
    BY <1>3, TaskFacts
  <1>5. Sound(work[w]) /\ reuse[k] = {} /\ (t # 0 => t \in DOMAIN tasks'[k])
    BY <1>1, <1>2, <1>3, <1>4, TaskFacts, StoredGrows
  <1>6. Sound(work'[w])
    BY <1>2, <1>5 DEF WorkIs, Sound, Places
  <1>7. work'[w].pc = "failing" /\ work'[w].task = t /\ KeptBut({w})
    BY <1>2 DEF WorkIs, Alone
  <1> QED BY <1>1, <1>2, <1>4, <1>5, <1>6, <1>7, GoingOn

LEMMA AnsweredWorkers ==
    ASSUME TaskInv, NEW w \in Workers, Asks(w) \/ Chat(w)
    PROVE  \A v \in Workers : WorkerOK(v)'
  <1>1. TypeOK /\ WorkerOK(w) /\ StoreInv' /\ Grows /\ Given(w)
    BY AsksStore, ChatStore DEF TaskInv
  <1>2. PICK o :
            /\ Alone(w) /\ work[w].pc = "ask"
            /\ WorkIs(w, "answered", work[w].attempt, work[w].task, o, work[w].err)
    BY <1>1, AsksIs, ChatIs DEF At
  <1>3. work[w].pc \in Busy
    BY <1>2 DEF Busy
  <1>4. PICK k \in Keys : k = Key(w)
    BY <1>3, TaskFacts
  <1>5. Sound(work[w]) /\ reuse[k] = {} /\ work[w].task \in DOMAIN tasks'[k]
    BY <1>1, <1>2, <1>3, <1>4, TaskFacts, StoredGrows
  <1>6. Sound(work'[w])
    BY <1>2, <1>5, Zenon DEF WorkIs, Sound, Places
  <1>7. work'[w].pc = "answered" /\ work'[w].task = work[w].task /\ KeptBut({w})
    BY <1>2 DEF WorkIs, Alone
  <1>8. work'[w].out \in 1 .. Used(k)'
    <2>1. Used(k)' = Used(k) + 1 /\ Used(k) + 1 = work'[w].out
      BY <1>1, <1>4, SamePlan DEF Given, Grows
    <2>2. Used(k) \in Nat
      BY KeyFacts
    <2> QED BY <2>1, <2>2
  <1> QED BY <1>1, <1>2, <1>4, <1>5, <1>6, <1>7, <1>8, GoingOn

LEMMA FailsWorkers ==
    ASSUME TaskInv, NEW w \in Workers, Fails(w)
    PROVE  \A v \in Workers : WorkerOK(v)'
  <1>1. TypeOK /\ StoreInv' /\ Grows
    BY FailsStore DEF TaskInv
  <1>2. /\ At(w, "failing")
        /\ \/ /\ Again(w) /\ Alone(w)
              /\ WorkIs(w, "backoff", work[w].attempt + 1, 0, 0, "none")
           \/ Returned(w, 0, "budget")
           \/ Returned(w, 0, work[w].err)
    BY <1>1, FailsIs, Zenon
  <1>3. phase = "running" /\ work[w].pc = "failing" /\ work[w].pc \in Busy
    BY <1>2 DEF At, Busy
  <1>4. PICK k \in Keys : k = Key(w)
    BY <1>3, TaskFacts
  <1>5. Sound(work[w]) /\ reuse[k] = {} /\ work[w].err \in Errors /\ "budget" \in Errors
    BY <1>3, <1>4, TaskFacts DEF Errors
  <1>6. CASE Returned(w, 0, "budget")
    BY <1>1, <1>3, <1>5, <1>6, ReturnedOK
  <1>7. CASE Returned(w, 0, work[w].err)
    <2>1. PICK e \in Errors : e = work[w].err
      BY <1>5
    <2>2. e # "none"
      BY <1>3, <1>5, <2>1 DEF Sound
    <2> QED BY <1>1, <1>3, <1>7, <2>1, <2>2, ReturnedOK
  <1>8. CASE /\ Again(w) /\ Alone(w)
             /\ WorkIs(w, "backoff", work[w].attempt + 1, 0, 0, "none")
    <2>1. work[w].attempt + 1 > 0
      BY <1>1, WorkTypes DEF Worker
    <2>2. Sound(work'[w])
      BY <1>8, <2>1 DEF WorkIs, Sound, Places
    <2>3. work'[w].pc = "backoff" /\ KeptBut({w}) /\ w \in Steps
      BY <1>8 DEF WorkIs, Alone, Again
    <2> QED BY <1>1, <1>3, <1>4, <1>5, <2>2, <2>3, GoingOn
  <1> QED BY <1>2, <1>6, <1>7, <1>8

LEMMA WorksWorkers ==
    ASSUME TaskInv, NEW w \in Workers, Works(w)
    PROVE  \A v \in Workers : WorkerOK(v)'
  <1>1. TypeOK /\ StoreInv' /\ Grows /\ {"none", "canceled"} \subseteq Errors
    BY WorksStore DEF TaskInv, Errors
  <1>2. CASE GivesUp(w)
    <2>1. phase = "running" /\ work[w].pc = "take" /\ Returned(w, 0, "canceled")
      BY <1>1, <1>2, GivesUpIs DEF At
    <2> QED BY <1>1, <2>1, ReturnedOK
  <1>3. CASE Completes(w)
    <2>1. phase = "running" /\ work[w].pc = "answered" /\ Returned(w, work[w].out, "none")
      BY <1>1, <1>3, CompletesIs DEF At
    <2>2. work[w].pc \in Busy
      BY <2>1 DEF Busy
    <2>3. PICK o \in Nat : o = work[w].out /\ o \in 1 .. Used(Key(w))
      BY <2>1, <2>2, TaskFacts
    <2> QED BY <1>1, <2>1, <2>3, ReturnedOK
  <1>4. CASE BackoffEnds(w)
    <2>1. /\ phase = "running" /\ work[w].pc = "backoff"
          /\ \/ /\ Alone(w)
                /\ WorkIs(w, "create", work[w].attempt, work[w].task, work[w].out, work[w].err)
             \/ Returned(w, 0, "canceled")
      BY <1>1, <1>4, BackoffEndsIs DEF At
    <2>2. work[w].pc \in Busy
      BY <2>1 DEF Busy
    <2>3. PICK k \in Keys : k = Key(w)
      BY <2>2, TaskFacts
    <2>4. Sound(work[w]) /\ reuse[k] = {}
      BY <2>2, <2>3, TaskFacts
    <2>5. CASE Returned(w, 0, "canceled")
      BY <1>1, <2>1, <2>5, ReturnedOK
    <2>6. CASE /\ Alone(w)
               /\ WorkIs(w, "create", work[w].attempt, work[w].task, work[w].out, work[w].err)
      <3>1. Sound(work'[w])
        BY <2>1, <2>4, <2>6, Zenon DEF WorkIs, Sound, Places
      <3>2. work'[w].pc = "create" /\ KeptBut({w})
        BY <2>6 DEF WorkIs, Alone
      <3> QED BY <1>1, <2>1, <2>3, <2>4, <3>1, <3>2, GoingOn
    <2> QED BY <2>1, <2>5, <2>6
  <1> QED BY <1>2, <1>3, <1>4, TakesWorkers, CreatesWorkers, FailingWorkers, AnsweredWorkers,
             FailsWorkers DEF Works

(* A worker goes on, or returns.                                           *)
GoesAhead(w) ==
    /\ UNCHANGED <<results, failures, stageErr, verdict, phase>>
    /\ work'[w].pc \in Busy /\ \A i \in Steps \ {w} : work'[i] = work[i]

LEMMA WorksIs ==
    ASSUME TaskInv, NEW w \in Workers, Works(w)
    PROVE  /\ Statics /\ phase = "running" /\ work[w].pc \notin {"off", "done", "delegating"}
           /\ subAgents' \in Int /\ faults' \in 0 .. MaxFaults
           /\ work' \in [Workers -> Worker]
           /\ \/ GoesAhead(w)
              \/ \E out \in Nat : \E err \in Errors :
                    Returned(w, out, err) /\ (err # "none" => out = 0)
  <1>1. /\ TypeOK /\ WorkerOK(w) /\ plan \in Plans /\ work \in [Workers -> Worker]
        /\ subAgents \in Int /\ faults \in 0 .. MaxFaults
        /\ {"none", "canceled", "budget"} \subseteq Errors
    BY WorkTypes DEF TaskInv, TypeOK, Errors
  <1>2. Fault => faults' \in 0 .. MaxFaults
    BY <1>1, PlanFacts DEF Fault
  <1>3. subAgents + 1 \in Int /\ subAgents - 1 \in Int
    BY <1>1
  <1>4. ASSUME Alone(w), work'[w].pc \in Busy
        PROVE  GoesAhead(w) /\ work' \in [Workers -> Worker] /\ Statics
    BY <1>1, <1>4, WorkersAre DEF Alone, GoesAhead, KeptBut
  <1>5. ASSUME NEW out \in Nat, NEW err \in Errors, Returned(w, out, err)
        PROVE  work' \in [Workers -> Worker]
    BY <1>5 DEF Returned
  <1>6. CASE GivesUp(w)
    <2>1. /\ At(w, "take") /\ Statics /\ UNCHANGED <<subAgents, faults>>
          /\ Returned(w, 0, "canceled")
      BY <1>1, <1>6, GivesUpIs
    <2> QED BY <1>1, <1>5, <2>1 DEF At
  <1>7. CASE Takes(w)
    <2>1. /\ At(w, "take") /\ Statics /\ faults' = faults
          /\ \/ /\ \E i \in reuse[Key(w)] : Returned(w, tasks[Key(w)][i].out, "none")
                /\ subAgents' = subAgents
             \/ /\ Alone(w) /\ subAgents' \in {subAgents, subAgents + 1}
                /\ WorkIs(w, "create", work[w].attempt, work[w].task, work[w].out, work[w].err)
             \/ Returned(w, 0, "budget") /\ subAgents' = subAgents
      BY <1>1, <1>7, TakesIs, Zenon
    <2>2. PICK k \in Keys : k = Key(w)
      BY <1>1, <2>1, Moving DEF At
    <2>3. CASE Returned(w, 0, "budget") /\ subAgents' = subAgents
      BY <1>1, <1>5, <2>1, <2>3 DEF At
    <2>4. CASE /\ Alone(w) /\ subAgents' \in {subAgents, subAgents + 1}
               /\ WorkIs(w, "create", work[w].attempt, work[w].task, work[w].out, work[w].err)
      <3>1. work'[w].pc \in Busy
        BY <2>4 DEF WorkIs, Busy
      <3> QED BY <1>1, <1>3, <1>4, <2>1, <2>4, <3>1 DEF At
    <2>5. CASE /\ \E i \in reuse[k] : Returned(w, tasks[k][i].out, "none")
               /\ subAgents' = subAgents
      <3>1. PICK i \in reuse[k] : Returned(w, tasks[k][i].out, "none")
        BY <2>5
      <3>2. PICK o \in Nat : o = tasks[k][i].out
        BY KeyFacts DEF KeyOK
      <3>3. Returned(w, o, "none")
        BY <3>1, <3>2
      <3> QED BY <1>1, <1>5, <2>1, <2>5, <3>3 DEF At
    <2> QED BY <2>1, <2>2, <2>3, <2>4, <2>5
  <1>8. CASE Creates(w)
    <2>1. /\ At(w, "create") /\ Statics /\ UNCHANGED <<subAgents, faults>>
          /\ UNCHANGED <<results, failures, stageErr, verdict, phase>>
          /\ work' \in [Workers -> Worker]
          /\ \/ /\ w \in Steps /\ KeptBut({w, Child(w)}) /\ work'[w].pc = "delegating"
             \/ KeptBut({w}) /\ work'[w].pc = "ask"
      BY <1>1, <1>8, CreatesIs DEF WorkIs
    <2>2. \A i \in Steps \ {w} : work'[i] = work[i]
      BY <1>1, <2>1, WorkersAre DEF KeptBut
    <2>3. GoesAhead(w)
      BY <2>1, <2>2 DEF GoesAhead, Busy
    <2> QED BY <1>1, <2>1, <2>3 DEF At
  <1>9. CASE CreateFails(w)
    <2>1. /\ At(w, "create") /\ Alone(w) /\ subAgents' = subAgents - 1
          /\ work'[w].pc = "failing" /\ (faults' = faults \/ Fault)
      BY <1>1, <1>9, CreateFailsIs DEF WorkIs
    <2> QED BY <1>1, <1>2, <1>3, <1>4, <2>1 DEF At, Busy
  <1>10. CASE Asks(w)
    <2>1. /\ At(w, "ask") /\ Alone(w) /\ subAgents' = subAgents
          /\ work'[w].pc = "answered" /\ (faults' = faults \/ Fault)
      BY <1>1, <1>10, AsksIs DEF WorkIs
    <2> QED BY <1>1, <1>2, <1>3, <1>4, <2>1 DEF At, Busy
  <1>11. CASE Chat(w)
    <2>1. /\ At(w, "ask") /\ Alone(w) /\ subAgents' = subAgents
          /\ work'[w].pc = "answered" /\ faults' = faults
      BY <1>1, <1>11, ChatIs DEF WorkIs
    <2> QED BY <1>1, <1>2, <1>3, <1>4, <2>1 DEF At, Busy
  <1>12. CASE AskFails(w)
    <2>1. /\ At(w, "ask") /\ Alone(w) /\ subAgents' = subAgents
          /\ work'[w].pc = "failing" /\ (faults' = faults \/ Fault)
      BY <1>1, <1>12, AskFailsIs DEF WorkIs
    <2> QED BY <1>1, <1>2, <1>3, <1>4, <2>1 DEF At, Busy
  <1>13. CASE Completes(w)
    <2>1. /\ At(w, "answered") /\ Statics /\ subAgents' = subAgents
          /\ Returned(w, work[w].out, "none") /\ (faults' = faults \/ Fault)
      BY <1>1, <1>13, CompletesIs
    <2>2. PICK o \in Nat : o = work[w].out
      BY <1>1 DEF Worker
    <2> QED BY <1>1, <1>2, <1>5, <2>1, <2>2 DEF At
  <1>14. CASE Rejects(w)
    <2>1. /\ At(w, "answered") /\ Alone(w) /\ subAgents' = subAgents
          /\ work'[w].pc = "failing" /\ faults' = faults
      BY <1>1, <1>14, RejectsIs DEF WorkIs
    <2> QED BY <1>1, <1>2, <1>3, <1>4, <2>1 DEF At, Busy
  <1>15. CASE Fails(w)
    <2>1. /\ At(w, "failing") /\ Statics /\ (faults' = faults \/ Fault)
          /\ \/ Alone(w) /\ work'[w].pc = "backoff" /\ subAgents' = subAgents + 1
             \/ Returned(w, 0, "budget") /\ subAgents' = subAgents
             \/ Returned(w, 0, work[w].err) /\ subAgents' = subAgents
      BY <1>1, <1>15, FailsIs, Zenon DEF WorkIs
    <2>2. PICK e \in Errors : e = work[w].err
      BY <1>1 DEF Worker
    <2>3. CASE Alone(w) /\ work'[w].pc = "backoff" /\ subAgents' = subAgents + 1
      BY <1>1, <1>2, <1>3, <1>4, <2>1, <2>3 DEF At, Busy
    <2> QED BY <1>1, <1>2, <1>5, <2>1, <2>2, <2>3 DEF At
  <1>16. CASE BackoffEnds(w)
    <2>1. /\ At(w, "backoff") /\ Statics /\ faults' = faults
          /\ \/ Alone(w) /\ work'[w].pc = "create" /\ subAgents' = subAgents
             \/ Returned(w, 0, "canceled") /\ subAgents' = subAgents - 1
      BY <1>1, <1>16, BackoffEndsIs DEF WorkIs
    <2>3. CASE Alone(w) /\ work'[w].pc = "create" /\ subAgents' = subAgents
      BY <1>1, <1>3, <1>4, <2>1, <2>3 DEF At, Busy
    <2> QED BY <1>1, <1>3, <1>5, <2>1, <2>3 DEF At
  <1> QED BY <1>6, <1>7, <1>8, <1>9, <1>10, <1>11, <1>12, <1>13, <1>14, <1>15, <1>16 DEF Works

LEMMA OrderStep ==
    ASSUME TaskInv, NEW w \in Workers, Works(w)
    PROVE  InOrder'
  <1>1. /\ Statics /\ phase = "running" /\ work[w].pc \notin {"off", "done", "delegating"}
        /\ \/ GoesAhead(w)
           \/ \E out \in Nat : \E err \in Errors : Returned(w, out, err)
    BY WorksIs
  <1>2. /\ plan \in Plans /\ plan' = plan /\ Steps' = Steps /\ WorkerOK(w)
        /\ Steps \subseteq Workers /\ Steps \subseteq Int
    BY <1>1, SamePlan, WorkersAre DEF TaskInv, TypeOK, Statics
  <1> SUFFICES ASSUME phase' = "running", plan.kind = "sequential"
               PROVE  \E c \in Steps :
                          /\ \A i \in Steps : i < c => Done(i)' /\ work'[i].err = "none"
                          /\ work'[c].pc \notin {"off", "done"}
                          /\ \A i \in Steps : i > c => work'[i].pc = "off"
    BY <1>2 DEF InOrder
  <1>3. CASE w \in Steps
    <2>1. /\ \A i \in Steps : i < w => Done(i) /\ work[i].err = "none"
          /\ \A i \in Steps : i > w => work[i].pc = "off"
      BY <1>1, <1>3, OrderIs
    <2>2. CASE GoesAhead(w)
      <3>1. work'[w].pc \notin {"off", "done"} /\ \A i \in Steps : i # w => work'[i] = work[i]
        BY <2>2 DEF GoesAhead, Busy
      <3>2. \A i \in Steps : (i < w => i # w) /\ (i > w => i # w)
        BY <1>2, <1>3
      <3>3. \A i \in Steps : i < w => Done(i)' /\ work'[i].err = "none"
        BY <2>1, <3>1, <3>2 DEF Done
      <3>4. \A i \in Steps : i > w => work'[i].pc = "off"
        BY <2>1, <3>1, <3>2
      <3> QED BY <1>3, <3>1, <3>3, <3>4, Zenon
    <2>3. ASSUME NEW out \in Nat, NEW err \in Errors, Returned(w, out, err)
          PROVE  \E c \in Steps :
                    /\ \A i \in Steps : i < c => Done(i)' /\ work'[i].err = "none"
                    /\ work'[c].pc \notin {"off", "done"}
                    /\ \A i \in Steps : i > c => work'[i].pc = "off"
      <3>1. ToNext(w, err)
        <4>1. ~ToParent(w, err) /\ ~ToChannel(w)
          BY <1>3, <2>3 DEF ToParent, ToChannel
        <4>2. ~ToEnd(w, err)
          BY <1>1 DEF ToEnd, Ends
        <4> QED BY <2>3, <4>1, <4>2 DEF Returned
      <3>2. PICK n \in Steps : n = w + 1
        BY <3>1 DEF ToNext
      <3>3. /\ work'[n].pc = "take" /\ work'[w].pc = "done" /\ work'[w].err = "none"
            /\ \A i \in Steps : i # w /\ i # n => work'[i] = work[i]
        BY <1>2, <2>3, <3>1, <3>2 DEF ToNext, WorkIs, KeptBut, Returned
      <3>4. \A i \in Steps : /\ i < n => i < w \/ i = w
                             /\ i > n => i > w /\ i # w /\ i # n
                             /\ i < n => i # n
                             /\ i < w => i # w
        BY <1>2, <1>3, <3>2
      <3> QED BY <2>1, <3>3, <3>4 DEF Done
    <2> QED BY <1>1, <2>2, <2>3
  <1>4. CASE w \notin Steps
    <2>1. PICK p \in Steps : p = Parent(w) /\ work[p].pc = "delegating"
      BY <1>1, <1>2, <1>4, WorkersAre DEF WorkerOK
    <2>2. /\ \A i \in Steps : i < p => Done(i) /\ work[i].err = "none"
          /\ \A i \in Steps : i > p => work[i].pc = "off"
      BY <1>1, <2>1, OrderIs
    <2>3. work'[p].pc \notin {"off", "done"} /\ \A i \in Steps : i # p => work'[i] = work[i]
      <3>1. CASE GoesAhead(w)
        BY <1>4, <2>1, <3>1 DEF GoesAhead
      <3>2. ASSUME NEW out \in Nat, NEW err \in Errors, Returned(w, out, err)
            PROVE  work'[p].pc \notin {"off", "done"} /\ \A i \in Steps : i # p => work'[i] = work[i]
        <4>1. ToParent(w, err)
          BY <1>4, <3>2 DEF Returned, ToChannel, ToNext, ToEnd
        <4>2. work'[p].pc \in {"ask", "failing"} /\ KeptBut({w, p})
          BY <2>1, <4>1 DEF ToParent, WorkIs
        <4> QED BY <1>2, <1>4, <4>2 DEF KeptBut
      <3> QED BY <1>1, <3>1, <3>2
    <2>4. \A i \in Steps : i < p => i # p
      BY <1>2
    <2>5. \A i \in Steps : i > p => i # p
      BY <1>2
    <2> QED BY <2>2, <2>3, <2>4, <2>5 DEF Done
  <1> QED BY <1>3, <1>4

LEMMA WorksTasks ==
    ASSUME TaskInv, NEW w \in Workers, Works(w)
    PROVE  TaskInv'
  <1>1. /\ Statics /\ phase = "running" /\ subAgents' \in Int /\ faults' \in 0 .. MaxFaults
        /\ work' \in [Workers -> Worker]
        /\ \/ GoesAhead(w)
           \/ \E out \in Nat : \E err \in Errors : Returned(w, out, err)
    BY WorksIs
  <1>2. PlainOK /\ plan' = plan /\ Workers' = Workers
    BY <1>1, TypeParts, SamePlan DEF TaskInv, Statics
  <1>3. PICK err \in Errors :
            \/ UNCHANGED <<results, failures, stageErr, verdict, phase>>
            \/ \E out \in Nat : Returned(w, out, err)
    <2>1. CASE GoesAhead(w)
      <3>1. "none" \in Errors /\ UNCHANGED <<results, failures, stageErr, verdict, phase>>
        BY <2>1 DEF GoesAhead, Errors
      <3> QED BY <3>1, Zenon
    <2> QED BY <1>1, <2>1, Zenon
  <1>4. PlainOK'
    BY <1>1, <1>2, <1>3, ReturnedTypes
  <1>5. StoreInv' /\ Grows /\ (\A v \in Workers : WorkerOK(v)') /\ InOrder'
    BY WorksStore, WorksWorkers, OrderStep
  <1>6. TypeOK'
    BY <1>1, <1>2, <1>4, <1>5, TypePartsNext DEF StoreInv
  <1>7. NotStarted'
    <2>1. phase' \notin {"gate", "starting"}
      <3>1. CASE GoesAhead(w)
        BY <1>1, <3>1 DEF GoesAhead
      <3>2. ASSUME NEW out \in Nat, NEW e \in Errors, Returned(w, out, e)
            PROVE  phase' \notin {"gate", "starting"}
        BY <1>1, <3>2 DEF Returned, ToParent, ToChannel, ToNext, ToEnd, Ends
      <3> QED BY <1>1, <3>1, <3>2
    <2> QED BY <2>1 DEF NotStarted
  <1> QED BY <1>2, <1>5, <1>6, <1>7, Zenon DEF TaskInv, StoreInv

-----------------------------------------------------------------------------
(* The other actions.                                                      *)

LEMMA StepSets ==
    ASSUME plan \in Plans, NEW S \in SUBSET Steps
    PROVE  IsFiniteSet(S) /\ Cardinality(S) \in 0 .. Size /\ Cardinality(Steps) = Size
           /\ IsFiniteSet(Steps)
  <1>1. Steps = 1 .. Size /\ Size \in Nat \ {0}
    BY WorkersAre
  <1>2. IsFiniteSet(Steps) /\ Cardinality(Steps) = Size
    BY <1>1, FS_Interval
  <1>3. IsFiniteSet(S) /\ Cardinality(S) <= Cardinality(Steps)
    BY <1>2, FS_Subset
  <1>4. Cardinality(S) \in Nat
    BY <1>3, FS_CardinalityType
  <1> QED BY <1>1, <1>2, <1>3, <1>4

LEMMA LeastIn ==
    ASSUME NEW T \in SUBSET Nat, T # {}
    PROVE  /\ (CHOOSE i \in T : \A j \in T : i <= j) \in T
           /\ \A j \in T : (CHOOSE i \in T : \A l \in T : i <= l) <= j
  <1> DEFINE R == {ss \in Nat \X Nat : ss[1] < ss[2]}
  <1>1. PICK n \in T : \A k \in T : ~(<<k, n>> \in R)
    <2>1. R = OpToRel(<, Nat)
      BY Zenon DEF OpToRel
    <2>2. IsWellFoundedOn(R, Nat)
      BY <2>1, NatLessThanWellFounded, Zenon
    <2> HIDE DEF R
    <2> QED BY <2>2, WFMin, Zenon
  <1>2. \A k \in T : n <= k
    <2>1. \A k \in T : ~(k < n)
      BY <1>1
    <2> QED BY <2>1
  <1> QED BY <1>2, Zenon

LEMMA OffOK ==
    ASSUME plan' = plan, NEW v \in Workers, work'[v] = Off
    PROVE  WorkerOK(v)' /\ Sound(Off)
  <1>1. Off.pc = "off" /\ Off.attempt = 1 /\ Off.task = 0 /\ Off.out = 0 /\ Off.err = "none"
    BY OffIs
  <1> HIDE DEF Off
  <1>2. Sound(Off)
    BY <1>1 DEF Sound, Places
  <1>3. ~Held(v)'
    BY <1>1 DEF Held, Done
  <1> QED BY <1>1, <1>2, <1>3 DEF WorkerOK, Busy

LEMMA TakeIs ==
    LET r == [Off EXCEPT !.pc = "take"]
    IN  /\ r \in Worker /\ Sound(r) /\ r.pc = "take" /\ r.attempt = 1 /\ r.task = 0
        /\ r.out = 0 /\ r.err = "none"
  <1> DEFINE r == PutPc(Off, "take")
  <1>1. [Off EXCEPT !.pc = "take"] = r
    BY Zenon DEF PutPc
  <1>2. "take" \in Places
    BY DEF Places
  <1>3. /\ r \in Worker /\ r.pc = "take" /\ r.attempt = 1 /\ r.task = 0
        /\ r.out = 0 /\ r.err = "none"
    BY <1>2, OffIs, PutFields
  <1> HIDE DEF r
  <1>4. Sound(r)
    BY <1>3 DEF Sound, Places
  <1> QED BY <1>1, <1>3, <1>4, Zenon

(* A step about to take an output.                                         *)
LEMMA TakeOK ==
    ASSUME plan \in Plans, plan' = plan, NEW v \in Steps,
           Sound(work'[v]), work'[v].pc = "take"
    PROVE  WorkerOK(v)'
  <1>1. Key(v)' \in Keys /\ Steps' = Steps
    BY SamePlan, WorkersAre
  <1>2. ~Held(v)'
    BY DEF Held, Done
  <1> QED BY <1>1, <1>2 DEF WorkerOK, Busy

LEMMA SameWork ==
    ASSUME TaskInv, UNCHANGED <<plan, copying, tasks, log, answers, reuse, work>>
    PROVE  StoreInv' /\ (\A v \in Workers : WorkerOK(v)') /\ work' \in [Workers -> Worker]
  <1>1. StoreInv' /\ Grows
    BY StoreSame
  <1>2. ASSUME NEW v \in Workers
        PROVE  WorkerOK(v)'
    <2>1. TypeOK /\ WorkerOK(v)
      BY DEF TaskInv
    <2>2. v \notin Steps /\ work[v].pc \notin {"off", "done"} => work'[Parent(v)].pc = "delegating"
      BY <2>1 DEF WorkerOK
    <2> QED BY <1>1, <2>1, <2>2, KeepsOK
  <1> QED BY <1>1, <1>2, WorkTypes DEF TaskInv

LEMMA GateTasks ==
    ASSUME TaskInv, stageGate
    PROVE  TaskInv'
  <1>1. /\ UNCHANGED <<plan, copying, tasks, log, answers, reuse, work, context, canceled,
                       subAgents, results, failures, stageErr, faults, resumes, disturbed>>
        /\ \/ phase = "gate" /\ phase' = "starting" /\ verdict' = verdict
           \/ phase' = "over" /\ verdict' \in {verdict, "refused"}
    BY DEF stageGate, stored, history
  <1>2. PlainOK /\ Workers' = Workers /\ NotStarted
    BY <1>1, TypeParts, SamePlan DEF TaskInv
  <1>3. PlainOK'
    <2>1. phase' \in Phases /\ verdict' \in Verdicts
      BY <1>1, <1>2 DEF PlainOK, Phases, Verdicts
    <2> QED BY <1>1, <1>2, <2>1, SamePlan DEF PlainOK
  <1>4. StoreInv' /\ (\A v \in Workers : WorkerOK(v)') /\ work' \in [Workers -> Worker]
    BY <1>1, SameWork
  <1>5. TypeOK'
    BY <1>1, <1>3, <1>4, TypePartsNext DEF StoreInv
  <1>6. InOrder'
    BY <1>1 DEF InOrder
  <1>7. NotStarted'
    BY <1>1, <1>2 DEF NotStarted
  <1> QED BY <1>2, <1>4, <1>5, <1>6, <1>7, Zenon DEF TaskInv, StoreInv

LEMMA StartsTasks ==
    ASSUME TaskInv, StartsParallel
    PROVE  TaskInv'
  <1>1. /\ UNCHANGED <<plan, copying, tasks, log, answers, reuse, context, canceled,
                       faults, resumes, disturbed, results, failures, stageErr>>
        /\ phase = "starting" /\ plan.kind = "parallel"
        /\ \/ /\ phase' = "over" /\ verdict' = "budget" /\ UNCHANGED <<subAgents, work>>
           \/ /\ subAgents' = subAgents + toRun /\ phase' = "running" /\ verdict' = verdict
              /\ work' = [w \in Workers |-> IF w \in Steps THEN [Off EXCEPT !.pc = "take"]
                                            ELSE Off]
    BY DEF StartsParallel, Ends, stored, history, collector
  <1>2. /\ PlainOK /\ Workers' = Workers /\ Steps' = Steps /\ plan \in Plans
        /\ Steps \subseteq Workers /\ work \in [Workers -> Worker]
    BY <1>1, TypeParts, SamePlan, WorkersAre DEF TaskInv, PlainOK
  <1>3. StoreInv' /\ Grows
    BY <1>1, StoreSame
  <1>4. InOrder' /\ NotStarted'
    BY <1>1 DEF InOrder, NotStarted
  <1>5. (\A v \in Workers : WorkerOK(v)') /\ work' \in [Workers -> Worker]
    <2>1. CASE UNCHANGED work
      BY <1>1, <2>1, SameWork
    <2>2. CASE work' = [w \in Workers |-> IF w \in Steps THEN [Off EXCEPT !.pc = "take"] ELSE Off]
      <3> DEFINE r == [Off EXCEPT !.pc = "take"]
      <3>1. r \in Worker /\ Sound(r) /\ r.pc = "take" /\ Off \in Worker
        BY TakeIs, OffIs
      <3> HIDE DEF r
      <3>2. work' = [w \in Workers |-> IF w \in Steps THEN r ELSE Off]
        BY <2>2 DEF r
      <3> HIDE DEF Off
      <3>3. work' \in [Workers -> Worker] /\ \A v \in Workers : work'[v] = IF v \in Steps THEN r ELSE Off
        BY <3>1, <3>2
      <3>4. \A v \in Steps : WorkerOK(v)'
        BY <1>1, <1>2, <3>1, <3>3, TakeOK
      <3>5. \A v \in Workers \ Steps : WorkerOK(v)'
        BY <1>1, <3>3, OffOK
      <3> QED BY <3>3, <3>4, <3>5
    <2> QED BY <1>1, <2>1, <2>2
  <1>6. PlainOK'
    <2>1. subAgents' \in Int
      <3>1. PICK S \in SUBSET Steps : toRun = Cardinality(S)
        BY DEF toRun
      <3>2. toRun \in Int
        BY <1>2, <3>1, StepSets, WorkersAre
      <3> QED BY <1>1, <1>2, <3>2 DEF PlainOK
    <2>2. phase' \in Phases /\ verdict' \in Verdicts
      BY <1>1, <1>2 DEF PlainOK, Phases, Verdicts, Errors
    <2> QED BY <1>1, <1>2, <2>1, <2>2, SamePlan DEF PlainOK
  <1>7. TypeOK'
    BY <1>1, <1>3, <1>5, <1>6, TypePartsNext DEF StoreInv
  <1> QED BY <1>2, <1>3, <1>4, <1>5, <1>7, Zenon DEF TaskInv, StoreInv

LEMMA StartsOrder ==
    ASSUME TaskInv, StartsSequential
    PROVE  TaskInv'
  <1>1. /\ UNCHANGED <<plan, copying, tasks, log, answers, reuse, context, canceled, subAgents,
                       faults, resumes, disturbed, results, failures, stageErr, verdict>>
        /\ phase = "starting" /\ phase' = "running" /\ work' = [work EXCEPT ![1].pc = "take"]
    BY DEF StartsSequential, stored, history, collector
  <1>2. /\ PlainOK /\ Workers' = Workers /\ Steps' = Steps /\ plan \in Plans
        /\ Steps \subseteq Workers /\ 1 \in Steps /\ Steps = 1 .. Size /\ Size \in Nat
        /\ work \in [Workers -> Worker] /\ \A w \in Workers : work[w] = Off
    BY <1>1, TypeParts, SamePlan, WorkersAre DEF TaskInv, PlainOK, NotStarted
  <1>3. StoreInv' /\ Grows
    BY <1>1, StoreSame
  <1>4. /\ work' \in [Workers -> Worker] /\ \A v \in Workers \ {1} : work'[v] = Off
        /\ work'[1] = [Off EXCEPT !.pc = "take"]
    <2>1. work' = [work EXCEPT ![1] = PutPc(work[1], "take")]
      BY <1>1, Zenon DEF PutPc
    <2>2. [Off EXCEPT !.pc = "take"] = PutPc(Off, "take") /\ work[1] = Off
      BY <1>2, Zenon DEF PutPc
    <2> DEFINE r == PutPc(work[1], "take")
    <2>3. r \in Worker
      BY <2>2, TakeIs, Zenon
    <2> HIDE DEF r
    <2>4. work' = [work EXCEPT ![1] = r]
      BY <2>1 DEF r
    <2> HIDE DEF Off
    <2>5. work' \in [Workers -> Worker] /\ work'[1] = r /\ \A v \in Workers \ {1} : work'[v] = work[v]
      BY <1>2, <2>3, <2>4
    <2>6. r = [Off EXCEPT !.pc = "take"]
      BY <2>2, Zenon DEF r
    <2> QED BY <1>2, <2>5, <2>6, Zenon
  <1>5. \A v \in Workers : WorkerOK(v)'
    <2>1. Sound(work'[1]) /\ work'[1].pc = "take"
      BY <1>4, TakeIs, Zenon
    <2>2. WorkerOK(1)'
      BY <1>1, <1>2, <2>1, TakeOK
    <2>3. \A v \in Workers \ {1} : WorkerOK(v)'
      BY <1>1, <1>4, OffOK
    <2> QED BY <2>2, <2>3
  <1>6. InOrder'
    <2>1. /\ \A i \in Steps : i < 1 => Done(i)' /\ work'[i].err = "none"
          /\ work'[1].pc \notin {"off", "done"}
      <3>1. work'[1].pc = "take" /\ \A i \in Steps : ~(i < 1)
        <4>1. \A i \in Steps : ~(i < 1)
          BY <1>2
        <4>2. work'[1].pc = "take"
          BY <1>4, TakeIs, Zenon
        <4> QED BY <4>1, <4>2
      <3> QED BY <3>1
    <2>2. \A i \in Steps : i > 1 => work'[i].pc = "off"
      <3>1. \A i \in Steps : i > 1 => work'[i] = Off
        BY <1>2, <1>4
      <3> QED BY <3>1, OffIs
    <2> QED BY <1>2, <2>1, <2>2 DEF InOrder
  <1>7. PlainOK'
    <2>1. phase' \in Phases
      BY <1>1 DEF Phases
    <2> QED BY <1>1, <1>2, <2>1, SamePlan DEF PlainOK
  <1>8. TypeOK'
    BY <1>1, <1>3, <1>4, <1>7, TypePartsNext DEF StoreInv
  <1>9. NotStarted'
    BY <1>1 DEF NotStarted
  <1> QED BY <1>2, <1>3, <1>5, <1>6, <1>8, <1>9, Zenon DEF TaskInv, StoreInv

(* The first result in the channel is of a step done, not counted yet.     *)
LEMMA NextResult ==
    ASSUME TaskInv, ChannelOK, results # <<>>
    PROVE  /\ plan.kind = "parallel" /\ Len(results) \in Nat \ {0}
           /\ Head(results) = results[1] /\ results[1] \in Steps /\ Done(results[1])
           /\ results \in Seq(Steps) /\ Tail(results) \in Seq(Steps)
           /\ Len(Tail(results)) = Len(results) - 1
           /\ \A i \in 1 .. Len(results) - 1 : Tail(results)[i] = results[i + 1]
           /\ results[1] \in InChannel /\ results[1] \notin Counted
           /\ InChannel \subseteq Steps
  <1>1. results \in Seq(Steps) /\ plan \in Plans
    BY DEF TaskInv, TypeOK
  <1>2. Len(results) \in Nat \ {0} /\ Head(results) = results[1]
        /\ \A i \in 1 .. Len(results) : results[i] \in Steps
    BY <1>1
  <1>3. plan.kind = "parallel"
    BY <1>1, PlanFacts DEF ChannelOK
  <1>4. results[1] \in InChannel /\ InChannel \subseteq Steps
    BY <1>2 DEF InChannel
  <1> QED BY <1>1, <1>2, <1>3, <1>4, TailFacts DEF ChannelOK, Counted

LEMMA CountedBelow ==
    ASSUME TaskInv, ChannelOK, GoesOn, results # <<>>, stageErr = "none"
    PROVE  failures + 1 \in 0 .. Size /\ IsFiniteSet(Counted)
  <1>1. plan \in Plans /\ plan.kind = "parallel" /\ Size \in Nat
    BY NextResult, WorkersAre DEF TaskInv, TypeOK
  <1>2. PICK h : h \in Steps /\ h \notin Counted
    BY NextResult
  <1>3. failures = Cardinality(Counted)
    BY <1>1 DEF GoesOn
  <1>4. Counted \in SUBSET Steps /\ Counted \cup {h} \in SUBSET Steps
    BY <1>2 DEF Counted, Lost
  <1>5. IsFiniteSet(Counted) /\ Cardinality(Counted) \in Nat
    BY <1>1, <1>4, StepSets
  <1>6. Cardinality(Counted \cup {h}) = Cardinality(Counted) + 1
    BY <1>2, <1>5, FS_AddElement
  <1>7. Cardinality(Counted \cup {h}) \in 0 .. Size
    BY <1>1, <1>4, StepSets
  <1> QED BY <1>1, <1>3, <1>5, <1>6, <1>7

(* The stage stops running, or goes on with the same workers.              *)
LEMMA CollectorTasks ==
    ASSUME TaskInv, ChannelOK, GoesOn, Collects \/ Finishes \/ ContextEnds \/ Crashes
    PROVE  TaskInv'
  <1>1. /\ UNCHANGED <<plan, copying, tasks, log, answers, reuse, work, subAgents, resumes>>
        /\ phase' \in {phase, "review", "over", "down"}
        /\ phase' \in {"gate", "starting"} => UNCHANGED <<results, failures, stageErr, canceled>>
    BY DEF Collects, Finishes, ContextEnds, Crashes, Ends, stored, history, collector
  <1>2. PlainOK /\ Workers' = Workers /\ Steps' = Steps /\ plan \in Plans
    BY <1>1, TypeParts, SamePlan DEF TaskInv, PlainOK
  <1>3. StoreInv' /\ (\A v \in Workers : WorkerOK(v)') /\ work' \in [Workers -> Worker]
    BY <1>1, SameWork
  <1>4. InOrder'
    BY <1>1, <1>2 DEF TaskInv, InOrder, Done
  <1>5. NotStarted'
    BY <1>1, <1>2 DEF TaskInv, NotStarted
  <1>6. PlainOK'
    <2>1. CASE Collects
      <3>1. /\ UNCHANGED <<plan, copying, phase, context, subAgents, resumes, faults, disturbed,
                           verdict>>
            /\ results # <<>> /\ results' = Tail(results)
        BY <2>1 DEF Collects, history
      <3>2. results' \in Seq(Steps) /\ Head(results) \in Steps
        <4>1. results \in Seq(Steps)
          BY <1>2 DEF PlainOK
        <4>2. Len(results) > 0 /\ Head(results) = results[1] /\ results[1] \in Steps
          BY <3>1, <4>1
        <4> QED BY <3>1, <4>1, <4>2, TailFacts
      <3>3. work[Head(results)].err \in Errors
        <4>1. Head(results) \in Workers /\ work \in [Workers -> Worker]
          BY <1>2, <3>2, WorkersAre, WorkTypes DEF TaskInv
        <4> QED BY <4>1 DEF Worker
      <3>4. failures' \in {failures, failures + 1} /\ stageErr' \in Errors /\ canceled' \in BOOLEAN
        BY <1>2, <2>1, <3>3 DEF Collects, PlainOK
      <3>5. failures' \in 0 .. Size
        BY <1>2, <2>1, CountedBelow, <3>4 DEF Collects, TaskInv, PlainOK
      <3> QED BY <1>1, <1>2, <3>1, <3>2, <3>4, <3>5, SamePlan DEF PlainOK
    <2>2. CASE Finishes
      <3>1. /\ UNCHANGED <<plan, copying, context, canceled, subAgents, resumes, faults, disturbed,
                           results, failures, stageErr>>
            /\ phase' \in Phases
        BY <2>2 DEF Finishes, Ends, Phases, history
      <3>2. firstErr \in Errors
        <4> DEFINE failed == {i \in Steps : work[i].err # "none"}
        <4>1. CASE failed = {}
          BY <4>1 DEF firstErr, Errors
        <4>2. CASE failed # {}
          <5>1. (CHOOSE i \in failed : \A j \in failed : i <= j) \in failed
            <6>1. failed \in SUBSET Nat
              BY <1>2, WorkersAre
            <6> HIDE DEF failed
            <6> QED BY <4>2, <6>1, LeastIn
          <5>2. \A i \in Steps : work[i].err \in Errors
            <6>1. Steps \subseteq Workers /\ work \in [Workers -> Worker]
              BY <1>2, WorkersAre, WorkTypes DEF TaskInv
            <6> QED BY <6>1 DEF Worker
          <5> QED BY <4>2, <5>1, <5>2 DEF firstErr
        <4> QED BY <4>1, <4>2
      <3>3. verdict' \in Verdicts
        BY <1>2, <2>2, <3>2 DEF Finishes, Ends, Verdicts, PlainOK, Errors
      <3> QED BY <1>2, <3>1, <3>3, SamePlan DEF PlainOK
    <2>3. CASE ContextEnds
      <3>1. faults' \in 0 .. MaxFaults
        BY <1>2, <2>3, PlanFacts DEF ContextEnds, Fault, PlainOK
      <3> QED BY <1>2, <2>3, <3>1, SamePlan DEF ContextEnds, PlainOK, collector
    <2>4. CASE Crashes
      <3>1. phase' \in Phases /\ UNCHANGED <<plan, copying, context, canceled, subAgents, resumes,
                                             faults, disturbed, results, failures, stageErr, verdict>>
        BY <2>4 DEF Crashes, Phases, collector, history
      <3> QED BY <1>2, <3>1, SamePlan DEF PlainOK
    <2> QED BY <2>1, <2>2, <2>3, <2>4
  <1>7. TypeOK'
    BY <1>1, <1>3, <1>6, TypePartsNext DEF StoreInv
  <1> QED BY <1>2, <1>3, <1>4, <1>5, <1>7, Zenon DEF TaskInv, StoreInv

(* A process starts the run afresh.                                        *)
LEMMA FreshTasks ==
    ASSUME TaskInv, plan' = plan, copying' \in BOOLEAN, Fresh, StoreInv',
           subAgents' \in Int, resumes' \in 0 .. MaxResumes, faults' = faults,
           disturbed' \in BOOLEAN
    PROVE  TaskInv'
  <1>1. /\ context' = "live" /\ canceled' = FALSE /\ work' = [w \in Workers |-> Off]
        /\ results' = <<>> /\ failures' = 0 /\ stageErr' = "none" /\ verdict' = "none"
        /\ phase' \in {"gate", "starting"}
    BY DEF Fresh, Entry
  <1>2. /\ PlainOK /\ Workers' = Workers /\ Steps' = Steps /\ Size' = Size /\ Size \in Nat
    BY TypeParts, SamePlan, WorkersAre DEF TaskInv, PlainOK
  <1>3. work' \in [Workers -> Worker] /\ \A v \in Workers : work'[v] = Off
    BY <1>1, OffIs
  <1>4. \A v \in Workers : WorkerOK(v)'
    BY <1>3, OffOK
  <1>5. PlainOK'
    <2>1. results' \in Seq(Steps') /\ failures' \in 0 .. Size'
      BY <1>1, <1>2
    <2>2. phase' \in Phases /\ stageErr' \in Errors /\ verdict' \in Verdicts
      BY <1>1 DEF Phases, Errors, Verdicts
    <2> QED BY <1>1, <1>2, <2>1, <2>2 DEF PlainOK
  <1>6. TypeOK'
    BY <1>3, <1>5, TypePartsNext DEF StoreInv
  <1>7. InOrder' /\ NotStarted'
    BY <1>1, <1>2 DEF InOrder, NotStarted
  <1> QED BY <1>2, <1>4, <1>6, <1>7, Zenon DEF TaskInv, StoreInv

LEMMA ResumesStore ==
    ASSUME TaskInv, Resumes
    PROVE  /\ StoreInv'
           /\ \A k \in Keys : /\ Completed(k)' = Completed(k) /\ reuse'[k] = Completed(k)
                              /\ \A i \in Completed(k) : tasks'[k][i] = tasks[k][i]
                              /\ Len(tasks'[k]) = Len(tasks[k]) /\ Used(k)' = Used(k)
  <1>1. /\ UNCHANGED <<plan, copying, log, answers>>
        /\ reuse' = [k \in Keys |-> Completed(k)] /\ tasks' = [k \in Keys |-> Interrupted(k)]
    BY DEF Resumes, reconcileTasks
  <1>2. DOMAIN tasks' = Keys /\ DOMAIN reuse' = Keys
    BY <1>1
  <1>3. ASSUME NEW k \in Keys
        PROVE  /\ KeyTypes(k)' /\ KeyOK(k)' /\ Completed(k)' = Completed(k)
               /\ reuse'[k] = Completed(k)
               /\ \A i \in Completed(k) : tasks'[k][i] = tasks[k][i]
               /\ Len(tasks'[k]) = Len(tasks[k]) /\ Used(k)' = Used(k)
    <2>1. tasks'[k] = Interrupted(k) /\ reuse'[k] = Completed(k)
      BY <1>1
    <2> DEFINE n == Len(tasks[k])
               r == [status |-> "failed", out |-> 0]
    <2>2. n \in Nat /\ DOMAIN tasks[k] = 1 .. n /\ \A i \in 1 .. n : tasks[k][i] \in TaskRecord
      BY StoredTypes DEF TaskInv
    <2>3. r \in TaskRecord /\ r.status = "failed"
      BY DEF TaskRecord
    <2>4. tasks'[k] = [i \in 1 .. n |-> IF tasks[k][i].status = "running" THEN r ELSE tasks[k][i]]
      BY <2>1, <2>2 DEF Interrupted
    <2> HIDE DEF n, r
    <2>5. /\ \A i \in 1 .. n :
                tasks'[k][i] = IF tasks[k][i].status = "running" THEN r ELSE tasks[k][i]
          /\ tasks'[k] \in [1 .. n -> TaskRecord] /\ DOMAIN tasks'[k] = 1 .. n
      BY <2>2, <2>3, <2>4
    <2>6. tasks'[k] \in Seq(TaskRecord) /\ Len(tasks'[k]) = n
      BY <2>2, <2>5
    <2>7. Completed(k) = {i \in 1 .. n : tasks[k][i].status = "completed"}
      BY <2>2 DEF Completed
    <2>8. Completed(k)' = {i \in 1 .. n : tasks'[k][i].status = "completed"}
      BY <2>5 DEF Completed
    <2>9. /\ Completed(k)' = Completed(k)
          /\ \A i \in Completed(k) : tasks'[k][i] = tasks[k][i]
      BY <2>3, <2>5, <2>7, <2>8
    <2>10. KeyTypes(k) /\ KeyOK(k)
      BY KeyFacts
    <2>11. Used(k)' = Used(k)
      BY <1>1 DEF Used
    <2>12. KeyTypes(k)'
      BY <1>1, <2>1, <2>6, <2>7, <2>10 DEF KeyTypes
    <2>13. KeyOK(k)'
      BY <1>1, <2>1, <2>9, <2>10, <2>11 DEF KeyOK
    <2> QED BY <2>1, <2>6, <2>9, <2>11, <2>12, <2>13 DEF n
  <1>4. DOMAIN log' = Keys /\ DOMAIN answers' = Keys
    BY <1>1 DEF TaskInv, TypeOK
  <1> QED BY <1>2, <1>3, <1>4, Zenon DEF StoreInv, StoreOK

LEMMA CopyStore ==
    ASSUME TaskInv, ReExecutes
    PROVE  /\ StoreInv'
           /\ \A k \in Keys : /\ Completed(k)' = {} /\ reuse'[k] = {} /\ Used(k)' = 0
                              /\ answers'[k] = Recorded(k) /\ tasks'[k] = <<>>
                              /\ Len(answers'[k]) = Len(log[k])
  <1>1. /\ copying' = TRUE /\ log' = log
        /\ answers' = [k \in Keys |-> Recorded(k)] /\ tasks' = Nothing /\ reuse' = None
    BY DEF ReExecutes
  <1>2. DOMAIN tasks' = Keys /\ DOMAIN reuse' = Keys /\ DOMAIN log' = Keys /\ DOMAIN answers' = Keys
    BY <1>1 DEF TaskInv, TypeOK, Nothing, None
  <1>3. ASSUME NEW k \in Keys
        PROVE  /\ KeyTypes(k)' /\ KeyOK(k)' /\ Completed(k)' = {} /\ reuse'[k] = {}
               /\ Used(k)' = 0 /\ answers'[k] = Recorded(k) /\ tasks'[k] = <<>>
               /\ Len(answers'[k]) = Len(log[k])
    <2>1. answers'[k] = Recorded(k) /\ tasks'[k] = <<>> /\ reuse'[k] = {}
      BY <1>1 DEF Nothing, None
    <2>2. PICK n \in Nat : n = Len(log[k]) /\ DOMAIN log[k] = 1 .. n
      BY StoredTypes DEF TaskInv
    <2>3. answers'[k] = [i \in 1 .. n |-> i]
      BY <2>1, <2>2 DEF Recorded
    <2>4. /\ answers'[k] \in [1 .. n -> 1 .. n] /\ \A i \in 1 .. n : answers'[k][i] = i
      BY <2>3
    <2>5. answers'[k] \in Seq(1 .. n) /\ Len(answers'[k]) = n
      BY <2>4
    <2>6. Used(k)' = 0
      BY <1>1, <2>2, <2>5 DEF Used
    <2>7. Completed(k)' = {}
      BY <2>1 DEF Completed
    <2>8. KeyTypes(k)'
      <3>1. <<>> \in Seq(TaskRecord) /\ log[k] \in Seq({"good", "bad", "loop"})
        BY KeyFacts DEF KeyTypes
      <3> QED BY <1>1, <2>1, <2>2, <2>5, <3>1 DEF KeyTypes
    <2>9. KeyOK(k)'
      BY <1>1, <2>1, <2>2, <2>4, <2>5, <2>6, <2>7 DEF KeyOK
    <2> QED BY <2>1, <2>2, <2>5, <2>6, <2>7, <2>8, <2>9
  <1> QED BY <1>2, <1>3, Zenon DEF StoreInv, StoreOK

LEMMA InitTasks ==
    ASSUME Init
    PROVE  TaskInv
  <1>1. /\ plan \in Plans /\ copying = FALSE /\ phase \in {"gate", "starting"}
        /\ tasks = Nothing /\ log = Nothing /\ reuse = None /\ answers = Nothing
        /\ context = "live" /\ canceled = FALSE /\ work = [w \in Workers |-> Off]
        /\ subAgents = 0 /\ results = <<>> /\ failures = 0 /\ stageErr = "none"
        /\ verdict = "none" /\ resumes = 0 /\ faults = 0 /\ disturbed = FALSE
    BY DEF Init, Entry
  <1>2. \A k \in Keys : /\ tasks[k] = <<>> /\ log[k] = <<>> /\ answers[k] = <<>> /\ reuse[k] = {}
    BY <1>1 DEF Nothing, None
  <1>3. \A k \in Keys : KeyTypes(k) /\ KeyOK(k)
    <2> TAKE k \in Keys
    <2>1. Used(k) = 0 /\ Completed(k) = {}
      BY <1>2 DEF Used, Completed
    <2>2. KeyTypes(k)
      <3>1. /\ <<>> \in Seq(TaskRecord) /\ <<>> \in Seq({"good", "bad", "loop"})
            /\ <<>> \in Seq(1 .. Len(log[k]))
        BY EmptyIs, Zenon
      <3> QED BY <1>2, <3>1, Zenon DEF KeyTypes
    <2> QED BY <1>2, <2>1, <2>2 DEF KeyOK
  <1>4. StoreOK
    <2>1. DOMAIN tasks = Keys /\ DOMAIN log = Keys /\ DOMAIN reuse = Keys /\ DOMAIN answers = Keys
      BY <1>1 DEF Nothing, None
    <2> QED BY <1>3, <2>1, Zenon DEF StoreOK
  <1>5. work \in [Workers -> Worker] /\ \A v \in Workers : work[v] = Off
    BY <1>1, OffIs
  <1>6. PlainOK
    <2>1. Size \in Nat /\ MaxResumes \in Nat /\ MaxFaults \in Nat
      BY <1>1, WorkersAre, PlanFacts
    <2>2. results \in Seq(Steps)
      BY <1>1
    <2>3. phase \in Phases /\ stageErr \in Errors /\ verdict \in Verdicts
      BY <1>1 DEF Phases, Errors, Verdicts
    <2>4. subAgents \in Int /\ failures \in 0 .. Size /\ resumes \in 0 .. MaxResumes
          /\ faults \in 0 .. MaxFaults
      BY <1>1, <2>1
    <2>5. context \in {"live", "ended"} /\ canceled \in BOOLEAN /\ copying \in BOOLEAN
          /\ disturbed \in BOOLEAN
      BY <1>1
    <2> QED BY <1>1, <2>2, <2>3, <2>4, <2>5, Zenon DEF PlainOK
  <1>7. \A v \in Workers : WorkerOK(v)
    <2> TAKE v \in Workers
    <2>1. /\ work[v].pc = "off" /\ work[v].attempt = 1 /\ work[v].task = 0 /\ work[v].out = 0
          /\ work[v].err = "none"
      BY <1>5, OffIs
    <2>2. Sound(work[v]) /\ ~Held(v)
      BY <2>1 DEF Sound, Places, Held, Done
    <2> QED BY <2>1, <2>2 DEF WorkerOK, Busy
  <1>8. NotStarted /\ InOrder
    BY <1>1 DEF NotStarted, InOrder
  <1> QED BY <1>3, <1>4, <1>5, <1>6, <1>7, <1>8, TypeParts DEF TaskInv

LEMMA TasksStep ==
    ASSUME TaskInv, IsFiniteSet(StoredTasks), ChannelOK, GoesOn, Next
    PROVE  TaskInv'
  <1>1. CASE Resumes
    <2>1. Created \in Int
      BY FS_CardinalityType DEF Created, StoredTasks
    <2>2. /\ plan' = plan /\ copying' = copying /\ Fresh /\ subAgents' = Created
          /\ resumes < MaxResumes /\ resumes' = resumes + 1 /\ disturbed' = TRUE
          /\ faults' = faults
      BY <1>1 DEF Resumes
    <2>3. resumes' \in 0 .. MaxResumes /\ copying \in BOOLEAN
      <3>1. resumes \in 0 .. MaxResumes /\ MaxResumes \in Nat /\ copying \in BOOLEAN
        BY PlanFacts DEF TaskInv, TypeOK
      <3> QED BY <2>2, <3>1
    <2> QED BY <1>1, <2>1, <2>2, <2>3, ResumesStore, FreshTasks
  <1>2. CASE ReExecutes
    <2>1. /\ plan' = plan /\ copying' = TRUE /\ Fresh /\ subAgents' = 0
          /\ UNCHANGED <<resumes, disturbed, faults>>
      BY <1>2 DEF ReExecutes
    <2>2. resumes \in 0 .. MaxResumes /\ disturbed \in BOOLEAN
      BY DEF TaskInv, TypeOK
    <2> QED BY <1>2, <2>1, <2>2, CopyStore, FreshTasks
  <1> QED BY <1>1, <1>2, GateTasks, StartsTasks, StartsOrder, CollectorTasks, WorksTasks
          DEF Next, Stage

-----------------------------------------------------------------------------
(* The failure policy.                                                     *)

LEMMA PolicySame ==
    ASSUME TaskInv, ChannelOK, GoesOn, GaveUp, plan' = plan,
           UNCHANGED <<results, failures, stageErr, canceled>>,
           \A i \in Steps : (Done(i)' <=> Done(i)) /\ (Done(i) => work'[i].err = work[i].err)
    PROVE  ChannelOK' /\ GoesOn' /\ GaveUp' /\ Lost' = Lost /\ Counted' = Counted
  <1>1. Steps' = Steps /\ Size' = Size
    BY SamePlan
  <1>2. \A i \in Steps : Failed(i)' <=> Failed(i)
    BY DEF Failed
  <1>3. Lost' = Lost /\ InChannel' = InChannel
    BY <1>1, <1>2 DEF Lost, InChannel
  <1>4. Counted' = Counted
    BY <1>3 DEF Counted
  <1>5. \A i \in Lost : i \in Steps /\ work'[i].err = work[i].err
    BY DEF Lost, Failed
  <1>6. results \in Seq(Steps)
    BY DEF TaskInv, TypeOK
  <1>7. \A j \in 1 .. Len(results) : Done(results[j])'
    BY <1>6 DEF ChannelOK
  <1>8. ChannelOK'
    BY <1>7 DEF ChannelOK
  <1>9. GoesOn'
    BY <1>1, <1>4, <1>5 DEF GoesOn, Counted
  <1>10. GaveUp'
    BY <1>1, <1>3, <1>5 DEF GaveUp
  <1> QED BY <1>3, <1>4, <1>8, <1>9, <1>10

(* A step's result comes into the channel.                                 *)
LEMMA ChannelPolicy ==
    ASSUME TaskInv, ChannelOK, GoesOn, GaveUp, plan' = plan, canceled' = canceled,
           NEW w \in Steps, ~Done(w), ToChannel(w), work'[w].pc = "done"
    PROVE  ChannelOK' /\ GoesOn' /\ GaveUp'
  <1>1. /\ Steps' = Steps /\ Size' = Size /\ plan \in Plans /\ results \in Seq(Steps)
        /\ Steps \subseteq Workers
    BY SamePlan, WorkersAre DEF TaskInv, TypeOK
  <1>2. /\ plan.kind = "parallel" /\ results' = Append(results, w)
        /\ UNCHANGED <<failures, stageErr>> /\ \A i \in Steps \ {w} : work'[i] = work[i]
    BY <1>1 DEF ToChannel, KeptBut
  <1>3. /\ Len(results) \in Nat /\ Len(results') = Len(results) + 1
        /\ \A j \in 1 .. Len(results) : results'[j] = results[j] /\ results[j] \in Steps
        /\ results'[Len(results) + 1] = w
    BY <1>1, <1>2, AppendFacts
  <1>4. \A j \in 1 .. Len(results') : j \in 1 .. Len(results) \/ j = Len(results) + 1
    BY <1>3
  <1>5. \A j \in 1 .. Len(results) : Done(results[j]) /\ results[j] # w
    BY DEF ChannelOK
  <1>6. \A j \in 1 .. Len(results') : work'[results'[j]].pc = "done"
    BY <1>2, <1>3, <1>4, <1>5 DEF Done
  <1>7. \A j, l \in 1 .. Len(results') : results'[j] = results'[l] => j = l
    BY <1>3, <1>4, <1>5 DEF ChannelOK
  <1>8. ChannelOK'
    <2>1. (canceled' <=> stageErr' # "none") /\ plan'.kind # "sequential"
      BY <1>2 DEF ChannelOK
    <2> QED BY <1>6, <1>7, <2>1 DEF ChannelOK, Done
  <1>9. InChannel' = InChannel \cup {w}
    BY <1>3, <1>4 DEF InChannel
  <1>10. \A i \in Steps \ {w} : Failed(i)' <=> Failed(i)
    BY <1>2 DEF Failed, Done
  <1>11. ~Failed(w)
    BY DEF Failed
  <1>12. Counted' = Counted
    BY <1>1, <1>9, <1>10, <1>11 DEF Counted, Lost
  <1>13. Lost \subseteq Lost' /\ Lost \subseteq Steps \ {w} /\ Lost' \subseteq Steps
    BY <1>1, <1>10, <1>11 DEF Lost
  <1>14. GoesOn'
    <2>1. \A i \in Counted : work'[i] = work[i]
      BY <1>2, <1>13 DEF Counted
    <2> QED BY <1>1, <1>2, <1>12, <2>1 DEF GoesOn
  <1>15. GaveUp'
    <2>1. \A i \in Lost : work'[i] = work[i] /\ i \in Lost'
      BY <1>2, <1>13
    <2>2. Cardinality(Lost) <= Cardinality(Lost') /\ Cardinality(Lost) \in Nat
          /\ Cardinality(Lost') \in Nat
      <3>1. Lost' \in SUBSET Steps /\ Lost \in SUBSET Steps
        BY <1>13
      <3>2. IsFiniteSet(Lost') /\ IsFiniteSet(Lost)
        BY <1>1, <3>1, StepSets
      <3> QED BY <1>13, <3>2, FS_Subset, FS_CardinalityType
    <2>3. plan.quorum \in Int /\ Size \in Int
      BY <1>1, PlanFacts
    <2> QED BY <1>1, <1>2, <2>1, <2>2, <2>3 DEF GaveUp
  <1> QED BY <1>8, <1>14, <1>15

LEMMA OrderPolicy ==
    ASSUME TaskInv, ChannelOK, plan' = plan, plan.kind = "sequential",
           UNCHANGED <<results, failures, stageErr, canceled>>
    PROVE  ChannelOK' /\ GoesOn' /\ GaveUp'
  <1>1. results = <<>> /\ stageErr = "none" /\ (canceled <=> stageErr # "none")
    BY DEF ChannelOK
  <1>2. 1 .. Len(results) = {}
    BY <1>1, EmptyIs
  <1> QED BY <1>1, <1>2 DEF ChannelOK, GoesOn, GaveUp

(* A sequential stage ends.                                                *)
LEMMA EndsPolicy ==
    ASSUME TaskInv, plan' = plan, phase = "running", NEW w \in Steps,
           work[w].pc \notin {"off", "done"}, NEW out \in Nat, NEW err \in Errors,
           Returned(w, out, err), ToEnd(w, err)
    PROVE  Concluded' /\ PolicyDecides'
  <1>1. /\ plan.kind = "sequential" /\ plan \in Plans /\ Steps' = Steps /\ Size' = Size
        /\ Steps = 1 .. Size /\ Size \in Nat \ {0} /\ Steps \subseteq Workers
        /\ (err = "none" => w = Size)
    BY SamePlan, WorkersAre DEF TaskInv, TypeOK, ToEnd
  <1>2. \A i \in Steps : i < w => Done(i) /\ work[i].err = "none"
    BY <1>1, OrderIs
  <1>3. /\ work'[w].pc = "done" /\ work'[w].err = err
        /\ \A i \in Steps \ {w} : work'[i] = work[i]
    BY <1>1 DEF Returned, WorkIs, ToEnd, KeptBut
  <1>4. /\ verdict' = IF err = "none" THEN "ok" ELSE err
        /\ phase' \in {"review", "over"} /\ (phase' = "review" => verdict' = "ok")
    BY DEF ToEnd, Ends
  <1>5. CASE err = "none"
    <2>1. \A i \in Steps : work'[i].pc = "done" /\ work'[i].err = "none"
      <3> TAKE i \in Steps
      <3>1. CASE i = w
        BY <1>3, <1>5, <3>1
      <3>2. CASE i # w
        <4>1. i < w
          BY <1>1, <1>5, <3>2
        <4> QED BY <1>2, <1>3, <3>2, <4>1 DEF Done
      <3> QED BY <3>1, <3>2
    <2>2. Met'
      BY <1>1, <2>1 DEF Met
    <2> QED BY <1>1, <1>4, <1>5, <2>2 DEF Concluded, PolicyDecides
  <1>6. CASE err # "none"
    <2>1. w \in Lost' /\ work'[w].err = verdict'
      BY <1>1, <1>3, <1>4, <1>6 DEF Lost, Failed, Done
    <2>2. ~Met'
      BY <1>1, <1>3, <1>6 DEF Met
    <2>3. verdict' # "ok"
      BY <1>4, <1>6 DEF Errors
    <2> QED BY <1>1, <1>4, <2>1, <2>2, <2>3 DEF Concluded, PolicyDecides
  <1> QED BY <1>5, <1>6

(* What a worker does to the steps that are done.                          *)
LEMMA WorksDone ==
    ASSUME TaskInv, NEW w \in Workers, Works(w)
    PROVE  \/ /\ UNCHANGED <<results, failures, stageErr, verdict, phase>>
              /\ \A i \in Steps : (Done(i)' <=> Done(i)) /\ (Done(i) => work'[i] = work[i])
           \/ /\ w \in Steps
              /\ \E out \in Nat : \E err \in Errors :
                    /\ Returned(w, out, err) /\ (err # "none" => out = 0)
                    /\ ToChannel(w) \/ ToNext(w, err) \/ ToEnd(w, err)
  <1>1. /\ work[w].pc \notin {"off", "done", "delegating"}
        /\ \/ GoesAhead(w)
           \/ \E out \in Nat : \E err \in Errors : Returned(w, out, err) /\ (err # "none" => out = 0)
    BY WorksIs
  <1>2. plan \in Plans /\ WorkerOK(w)
    BY DEF TaskInv, TypeOK
  <1>3. CASE GoesAhead(w)
    <2>1. \A i \in Steps : (Done(i)' <=> Done(i)) /\ (Done(i) => work'[i] = work[i])
      BY <1>1, <1>3 DEF GoesAhead, Done, Busy
    <2> QED BY <1>3, <2>1 DEF GoesAhead
  <1>4. ASSUME NEW out \in Nat, NEW err \in Errors, Returned(w, out, err), ToParent(w, err)
        PROVE  /\ UNCHANGED <<results, failures, stageErr, verdict, phase>>
               /\ \A i \in Steps : (Done(i)' <=> Done(i)) /\ (Done(i) => work'[i] = work[i])
    <2>1. PICK p \in Steps : p = Parent(w) /\ work[p].pc = "delegating"
      BY <1>1, <1>2, <1>4, WorkersAre DEF ToParent, WorkerOK
    <2>2. KeptBut({w, p}) /\ work'[p].pc \in {"ask", "failing"} /\ w \notin Steps
          /\ UNCHANGED <<results, failures, stageErr, verdict, phase>>
      BY <1>4, <2>1 DEF ToParent, WorkIs
    <2>3. \A i \in Steps \ {p} : work'[i] = work[i]
      BY <1>2, <2>2, WorkersAre DEF KeptBut
    <2> QED BY <2>1, <2>2, <2>3 DEF Done
  <1>5. ASSUME NEW out \in Nat, NEW err \in Errors, Returned(w, out, err), ~ToParent(w, err)
        PROVE  w \in Steps /\ (ToChannel(w) \/ ToNext(w, err) \/ ToEnd(w, err))
    BY <1>5 DEF Returned, ToChannel, ToNext, ToEnd
  <1> QED BY <1>1, <1>3, <1>4, <1>5

LEMMA WorksPolicy ==
    ASSUME TaskInv, PolicyInv, NEW w \in Workers, Works(w)
    PROVE  PolicyInv'
  <1>1. /\ plan' = plan /\ canceled' = canceled /\ phase = "running"
        /\ work[w].pc \notin {"off", "done", "delegating"} /\ ~Done(w)
    BY WorksIs DEF Statics, Done
  <1>2. ChannelOK /\ GoesOn /\ GaveUp
    BY DEF PolicyInv
  <1>3. ASSUME phase' = "running"
        PROVE  Concluded' /\ PolicyDecides'
    BY <1>3 DEF Concluded, PolicyDecides
  <1>4. CASE /\ UNCHANGED <<results, failures, stageErr, verdict, phase>>
             /\ \A i \in Steps : (Done(i)' <=> Done(i)) /\ (Done(i) => work'[i] = work[i])
    BY <1>1, <1>2, <1>3, <1>4, PolicySame DEF PolicyInv
  <1>5. ASSUME NEW out \in Nat, NEW err \in Errors, w \in Steps, Returned(w, out, err),
               ToChannel(w) \/ ToNext(w, err) \/ ToEnd(w, err)
        PROVE  PolicyInv'
    <2>1. CASE ToChannel(w)
      <3>1. work'[w].pc = "done" /\ phase' = "running"
        BY <1>1, <1>5, <2>1 DEF Returned, WorkIs, ToChannel
      <3> QED BY <1>1, <1>2, <1>3, <1>5, <2>1, <3>1, ChannelPolicy DEF PolicyInv
    <2>2. CASE ToNext(w, err)
      <3>1. /\ plan.kind = "sequential" /\ phase' = "running"
            /\ UNCHANGED <<results, failures, stageErr>>
        BY <1>1, <2>2 DEF ToNext
      <3> QED BY <1>1, <1>2, <1>3, <3>1, OrderPolicy DEF PolicyInv
    <2>3. CASE ToEnd(w, err)
      <3>1. plan.kind = "sequential" /\ UNCHANGED <<results, failures, stageErr>>
        BY <2>3 DEF ToEnd, Ends
      <3> QED BY <1>1, <1>2, <1>5, <2>3, <3>1, OrderPolicy, EndsPolicy DEF PolicyInv
    <2> QED BY <1>5, <2>1, <2>2, <2>3
  <1> QED BY <1>4, <1>5, WorksDone

(* A stage without results.                                                *)
LEMMA ClearPolicy ==
    ASSUME plan \in Plans, plan' = plan, results' = <<>>, failures' = 0, stageErr' = "none",
           ~canceled', \A i \in Steps : work'[i].pc # "done"
    PROVE  ChannelOK' /\ GoesOn' /\ GaveUp'
  <1>1. Steps' = Steps /\ Size' = Size /\ Size \in Nat /\ plan.quorum \in 0 .. Size
    BY SamePlan, WorkersAre, PlanFacts
  <1>2. 1 .. Len(results') = {}
    BY EmptyIs
  <1>3. Lost' = {} /\ Counted' = {}
    BY <1>1 DEF Lost, Counted, Failed, Done
  <1>4. Cardinality({}) = 0
    BY FS_EmptySet
  <1>5. ChannelOK'
    BY <1>2 DEF ChannelOK
  <1>6. GoesOn'
    BY <1>1, <1>3, <1>4 DEF GoesOn
  <1> QED BY <1>5, <1>6 DEF GaveUp

LEMMA MetSame ==
    ASSUME plan' = plan, work' = work
    PROVE  (Met' <=> Met) /\ Lost' = Lost /\ Fine' = Fine /\ \A i : Done(i)' <=> Done(i)
  <1>1. Steps' = Steps
    BY SamePlan
  <1> QED BY <1>1 DEF Met, Lost, Fine, Failed, Done

LEMMA GatePolicy ==
    ASSUME TaskInv, PolicyInv, stageGate
    PROVE  PolicyInv'
  <1>1. /\ UNCHANGED <<plan, work, results, failures, stageErr, canceled, context>>
        /\ \/ phase = "gate" /\ phase' = "starting"
           \/ phase = "review" /\ phase' = "over" /\ verdict' = verdict
           \/ phase' = "over" /\ verdict' = "refused"
    BY DEF stageGate
  <1>2. ChannelOK' /\ GoesOn' /\ GaveUp'
    BY <1>1, PolicySame DEF PolicyInv, Done
  <1>3. Steps' = Steps /\ (Met' <=> Met) /\ \A i : Done(i)' <=> Done(i)
    BY <1>1, SamePlan, MetSame
  <1>4. Concluded'
    BY <1>1, <1>3 DEF PolicyInv, Concluded
  <1>5. PolicyDecides'
    BY <1>1, <1>3 DEF PolicyInv, Concluded, PolicyDecides
  <1> QED BY <1>2, <1>4, <1>5 DEF PolicyInv

(* A stage without room for its agents ends, and its policy is not met.    *)
LEMMA StartsPolicy ==
    ASSUME TaskInv, PolicyInv, StartsParallel \/ StartsSequential
    PROVE  PolicyInv'
  <1>1. /\ plan \in Plans /\ plan' = plan /\ context' = context /\ canceled' = canceled
        /\ phase = "starting"
        /\ UNCHANGED <<results, failures, stageErr>>
    BY DEF TaskInv, TypeOK, StartsParallel, StartsSequential, Ends, collector
  <1>2. /\ work = [w \in Workers |-> Off] /\ results = <<>> /\ failures = 0
        /\ stageErr = "none" /\ ~canceled
    BY <1>1 DEF TaskInv, NotStarted
  <1>3. Steps \subseteq Workers /\ 1 \in Steps /\ Steps' = Steps
    BY <1>1, WorkersAre, SamePlan
  <1>4. \A i \in Steps : work[i].pc = "off"
    BY <1>2, <1>3, OffIs
  <1>5. CASE phase' = "running"
    <2>1. \A i \in Steps : work'[i].pc # "done"
      <3>1. CASE StartsParallel
        <4>1. work' = [w \in Workers |-> IF w \in Steps THEN [Off EXCEPT !.pc = "take"] ELSE Off]
          BY <1>5, <3>1 DEF StartsParallel, Ends
        <4> QED BY <1>3, <4>1, TakeIs
      <3>2. CASE StartsSequential
        <4> DEFINE r == PutPc(work[1], "take")
        <4>1. work' = [work EXCEPT ![1] = r]
          BY <3>2 DEF StartsSequential, PutPc
        <4>2. work \in [Workers -> Worker] /\ 1 \in Workers /\ "take" \in Places
          BY <1>3, WorkTypes DEF TaskInv, Places
        <4>3. r \in Worker /\ r.pc = "take"
          BY <4>2, PutFields
        <4> HIDE DEF r
        <4>4. work'[1] = r /\ \A v \in Workers \ {1} : work'[v] = work[v]
          BY <4>1, <4>2
        <4> QED BY <1>3, <1>4, <4>3, <4>4
      <3> QED BY <3>1, <3>2
    <2>2. ChannelOK' /\ GoesOn' /\ GaveUp'
      BY <1>1, <1>2, <2>1, ClearPolicy
    <2> QED BY <1>5, <2>2 DEF PolicyInv, Concluded, PolicyDecides
  <1>6. CASE phase' # "running"
    <2>1. plan.kind = "parallel" /\ phase' = "over" /\ verdict' = "budget" /\ work' = work
      BY <1>6 DEF StartsParallel, StartsSequential, Ends
    <2>2. ChannelOK' /\ GoesOn' /\ GaveUp'
      BY <1>1, <1>2, <1>4, <2>1, ClearPolicy
    <2>3. ~Met
      <3> DEFINE ok == {i \in Steps : work[i].pc = "done" /\ work[i].err = "none"}
      <3>1. ok = {} /\ ok # Steps
        BY <1>3, <1>4
      <3>2. Cardinality(ok) = 0
        BY <3>1, FS_EmptySet
      <3>3. plan.policy = "quorum" => ~(Cardinality(ok) >= plan.quorum)
        BY <1>1, <3>2, PlanFacts
      <3> QED BY <3>1, <3>3 DEF Met
    <2>4. ~Met'
      BY <1>1, <2>1, <2>3, MetSame
    <2>5. Concluded'
      BY <2>1, <1>1 DEF Concluded
    <2>6. PolicyDecides'
      BY <2>1, <2>4, Zenon DEF PolicyDecides
    <2> QED BY <2>2, <2>5, <2>6 DEF PolicyInv
  <1> QED BY <1>5, <1>6

(* One more result is counted.                                             *)
LEMMA CollectsPolicy ==
    ASSUME TaskInv, PolicyInv, Collects
    PROVE  PolicyInv'
  <1> DEFINE h == results[1]
             e == work[h].err
             gaveUp == \/ plan.policy = "fail_fast" \/ e = "paused"
                       \/ plan.policy = "quorum" /\ failures + 1 > Size - plan.quorum
  <1>1. ChannelOK /\ GoesOn /\ GaveUp /\ plan \in Plans
    BY DEF PolicyInv, TaskInv, TypeOK
  <1>2. phase = "running" /\ results # <<>> /\ phase' = phase
        /\ UNCHANGED <<plan, work, verdict, context>> /\ results' = Tail(results)
    BY DEF Collects
  <1>3. /\ plan.kind = "parallel" /\ Len(results) \in Nat \ {0}
        /\ Head(results) = h /\ h \in Steps /\ Done(h)
        /\ results \in Seq(Steps) /\ Len(results') = Len(results) - 1
        /\ \A i \in 1 .. Len(results) - 1 : results'[i] = results[i + 1]
        /\ h \in InChannel /\ h \notin Counted
    BY <1>1, <1>2, NextResult
  <1>4. IF e = "none" \/ stageErr # "none"
        THEN UNCHANGED <<failures, stageErr, canceled>>
        ELSE /\ failures' = failures + 1
             /\ stageErr' = IF gaveUp THEN e ELSE stageErr
             /\ canceled' = (canceled \/ gaveUp)
    BY <1>3 DEF Collects, Size
  <1>5. Steps' = Steps /\ Size' = Size /\ Lost' = Lost /\ \A i : Done(i)' <=> Done(i)
    BY <1>2, SamePlan, MetSame
  <1>6. h \in Lost <=> e # "none"
    BY <1>3 DEF Lost, Failed
  <1>7. \A j, l \in 1 .. Len(results) : results[j] = results[l] => j = l
    BY <1>1 DEF ChannelOK
  <1> HIDE DEF h, e
  <1>8. InChannel' = InChannel \ {h}
    <2>1. ASSUME NEW x \in InChannel \ {h}
          PROVE  x \in InChannel'
      <3>1. PICK j \in 1 .. Len(results) : x = results[j]
        BY DEF InChannel
      <3>2. j # 1
        BY <2>1, <3>1 DEF h
      <3>3. j - 1 \in 1 .. Len(results') /\ results'[j - 1] = x
        BY <1>3, <3>1, <3>2
      <3> QED BY <3>3 DEF InChannel
    <2>2. ASSUME NEW x \in InChannel'
          PROVE  x \in InChannel \ {h}
      <3>1. PICK j \in 1 .. Len(results') : x = results'[j]
        BY <2>2 DEF InChannel
      <3>2. j + 1 \in 1 .. Len(results) /\ results[j + 1] = x /\ j + 1 # 1 /\ 1 \in 1 .. Len(results)
        BY <1>3, <3>1
      <3>3. results[j + 1] # results[1]
        BY <1>7, <3>2
      <3> QED BY <3>2, <3>3 DEF InChannel, h
    <2> QED BY <2>1, <2>2
  <1>9. Counted' = IF e # "none" THEN Counted \cup {h} ELSE Counted
    BY <1>5, <1>6, <1>8 DEF Counted
  <1>10. ChannelOK'
    <2>1. \A j \in 1 .. Len(results') : j + 1 \in 1 .. Len(results) /\ results'[j] = results[j + 1]
      BY <1>3
    <2>2. \A j \in 1 .. Len(results') : Done(results'[j])
      BY <1>1, <2>1 DEF ChannelOK
    <2>3. \A j, l \in 1 .. Len(results') : results'[j] = results'[l] => j = l
      BY <1>3, <1>7, <2>1
    <2>4. canceled' <=> stageErr' # "none"
      BY <1>1, <1>4 DEF ChannelOK
    <2>5. \A j \in 1 .. Len(results') : work'[results'[j]].pc = "done"
      BY <1>2, <2>2 DEF Done
    <2> QED BY <1>2, <1>3, <2>3, <2>4, <2>5 DEF ChannelOK, Done
  <1>11. CASE e = "none" \/ stageErr # "none"
    <2>1. UNCHANGED <<failures, stageErr, canceled>>
      BY <1>4, <1>11
    <2>2. GoesOn'
      BY <1>1, <1>2, <1>5, <1>9, <1>11, <2>1 DEF GoesOn
    <2>3. GaveUp'
      BY <1>1, <1>2, <1>5, <2>1 DEF GaveUp
    <2> QED BY <1>2, <1>10, <2>2, <2>3 DEF PolicyInv, Concluded, PolicyDecides
  <1>12. CASE e # "none" /\ stageErr = "none"
    <2>1. /\ failures' = failures + 1 /\ stageErr' = IF gaveUp THEN e ELSE stageErr
      BY <1>4, <1>12
    <2>2. failures = Cardinality(Counted) /\ IsFiniteSet(Counted)
          /\ (\A i \in Counted : work[i].err # "paused")
          /\ (plan.policy = "fail_fast" => Counted = {})
      BY <1>1, <1>2, <1>3, <1>12, CountedBelow DEF GoesOn
    <2>3. Cardinality(Counted') = failures + 1 /\ failures \in Nat
      BY <1>3, <1>9, <1>12, <2>2, FS_AddElement, FS_CardinalityType
    <2>4. GoesOn'
      <3>1. ASSUME stageErr' = "none"
            PROVE  ~gaveUp /\ e # "paused" /\ plan.policy # "fail_fast"
        BY <1>12, <2>1, <3>1
      <3>2. ASSUME stageErr' = "none", plan.policy = "quorum"
            PROVE  failures' <= Size - plan.quorum
        BY <1>1, <2>1, <2>3, <3>1, <3>2, PlanFacts
      <3>3. \A i \in Counted' : i = h \/ work[i].err # "paused"
        BY <1>9, <1>12, <2>2
      <3> HIDE DEF gaveUp
      <3> QED BY <1>2, <1>5, <2>1, <2>3, <3>1, <3>2, <3>3 DEF GoesOn, e
    <2>5. GaveUp'
      <3>1. CASE e = "paused"
        <4>1. stageErr' = "paused" /\ h \in Lost' /\ work'[h].err = "paused"
          BY <1>2, <1>5, <1>6, <1>12, <2>1, <3>1 DEF e
        <4> QED BY <4>1 DEF GaveUp
      <3>2. CASE e # "paused" /\ plan.policy = "fail_fast"
        <4>1. stageErr' # "paused" /\ h \in Lost'
          BY <1>5, <1>6, <1>12, <2>1, <3>2
        <4> QED BY <1>2, <3>2, <4>1 DEF GaveUp
      <3>3. CASE e # "paused" /\ plan.policy = "quorum" /\ failures + 1 > Size - plan.quorum
        <4>1. stageErr' # "paused"
          BY <2>1, <3>3
        <4>2. Counted' \subseteq Lost /\ Lost \in SUBSET Steps
          BY <1>5 DEF Counted, Lost
        <4>3. IsFiniteSet(Lost)
          BY <1>1, <4>2, StepSets
        <4>4. Cardinality(Counted') <= Cardinality(Lost) /\ Cardinality(Lost) \in Nat
          BY <4>2, <4>3, FS_Subset, FS_CardinalityType
        <4>5. Cardinality(Lost) > Size - plan.quorum
          BY <1>1, <2>3, <3>3, <4>4, PlanFacts
        <4> QED BY <1>2, <1>5, <3>3, <4>1, <4>5 DEF GaveUp
      <3>4. CASE ~gaveUp
        BY <1>12, <2>1, <3>4 DEF GaveUp
      <3> QED BY <3>1, <3>2, <3>3, <3>4
    <2> QED BY <1>2, <1>10, <2>4, <2>5 DEF PolicyInv, Concluded, PolicyDecides
  <1> QED BY <1>11, <1>12

(* All results are in: of the steps, those that failed are left.           *)
LEMMA AllDone ==
    ASSUME TaskInv, \A i \in Steps : Done(i)
    PROVE  /\ Fine = Steps \ Lost /\ Lost \subseteq Steps
           /\ Cardinality(Fine) = Size - Cardinality(Lost)
           /\ Cardinality(Fine) \in Nat /\ Cardinality(Lost) \in Nat
           /\ Fine = {} => Cardinality(Fine) = 0
           /\ Lost # {} => Fine # Steps
           /\ Met <=> /\ \/ Fine = Steps
                         \/ plan.kind = "parallel" /\ plan.policy = "best_effort" /\ Fine # {}
                         \/ /\ plan.kind = "parallel" /\ plan.policy = "quorum"
                            /\ Cardinality(Fine) >= plan.quorum
                      /\ \A i \in Lost : work[i].err # "paused"
  <1>1. plan \in Plans
    BY DEF TaskInv, TypeOK
  <1>2. Fine = Steps \ Lost /\ Lost \in SUBSET Steps
    BY DEF Fine, Lost, Failed
  <1>3. IsFiniteSet(Lost) /\ IsFiniteSet(Steps) /\ Cardinality(Steps) = Size /\ Size \in Nat
    BY <1>1, <1>2, StepSets, WorkersAre
  <1>4. Cardinality(Fine) = Size - Cardinality(Lost) /\ Cardinality(Lost) \in Nat
    <2>1. Steps \cap Lost = Lost
      BY <1>2
    <2>2. Cardinality(Steps \ Lost) = Cardinality(Steps) - Cardinality(Steps \cap Lost)
      BY <1>3, FS_Difference
    <2> QED BY <1>2, <1>3, <2>1, <2>2, FS_CardinalityType
  <1>5. Cardinality(Fine) \in Nat
    BY <1>2, <1>3, FS_Difference, FS_CardinalityType
  <1>6. Met <=> /\ \/ Fine = Steps
                   \/ plan.kind = "parallel" /\ plan.policy = "best_effort" /\ Fine # {}
                   \/ /\ plan.kind = "parallel" /\ plan.policy = "quorum"
                      /\ Cardinality(Fine) >= plan.quorum
                /\ \A i \in Lost : work[i].err # "paused"
    <2>1. Fine = {i \in Steps : work[i].pc = "done" /\ work[i].err = "none"}
      BY DEF Fine, Done
    <2>2. (\A i \in Steps : work[i].err # "paused") <=> (\A i \in Lost : work[i].err # "paused")
      BY DEF Lost, Failed
    <2> QED BY <2>1, <2>2 DEF Met
  <1> QED BY <1>2, <1>4, <1>5, <1>6, FS_EmptySet

(* The first of the errors is there if a step failed.                      *)
LEMMA FirstErr ==
    ASSUME TaskInv, \A i \in Steps : Done(i)
    PROVE  firstErr \in Errors /\ (firstErr = "none" <=> Lost = {})
  <1>1. plan \in Plans /\ work \in [Workers -> Worker] /\ Steps \subseteq Workers /\ Steps \subseteq Nat
    BY WorkTypes, WorkersAre DEF TaskInv, TypeOK
  <1>2. Lost = {i \in Steps : work[i].err # "none"} /\ Lost \in SUBSET Nat
    BY <1>1 DEF Lost, Failed
  <1>3. CASE Lost = {}
    BY <1>2, <1>3 DEF firstErr, Errors
  <1>4. CASE Lost # {}
    <2>1. firstErr = work[CHOOSE i \in Lost : \A j \in Lost : i <= j].err
      BY <1>2, <1>4 DEF firstErr
    <2>2. (CHOOSE i \in Lost : \A j \in Lost : i <= j) \in Lost
      BY <1>2, <1>4, LeastIn
    <2>3. PICK i \in Lost : firstErr = work[i].err
      BY <2>1, <2>2
    <2>4. i \in Steps /\ work[i] \in Worker /\ work[i].err # "none"
      BY <1>1, <1>2, <2>3
    <2> QED BY <1>4, <2>3, <2>4 DEF Worker
  <1> QED BY <1>3, <1>4

(* The stage ends as its policy says.                                      *)
LEMMA FinishesPolicy ==
    ASSUME TaskInv, PolicyInv, Finishes
    PROVE  PolicyInv'
  <1> DEFINE v == IF stageErr # "none" THEN stageErr
                  ELSE IF context = "ended" THEN "canceled"
                  ELSE IF (plan.policy = "wait_all" /\ firstErr # "none")
                          \/ (\A i \in Steps : work[i].err # "none") THEN firstErr
                  ELSE "ok"
  <1>1. /\ plan.kind = "parallel" /\ results = <<>> /\ (\A i \in Steps : Done(i)) /\ Ends(v)
        /\ UNCHANGED <<plan, work, results, failures, stageErr, canceled, context>>
    BY DEF Finishes, Ends, Done
  <1>2. /\ plan \in Plans /\ stageErr \in Errors /\ Size \in Nat \ {0} /\ plan.quorum \in 0 .. Size
        /\ plan.policy = "quorum" <=> plan.quorum > 0
        /\ plan.policy \in Policies /\ 1 \in Steps
    BY PlanFacts, WorkersAre DEF TaskInv, TypeOK
  <1>3. ChannelOK' /\ GoesOn' /\ GaveUp' /\ ChannelOK /\ GoesOn /\ GaveUp
    BY <1>1, PolicySame DEF PolicyInv, Done
  <1>4. Steps' = Steps /\ (Met' <=> Met) /\ \A i : Done(i)' <=> Done(i)
    BY <1>1, SamePlan, MetSame
  <1>5. Counted = Lost
    BY <1>1, EmptyIs DEF Counted, InChannel
  <1>6. firstErr \in Errors /\ (firstErr = "none" <=> Lost = {})
    BY <1>1, FirstErr
  <1> DEFINE F == Cardinality(Fine)
             L == Cardinality(Lost)
             Sane == \A i \in Lost : work[i].err # "paused"
  <1>7. /\ Fine = Steps \ Lost /\ Lost \subseteq Steps
        /\ F = Size - L /\ F \in Nat /\ L \in Nat
        /\ Fine = {} => F = 0
        /\ Lost # {} => Fine # Steps
        /\ Met <=> /\ \/ Fine = Steps
                      \/ plan.policy = "best_effort" /\ Fine # {}
                      \/ plan.policy = "quorum" /\ F >= plan.quorum
                   /\ Sane
    BY <1>1, AllDone
  <1>8. L > 0 => Lost # {}
    BY FS_EmptySet
  <1> HIDE DEF F
  <1>9. stageErr # "none" => ~Met
    <2> SUFFICES ASSUME stageErr # "none"
                 PROVE  ~Met
      OBVIOUS
    <2>1. CASE plan.policy = "fail_fast" /\ Lost # {}
      BY <1>7, <2>1
    <2>2. CASE \E i \in Lost : work[i].err = "paused"
      BY <1>7, <2>2
    <2>3. CASE plan.policy = "quorum" /\ L > Size - plan.quorum
      <3>1. L > 0 /\ ~(F >= plan.quorum)
        BY <1>2, <1>7, <2>3
      <3> QED BY <1>7, <1>8, <2>3, <3>1
    <2> QED BY <1>3, <2>1, <2>2, <2>3 DEF GaveUp
  <1>10. (\A i \in Steps : work[i].err # "none") => Lost # {} /\ ~Met
    <2> SUFFICES ASSUME \A i \in Steps : work[i].err # "none"
                 PROVE  Lost # {} /\ ~Met
      OBVIOUS
    <2>1. Lost = Steps /\ Fine = {}
      BY <1>1, <1>7 DEF Lost, Failed
    <2>2. F = 0 /\ Lost # {}
      BY <1>2, <1>7, <2>1
    <2>3. ~(plan.policy = "quorum" /\ F >= plan.quorum)
      BY <1>2, <2>2
    <2> QED BY <1>7, <2>1, <2>2, <2>3
  <1>11. plan.policy = "wait_all" /\ firstErr # "none" => Lost # {} /\ ~Met
    BY <1>6, <1>7
  <1>12. v = "ok" => Met
    <2> SUFFICES ASSUME v = "ok"
                 PROVE  Met
      OBVIOUS
    <2>1. /\ stageErr = "none"
          /\ ~(plan.policy = "wait_all" /\ firstErr # "none")
          /\ ~(\A i \in Steps : work[i].err # "none")
      BY <1>2, <1>6 DEF Errors
    <2>2. /\ failures = L /\ Sane
          /\ plan.policy = "fail_fast" => Lost = {}
          /\ plan.policy = "quorum" => failures <= Size - plan.quorum
      BY <1>1, <1>3, <1>5, <2>1 DEF GoesOn
    <2>3. CASE plan.policy = "fail_fast"
      BY <1>7, <2>2, <2>3
    <2>4. CASE plan.policy = "wait_all"
      BY <1>6, <1>7, <2>1, <2>2, <2>4
    <2>5. CASE plan.policy = "best_effort"
      <3>1. Fine # {}
        BY <1>1, <2>1 DEF Fine
      <3> QED BY <1>7, <2>2, <2>5, <3>1
    <2>6. CASE plan.policy = "quorum"
      <3>1. F >= plan.quorum
        BY <1>2, <1>7, <2>2, <2>6
      <3> QED BY <1>7, <2>2, <2>6, <3>1
    <2> QED BY <1>2, <2>3, <2>4, <2>5, <2>6 DEF Policies
  <1>13. v \notin {"ok", "refused"} => ~Met \/ context = "ended"
    BY <1>9, <1>10, <1>11
  <1> HIDE DEF v
  <1>14. /\ verdict' = v /\ phase' \in {"review", "over"} /\ (phase' = "review" => verdict' = "ok")
    BY <1>1 DEF Ends
  <1>15. stageErr # "none" => v = stageErr
    BY DEF v
  <1>16. Concluded'
    BY <1>1, <1>4, <1>14, <1>15 DEF Concluded
  <1>17. PolicyDecides'
    BY <1>1, <1>4, <1>12, <1>13, <1>14 DEF PolicyDecides
  <1> QED BY <1>3, <1>16, <1>17 DEF PolicyInv

LEMMA InitPolicy ==
    ASSUME Init
    PROVE  PolicyInv
  <1>1. /\ plan \in Plans /\ phase \in {"gate", "starting"} /\ canceled = FALSE
        /\ work = [w \in Workers |-> Off] /\ results = <<>> /\ failures = 0 /\ stageErr = "none"
    BY DEF Init, Entry
  <1>2. \A i \in Steps : work[i].pc = "off"
    BY <1>1, WorkersAre, OffIs
  <1>3. Lost = {} /\ Counted = {}
    BY <1>2 DEF Lost, Counted, Failed, Done
  <1>4. 1 .. Len(results) = {} /\ Cardinality({}) = 0
    BY <1>1, EmptyIs, FS_EmptySet
  <1>5. ChannelOK
    BY <1>1, <1>4 DEF ChannelOK
  <1>6. GoesOn
    <2>1. plan.quorum \in 0 .. Size /\ Size \in Nat
      BY <1>1, PlanFacts
    <2> QED BY <1>1, <1>3, <1>4, <2>1 DEF GoesOn
  <1>7. GaveUp /\ Concluded /\ PolicyDecides
    BY <1>1 DEF GaveUp, Concluded, PolicyDecides
  <1> QED BY <1>5, <1>6, <1>7 DEF PolicyInv

LEMMA PolicyStep ==
    ASSUME TaskInv, PolicyInv, Next
    PROVE  PolicyInv'
  <1>1. ASSUME ContextEnds \/ Crashes
        PROVE  PolicyInv'
    <2>1. /\ UNCHANGED <<plan, work, results, failures, stageErr, canceled>>
          /\ phase' \in {"running", "down"}
      BY <1>1 DEF ContextEnds, Crashes, collector
    <2>2. ChannelOK' /\ GoesOn' /\ GaveUp'
      BY <2>1, PolicySame DEF PolicyInv, Done
    <2> QED BY <2>1, <2>2 DEF PolicyInv, Concluded, PolicyDecides
  <1>2. ASSUME Resumes \/ ReExecutes
        PROVE  PolicyInv'
    <2>1. plan' = plan /\ Fresh
      BY <1>2 DEF Resumes, ReExecutes
    <2>2. /\ canceled' = FALSE /\ work' = [w \in Workers |-> Off]
          /\ results' = <<>> /\ failures' = 0 /\ stageErr' = "none"
          /\ phase' \in {"gate", "starting"}
      BY <2>1 DEF Fresh, Entry
    <2>3. plan \in Plans /\ Steps \subseteq Workers
      BY WorkersAre DEF TaskInv, TypeOK
    <2>4. \A i \in Steps : work'[i].pc # "done"
      BY <2>2, <2>3, OffIs
    <2>5. ChannelOK' /\ GoesOn' /\ GaveUp'
      BY <2>1, <2>2, <2>3, <2>4, ClearPolicy
    <2> QED BY <2>2, <2>5 DEF PolicyInv, Concluded, PolicyDecides
  <1> QED BY <1>1, <1>2, GatePolicy, StartsPolicy, CollectsPolicy, FinishesPolicy, WorksPolicy
          DEF Next, Stage

-----------------------------------------------------------------------------
(* The tasks stored are finitely many.                                     *)

LEMMA StoredAre ==
    \A x : x \in StoredTasks <=> \E k \in Keys : \E i \in DOMAIN tasks[k] : x = <<k, i>>
  BY DEF StoredTasks

LEMMA StoredSame ==
    ASSUME \A k \in Keys : DOMAIN tasks'[k] = DOMAIN tasks[k]
    PROVE  StoredTasks' = StoredTasks /\ Created' = Created
  <1>1. StoredTasks' = StoredTasks
    BY DEF StoredTasks
  <1> QED BY <1>1 DEF Created, StoredTasks

LEMMA CreatesCounted ==
    ASSUME TaskInv, NEW w \in Workers, Creates(w), IsFiniteSet(StoredTasks)
    PROVE  /\ IsFiniteSet(StoredTasks') /\ Created \in Nat /\ Created' = Created + 1
  <1>1. PICK k \in Keys : k = Key(w)
    BY CreatesStore
  <1>2. StoreInv /\ StoreInv' /\ Len(tasks'[k]) = Len(tasks[k]) + 1
        /\ \A j \in Keys \ {k} : tasks'[j] = tasks[j]
    BY <1>1, CreatesStore, TypeParts DEF TaskInv, StoreInv
  <1>3. PICK n \in Nat : n = Len(tasks[k]) /\ DOMAIN tasks[k] = 1 .. n
    BY StoredTypes DEF TaskInv
  <1>4. DOMAIN tasks'[k] = 1 .. n + 1
    <2>1. tasks'[k] \in Seq(TaskRecord)
      BY <1>2 DEF StoreInv, StoreOK, KeyTypes
    <2> QED BY <1>2, <1>3, <2>1
  <1> DEFINE x == <<k, n + 1>>
  <1>5. x \notin StoredTasks
    <2>1. n + 1 \notin DOMAIN tasks[k]
      BY <1>3
    <2> QED BY <2>1, StoredAre
  <1>6. StoredTasks' = StoredTasks \cup {x}
    <2>1. \A y : y \in StoredTasks' <=> \E j \in Keys : \E i \in DOMAIN tasks'[j] : y = <<j, i>>
      BY DEF StoredTasks
    <2>2. \A i : i \in DOMAIN tasks'[k] <=> i \in DOMAIN tasks[k] \/ i = n + 1
      BY <1>3, <1>4
    <2>3. \A y : y \in StoredTasks' <=> y \in StoredTasks \/ y = x
      BY <1>2, <2>1, <2>2, StoredAre
    <2> QED BY <2>3
  <1> HIDE DEF x
  <1>7. Cardinality(StoredTasks') = Cardinality(StoredTasks) + 1 /\ IsFiniteSet(StoredTasks')
    BY <1>5, <1>6, FS_AddElement
  <1>8. Cardinality(StoredTasks) \in Nat
    BY FS_CardinalityType
  <1> QED BY <1>7, <1>8 DEF Created, StoredTasks

(* What the other actions of a worker leave.                               *)
LEMMA SameCounted ==
    ASSUME TaskInv, NEW w \in Workers,
           \/ GivesUp(w) \/ Takes(w) \/ CreateFails(w) \/ Asks(w) \/ Chat(w) \/ AskFails(w)
           \/ Completes(w) \/ Rejects(w) \/ Fails(w) \/ BackoffEnds(w)
    PROVE  StoredTasks' = StoredTasks /\ Created' = Created
  <1>1. \A k \in Keys : Len(tasks'[k]) = Len(tasks[k])
    <2>1. CASE Completes(w) \/ Fails(w)
      BY <2>1, CompletesStore, FailsStore
    <2>2. CASE tasks' = tasks
      BY <2>2
    <2> QED BY <2>1, <2>2 DEF GivesUp, Takes, CreateFails, Asks, Chat, AskFails, Rejects,
                              BackoffEnds, stored
  <1>2. Works(w)
    BY DEF Works
  <1>3. \A k \in Keys : DOMAIN tasks'[k] = DOMAIN tasks[k]
    <2> TAKE k \in Keys
    <2>1. DOMAIN tasks[k] = 1 .. Len(tasks[k])
      BY StoredTypes DEF TaskInv
    <2>2. tasks'[k] \in Seq(TaskRecord)
      BY <1>2, WorksStore DEF StoreInv, StoreOK, KeyTypes
    <2> QED BY <1>1, <2>1, <2>2
  <1> QED BY <1>3, StoredSame

LEMMA ResumesCounted ==
    ASSUME TaskInv, Resumes
    PROVE  StoredTasks' = StoredTasks /\ Created' = Created
  <1>1. \A k \in Keys : DOMAIN tasks'[k] = DOMAIN tasks[k]
    <2> TAKE k \in Keys
    <2>1. DOMAIN tasks[k] = 1 .. Len(tasks[k])
      BY StoredTypes DEF TaskInv
    <2>2. tasks'[k] \in Seq(TaskRecord) /\ Len(tasks'[k]) = Len(tasks[k])
      BY ResumesStore DEF StoreInv, StoreOK, KeyTypes
    <2> QED BY <2>1, <2>2
  <1> QED BY <1>1, StoredSame

LEMMA CopyCounted ==
    ASSUME TaskInv, ReExecutes
    PROVE  StoredTasks' = {} /\ Created' = 0
  <1>1. \A k \in Keys : tasks'[k] = <<>>
    BY CopyStore
  <1>2. StoredTasks' = {}
    BY <1>1 DEF StoredTasks
  <1> QED BY <1>2, FS_EmptySet DEF Created, StoredTasks

LEMMA InitCounted ==
    ASSUME Init
    PROVE  StoredTasks = {} /\ Created = 0
  <1>1. \A k \in Keys : tasks[k] = <<>>
    BY DEF Init, Nothing
  <1>2. StoredTasks = {}
    BY <1>1 DEF StoredTasks
  <1> QED BY <1>2, FS_EmptySet DEF Created, StoredTasks

LEMMA FiniteStep ==
    ASSUME TaskInv, IsFiniteSet(StoredTasks), Next
    PROVE  IsFiniteSet(StoredTasks')
  <1>1. CASE \E w \in Workers : Works(w)
    <2>1. PICK w \in Workers : Works(w)
      BY <1>1
    <2>2. Creates(w) \/ \/ GivesUp(w) \/ Takes(w) \/ CreateFails(w) \/ Asks(w) \/ Chat(w)
                        \/ AskFails(w) \/ Completes(w) \/ Rejects(w) \/ Fails(w) \/ BackoffEnds(w)
      BY <2>1 DEF Works
    <2> QED BY <2>2, CreatesCounted, SameCounted
  <1>2. CASE tasks' = tasks
    BY <1>2, StoredSame
  <1>3. stageGate \/ Stage \/ ContextEnds \/ Crashes => tasks' = tasks
    BY DEF stageGate, Stage, StartsParallel, StartsSequential, Collects, Finishes, ContextEnds,
           Crashes, stored
  <1> QED BY <1>1, <1>2, <1>3, ResumesCounted, CopyCounted, FS_EmptySet DEF Next

(* A step that changes nothing.                                            *)
LEMMA Stutters ==
    ASSUME TaskInv, PolicyInv, IsFiniteSet(StoredTasks), UNCHANGED vars
    PROVE  TaskInv' /\ PolicyInv' /\ IsFiniteSet(StoredTasks')
  <1>1. /\ UNCHANGED <<plan, copying, phase, tasks, log, context, canceled, subAgents, reuse,
                       answers, work, results, failures, stageErr, verdict, faults, resumes,
                       disturbed>>
    BY DEF vars, stored, collector, history
  <1>2. TaskInv'
    <2>1. StoreInv' /\ (\A v \in Workers : WorkerOK(v)') /\ work' \in [Workers -> Worker]
      BY <1>1, SameWork
    <2>2. PlainOK'
      BY <1>1, TypeParts, SamePlan DEF TaskInv, PlainOK
    <2>3. NotStarted' /\ InOrder' /\ Workers' = Workers
      BY <1>1, SamePlan DEF TaskInv, NotStarted, InOrder, Done
    <2> QED BY <1>1, <2>1, <2>2, <2>3, TypePartsNext, Zenon DEF TaskInv, StoreInv
  <1>3. PolicyInv'
    <2>1. ChannelOK' /\ GoesOn' /\ GaveUp'
      BY <1>1, PolicySame DEF PolicyInv, Done
    <2>2. Steps' = Steps /\ (Met' <=> Met) /\ Lost' = Lost /\ \A i : Done(i)' <=> Done(i)
      BY <1>1, SamePlan, MetSame
    <2> QED BY <1>1, <2>1, <2>2 DEF PolicyInv, Concluded, PolicyDecides
  <1> QED BY <1>1, <1>2, <1>3, StoredSame

(* The invariant all others rest on.                                       *)
StageInv == TaskInv /\ PolicyInv /\ IsFiniteSet(StoredTasks)

THEOREM StageInvariant ==
    Spec => []StageInv
  <1>1. Init => StageInv
    BY InitTasks, InitPolicy, InitCounted, FS_EmptySet DEF StageInv
  <1>2. StageInv /\ [Next]_vars => StageInv'
    BY TasksStep, PolicyStep, FiniteStep, Stutters DEF StageInv, PolicyInv
  <1> QED BY <1>1, <1>2, PTL DEF Spec

(* Every state of a stage is of its type (runStage, runTask).              *)
THEOREM TypeCorrect ==
    Spec => []TypeOK
  <1>1. StageInv => TypeOK
    BY DEF StageInv, TaskInv
  <1> QED BY <1>1, StageInvariant, PTL

(* Whatever the order of the results, the number of steps and the policy,  *)
(* a stage succeeds only if its policy is met, and fails only if not, or   *)
(* if its context ended, a human refused it, or the budget lacks room.     *)
THEOREM PolicyHolds ==
    Spec => []PolicyDecides
  <1>1. StageInv => PolicyDecides
    BY DEF StageInv, PolicyInv
  <1> QED BY <1>1, StageInvariant, PTL

-----------------------------------------------------------------------------
(* Whose output is whose.                                                  *)

(* No worker of S comes to hold an output.                                 *)
HeldLess(S) ==
    \A v \in S : Held(v)' => /\ Held(v) /\ work'[v].out = work[v].out
                             /\ work'[v].pc = "answered" => work[v].pc = "answered"

LEMMA KeptHeld ==
    ASSUME NEW S, KeptBut(S), \A v \in S : work'[v].pc \notin {"answered", "done"}
    PROVE  HeldLess(Workers)
  <1>1. ASSUME NEW v \in Workers
        PROVE  Held(v)' => /\ Held(v) /\ work'[v].out = work[v].out
                           /\ work'[v].pc = "answered" => work[v].pc = "answered"
    <2>1. CASE v \in S
      BY <2>1 DEF Held, Done
    <2>2. CASE v \notin S
      BY <2>2 DEF KeptBut, Held, Done
    <2> QED BY <2>1, <2>2
  <1> QED BY <1>1 DEF HeldLess

LEMMA ReturnedHeld ==
    ASSUME NEW w \in Workers, NEW out, NEW err, Returned(w, out, err)
    PROVE  /\ HeldLess(Workers \ {w}) /\ (Held(w)' <=> err = "none")
           /\ work'[w].pc = "done" /\ work'[w].out = out /\ work'[w].err = err
  <1>1. work'[w].pc = "done" /\ work'[w].out = out /\ work'[w].err = err
    BY DEF Returned, WorkIs
  <1>2. \E x : KeptBut({w, x}) /\ (x = w \/ work'[x].pc \notin {"answered", "done"})
    <2>1. CASE ToParent(w, err)
      <3>1. /\ KeptBut({w, Parent(w)}) /\ work'[Parent(w)].pc \in {"ask", "failing"}
        BY <2>1 DEF ToParent, WorkIs
      <3> QED BY <3>1
    <2>2. CASE ToNext(w, err)
      <3>1. /\ KeptBut({w, w + 1}) /\ work'[w + 1].pc = "take"
        BY <2>2 DEF ToNext, WorkIs
      <3> QED BY <3>1
    <2>3. CASE ToChannel(w) \/ ToEnd(w, err)
      BY <2>3 DEF ToChannel, ToEnd, KeptBut
    <2> QED BY <2>1, <2>2, <2>3 DEF Returned
  <1>3. PICK x : KeptBut({w, x}) /\ (x = w \/ work'[x].pc \notin {"answered", "done"})
    BY <1>2
  <1>4. ASSUME NEW v \in Workers \ {w}
        PROVE  Held(v)' => /\ Held(v) /\ work'[v].out = work[v].out
                           /\ work'[v].pc = "answered" => work[v].pc = "answered"
    <2>1. CASE v = x
      BY <1>3, <2>1 DEF Held, Done
    <2>2. CASE v # x
      BY <1>3, <2>2 DEF KeptBut, Held, Done
    <2> QED BY <2>1, <2>2
  <1> QED BY <1>1, <1>4 DEF HeldLess, Held, Done

(* An output held is one of its key's responses.                           *)
LEMMA HeldFacts ==
    ASSUME TaskInv
    PROVE  /\ \A v \in Workers : Held(v) => Key(v) \in Keys /\ work[v].out \in 1 .. Used(Key(v))
           /\ \A k \in Keys : \A i \in Completed(k) : tasks[k][i].out \in 1 .. Used(k)
           /\ \A k \in Keys : reuse[k] \subseteq Completed(k) /\ Used(k) \in Nat
  BY DEF TaskInv, WorkerOK, KeyOK, Held, Done

(* Nobody comes to hold an output, and none is stored.                     *)
LEMMA OutsKept ==
    ASSUME TaskInv, OutsDiffer, plan' = plan, HeldLess(Workers),
           \A k \in Keys : /\ Completed(k)' \subseteq Completed(k)
                           /\ \A i \in Completed(k)' : tasks'[k][i].out = tasks[k][i].out,
           \A k \in Keys : reuse'[k] \subseteq Completed(k)',
           (\A k \in Keys : reuse'[k] \subseteq reuse[k]) \/ \A v \in Workers : ~Held(v)'
    PROVE  OutsDiffer'
  <1>1. Workers' = Workers /\ \A v : Key(v)' = Key(v)
    BY SamePlan
  <1>2. \A v \in Workers : Held(v)' => Held(v) /\ work'[v].out = work[v].out /\ Key(v) \in Keys
    BY HeldFacts DEF HeldLess
  <1>3. \A v \in Workers : work'[v].pc = "answered" => work[v].pc = "answered" /\ Held(v)'
    BY DEF HeldLess, Held
  <1>4. \A v, w \in Workers :
            Held(v)' /\ Held(w)' /\ Key(v) = Key(w) /\ work'[v].out = work'[w].out => v = w
    BY <1>2 DEF OutsDiffer
  <1>5. \A k \in Keys : \A i, j \in Completed(k)' : tasks'[k][i].out = tasks'[k][j].out => i = j
    BY DEF OutsDiffer
  <1>6. ASSUME NEW k \in Keys, NEW w \in Workers, NEW i \in Completed(k)',
               work'[w].pc = "answered", Key(w) = k
        PROVE  tasks'[k][i].out # work'[w].out
    BY <1>2, <1>3, <1>6 DEF OutsDiffer
  <1>7. ASSUME NEW k \in Keys, NEW w \in Workers, NEW i \in reuse'[k], Held(w)', Key(w) = k
        PROVE  tasks'[k][i].out # work'[w].out
    <2>1. i \in reuse[k] /\ tasks'[k][i].out = tasks[k][i].out
      BY <1>7
    <2> QED BY <1>2, <1>7, <2>1 DEF OutsDiffer
  <1> QED BY <1>1, <1>4, <1>5, <1>6, <1>7 DEF OutsDiffer

(* What does not change what is stored or taken.                           *)
LEMMA OutsQuiet ==
    ASSUME TaskInv, OutsDiffer, plan' = plan, UNCHANGED <<tasks, reuse>>, HeldLess(Workers)
    PROVE  OutsDiffer'
  <1>1. \A k \in Keys : Completed(k)' = Completed(k)
    BY DEF Completed
  <1>2. \A k \in Keys : reuse[k] \subseteq Completed(k)
    BY HeldFacts
  <1> QED BY <1>1, <1>2, OutsKept

LEMMA TakesOuts ==
    ASSUME TaskInv, OutsDiffer, NEW w \in Workers, Takes(w)
    PROVE  OutsDiffer'
  <1>1. plan' = plan /\ tasks' = tasks /\ Key(w) \in Keys /\ TypeOK /\ work[w].pc = "take"
    BY Moving, TakesIs DEF TaskInv, Statics, At
  <1>2. CASE /\ reuse' = reuse
             /\ \/ Alone(w) /\ WorkIs(w, "create", work[w].attempt, work[w].task,
                                      work[w].out, work[w].err)
                \/ Returned(w, 0, "budget")
    <2>1. HeldLess(Workers)
      <3>1. CASE Alone(w) /\ WorkIs(w, "create", work[w].attempt, work[w].task,
                                    work[w].out, work[w].err)
        BY <3>1, KeptHeld DEF Alone, WorkIs
      <3>2. CASE Returned(w, 0, "budget")
        <4>1. HeldLess(Workers \ {w}) /\ ~Held(w)'
          BY <3>2, ReturnedHeld
        <4> QED BY <4>1 DEF HeldLess
      <3> QED BY <1>2, <3>1, <3>2
    <2> QED BY <1>1, <1>2, <2>1, OutsQuiet
  <1>3. ASSUME NEW k \in Keys, k = Key(w), NEW i \in reuse[k],
               Returned(w, tasks[k][i].out, "none"), reuse' = [reuse EXCEPT ![k] = @ \ {i}]
        PROVE  OutsDiffer'
    <2>1. Workers' = Workers /\ \A v : Key(v)' = Key(v)
      BY <1>1, SamePlan
    <2>2. /\ HeldLess(Workers \ {w}) /\ Held(w)' /\ work'[w].pc = "done"
          /\ work'[w].out = tasks[k][i].out
      BY <1>3, ReturnedHeld
    <2>3. \A j \in Keys : /\ Completed(j)' = Completed(j) /\ reuse'[j] \subseteq reuse[j]
                          /\ reuse[j] \subseteq Completed(j)
      <3>1. DOMAIN reuse = Keys
        BY <1>1 DEF TypeOK
      <3> QED BY <1>1, <1>3, <3>1, HeldFacts DEF Completed
    <2>4. i \in Completed(k) /\ i \notin reuse'[k]
      <3>1. DOMAIN reuse = Keys
        BY <1>1 DEF TypeOK
      <3> QED BY <1>3, <2>3, <3>1
    <2>5. \A u \in Workers \ {w} : Held(u)' => Held(u) /\ work'[u].out = work[u].out
      BY <2>2 DEF HeldLess
    <2>6. \A u \in Workers \ {w} : Held(u)' /\ Key(u) = k => work'[u].out # work'[w].out
      BY <1>3, <2>2, <2>5 DEF OutsDiffer
    <2>7. \A u, v \in Workers :
              Held(u)' /\ Held(v)' /\ Key(u) = Key(v) /\ work'[u].out = work'[v].out => u = v
      BY <1>3, <2>5, <2>6 DEF OutsDiffer
    <2>8. \A j \in Keys : \A l, m \in Completed(j)' : tasks'[j][l].out = tasks'[j][m].out => l = m
      BY <1>1, <2>3 DEF OutsDiffer
    <2>9. ASSUME NEW j \in Keys, NEW u \in Workers, NEW l \in Completed(j)',
                 work'[u].pc = "answered", Key(u) = j
          PROVE  tasks'[j][l].out # work'[u].out
      <3>1. u # w /\ Held(u)'
        BY <2>2, <2>9 DEF Held
      <3>2. work[u].pc = "answered" /\ work'[u].out = work[u].out
        BY <2>2, <2>9, <3>1 DEF HeldLess
      <3> QED BY <1>1, <2>3, <2>9, <3>2 DEF OutsDiffer
    <2>10. ASSUME NEW j \in Keys, NEW u \in Workers, NEW l \in reuse'[j], Held(u)', Key(u) = j
           PROVE  tasks'[j][l].out # work'[u].out
      <3>1. l \in reuse[j] /\ l \in Completed(j)
        BY <2>3, <2>10
      <3>2. CASE u = w
        BY <1>1, <1>3, <2>2, <2>4, <2>10, <3>1, <3>2 DEF OutsDiffer
      <3>3. CASE u # w
        BY <1>1, <2>5, <2>10, <3>1, <3>3 DEF OutsDiffer
      <3> QED BY <3>2, <3>3
    <2> QED BY <2>1, <2>7, <2>8, <2>9, <2>10 DEF OutsDiffer
  <1> QED BY <1>1, <1>2, <1>3, TakesIs DEF TaskInv

(* A new response is nobody's.                                             *)
LEMMA AnsweredOuts ==
    ASSUME TaskInv, OutsDiffer, NEW w \in Workers, Asks(w) \/ Chat(w)
    PROVE  OutsDiffer'
  <1>1. TypeOK /\ WorkerOK(w)
    BY DEF TaskInv
  <1>2. /\ plan' = plan /\ UNCHANGED <<tasks, reuse>> /\ KeptBut({w}) /\ work'[w].pc = "answered"
    BY <1>1, AsksIs, ChatIs DEF Alone, Statics, WorkIs
  <1>3. PICK k \in Keys : k = Key(w) /\ work'[w].out = Used(k) + 1
    BY AsksStore, ChatStore DEF Given
  <1>4. Workers' = Workers /\ \A v : Key(v)' = Key(v)
    BY <1>2, SamePlan
  <1>5. \A u \in Workers \ {w} : work'[u] = work[u] /\ (Held(u)' <=> Held(u))
    BY <1>2 DEF KeptBut, Held, Done
  <1>6. \A u \in Workers \ {w} : Held(u) /\ Key(u) = k => work[u].out # work'[w].out
    BY <1>3, HeldFacts
  <1>7. \A i \in Completed(k) : tasks[k][i].out # work'[w].out
    BY <1>3, HeldFacts
  <1>8. \A j \in Keys : Completed(j)' = Completed(j) /\ reuse[j] \subseteq Completed(j)
    BY <1>2, HeldFacts DEF Completed
  <1>9. \A u, v \in Workers :
            Held(u)' /\ Held(v)' /\ Key(u) = Key(v) /\ work'[u].out = work'[v].out => u = v
    BY <1>3, <1>5, <1>6 DEF OutsDiffer
  <1>10. \A j \in Keys : \A l, m \in Completed(j)' : tasks'[j][l].out = tasks'[j][m].out => l = m
    BY <1>2, <1>8 DEF OutsDiffer
  <1>11. ASSUME NEW j \in Keys, NEW u \in Workers, NEW l \in Completed(j)',
                work'[u].pc = "answered", Key(u) = j
         PROVE  tasks'[j][l].out # work'[u].out
    BY <1>2, <1>3, <1>5, <1>7, <1>8, <1>11 DEF OutsDiffer
  <1>12. ASSUME NEW j \in Keys, NEW u \in Workers, NEW l \in reuse'[j], Held(u)', Key(u) = j
         PROVE  tasks'[j][l].out # work'[u].out
    BY <1>2, <1>3, <1>5, <1>7, <1>8, <1>12 DEF OutsDiffer
  <1> QED BY <1>4, <1>9, <1>10, <1>11, <1>12 DEF OutsDiffer

(* A task is completed with the output of its worker.                      *)
LEMMA CompletesOuts ==
    ASSUME TaskInv, OutsDiffer, NEW w \in Workers, Completes(w)
    PROVE  OutsDiffer'
  <1>1. TypeOK /\ WorkerOK(w)
    BY DEF TaskInv
  <1>2. /\ plan' = plan /\ reuse' = reuse /\ work[w].pc = "answered" /\ Held(w)
        /\ Returned(w, work[w].out, "none")
    BY <1>1, CompletesIs DEF Statics, At, Held
  <1>3. /\ HeldLess(Workers \ {w}) /\ Held(w)' /\ work'[w].pc = "done"
        /\ work'[w].out = work[w].out
    BY <1>2, ReturnedHeld
  <1>4. PICK k \in Keys : k = Key(w)
    BY CompletesStore
  <1>5. reuse[k] = {}
    BY <1>2, <1>4, TaskFacts DEF Busy
  <1>6. Workers' = Workers /\ \A v : Key(v)' = Key(v)
    BY <1>2, SamePlan
  <1>7. \A u \in Workers : Held(u)' => Held(u) /\ work'[u].out = work[u].out
    BY <1>2, <1>3 DEF HeldLess
  <1>8. \A u \in Workers : work'[u].pc = "answered" => /\ u # w /\ work[u].pc = "answered"
                                                       /\ Held(u)' /\ Held(u)
    BY <1>2, <1>3 DEF HeldLess, Held
  <1>9. \A j \in Keys \ {k} : tasks'[j] = tasks[j] /\ Completed(j)' = Completed(j)
    BY <1>4, CompletesStore DEF Completed
  <1>10. PICK t : \A i \in Completed(k)' : \/ i \in Completed(k) /\ tasks'[k][i] = tasks[k][i]
                                           \/ i = t /\ tasks'[k][i].out = work[w].out
    <2>1. CASE tasks' = tasks
      BY <2>1 DEF Completed
    <2>2. CASE tasks' # tasks
      <3>1. /\ Completed(k)' = Completed(k) \cup {work[w].task}
            /\ \A i \in Completed(k) \ {work[w].task} : tasks'[k][i] = tasks[k][i]
            /\ tasks'[k][work[w].task].out = work[w].out
        BY <1>4, <1>6, <2>2, CompletesStore DEF Completed
      <3> QED BY <3>1
    <2> QED BY <2>1, <2>2
  <1>11. \A u, v \in Workers :
             Held(u)' /\ Held(v)' /\ Key(u) = Key(v) /\ work'[u].out = work'[v].out => u = v
    BY <1>7 DEF OutsDiffer
  <1>12. \A i \in Completed(k) : tasks[k][i].out # work[w].out
    BY <1>2, <1>4 DEF OutsDiffer
  <1>13. \A j \in Keys : \A l, m \in Completed(j)' : tasks'[j][l].out = tasks'[j][m].out => l = m
    <2> TAKE j \in Keys
    <2>1. CASE j # k
      BY <1>9, <2>1 DEF OutsDiffer
    <2>2. CASE j = k
      BY <1>10, <1>12, <2>2 DEF OutsDiffer
    <2> QED BY <2>1, <2>2
  <1>14. ASSUME NEW j \in Keys, NEW u \in Workers, NEW l \in Completed(j)',
                work'[u].pc = "answered", Key(u) = j
         PROVE  tasks'[j][l].out # work'[u].out
    <2>1. u # w /\ work[u].pc = "answered" /\ Held(u) /\ work'[u].out = work[u].out
      BY <1>7, <1>8, <1>14
    <2>2. CASE j # k
      BY <1>9, <1>14, <2>1, <2>2 DEF OutsDiffer
    <2>3. CASE j = k
      <3>1. work[u].out # work[w].out
        BY <1>2, <1>4, <1>14, <2>1, <2>3 DEF OutsDiffer
      <3>2. \A i \in Completed(k) : tasks[k][i].out # work[u].out
        BY <1>14, <2>1, <2>3 DEF OutsDiffer
      <3> QED BY <1>10, <1>14, <2>1, <2>3, <3>1, <3>2
    <2> QED BY <2>2, <2>3
  <1>15. ASSUME NEW j \in Keys, NEW u \in Workers, NEW l \in reuse'[j], Held(u)', Key(u) = j
         PROVE  tasks'[j][l].out # work'[u].out
    <2>1. j # k
      BY <1>2, <1>5, <1>15
    <2> QED BY <1>2, <1>7, <1>9, <1>15, <2>1 DEF OutsDiffer
  <1> QED BY <1>6, <1>11, <1>13, <1>14, <1>15 DEF OutsDiffer

(* What nobody holds.                                                      *)
LEMMA NobodyHolds ==
    ASSUME \A v \in Workers : work'[v].pc \in {"off", "take"}
    PROVE  HeldLess(Workers) /\ \A v \in Workers : ~Held(v)'
  BY DEF HeldLess, Held, Done

LEMMA WorksOuts ==
    ASSUME TaskInv, OutsDiffer, NEW w \in Workers, Works(w)
    PROVE  OutsDiffer'
  <1>1. TypeOK /\ WorkerOK(w)
    BY DEF TaskInv
  <1>2. ASSUME NEW out, NEW err, err # "none", Returned(w, out, err)
        PROVE  HeldLess(Workers)
    BY <1>2, ReturnedHeld DEF HeldLess
  <1>3. CASE GivesUp(w)
    <2>1. plan' = plan /\ UNCHANGED <<tasks, reuse>> /\ Returned(w, 0, "canceled")
      BY <1>1, <1>3, GivesUpIs DEF Statics
    <2> QED BY <1>2, <2>1, OutsQuiet
  <1>4. CASE Creates(w)
    <2>1. plan' = plan /\ reuse' = reuse /\ HeldLess(Workers)
      <3>1. CASE /\ w \in Steps /\ KeptBut({w, Child(w)}) /\ work'[w].pc = "delegating"
                 /\ work'[Child(w)].pc = "take"
        BY <1>1, <1>4, <3>1, CreatesIs, KeptHeld DEF Statics
      <3>2. CASE KeptBut({w}) /\ work'[w].pc = "ask"
        BY <1>1, <1>4, <3>2, CreatesIs, KeptHeld DEF Statics
      <3> QED BY <1>1, <1>4, <3>1, <3>2, CreatesIs DEF WorkIs
    <2>2. \A k \in Keys : /\ Completed(k)' = Completed(k) /\ reuse[k] \subseteq Completed(k)
                          /\ \A i \in Completed(k) : tasks'[k][i] = tasks[k][i]
      BY <1>4, CreatesStore, HeldFacts
    <2> QED BY <2>1, <2>2, OutsKept
  <1>5. CASE CreateFails(w) \/ AskFails(w) \/ Rejects(w)
    <2>1. /\ plan' = plan /\ UNCHANGED <<tasks, reuse>> /\ KeptBut({w})
          /\ work'[w].pc = "failing"
      BY <1>1, <1>5, CreateFailsIs, AskFailsIs, RejectsIs DEF Alone, Statics, WorkIs
    <2>2. HeldLess(Workers)
      BY <2>1, KeptHeld
    <2> QED BY <2>1, <2>2, OutsQuiet
  <1>6. CASE Fails(w)
    <2>1. /\ plan' = plan /\ reuse' = reuse /\ work[w].pc = "failing"
          /\ \/ KeptBut({w}) /\ work'[w].pc = "backoff"
             \/ Returned(w, 0, "budget") \/ Returned(w, 0, work[w].err)
      BY <1>1, <1>6, FailsIs DEF Alone, Statics, WorkIs, At
    <2>2. work[w].err # "none"
      BY <1>1, <2>1 DEF WorkerOK, Sound
    <2>3. HeldLess(Workers)
      <3>1. CASE KeptBut({w}) /\ work'[w].pc = "backoff"
        BY <3>1, KeptHeld
      <3> QED BY <1>2, <2>1, <2>2, <3>1
    <2>4. \A k \in Keys : /\ Completed(k)' \subseteq Completed(k)
                          /\ \A i \in Completed(k)' : tasks'[k][i] = tasks[k][i]
      BY <1>6, FailsStore
    <2>5. \A k \in Keys : reuse'[k] \subseteq Completed(k)'
      <3>1. \A k \in Keys : KeyOK(k)'
        BY <1>6, FailsStore DEF StoreInv
      <3> QED BY <3>1 DEF KeyOK
    <2> QED BY <2>1, <2>3, <2>4, <2>5, OutsKept
  <1>7. CASE BackoffEnds(w)
    <2>1. /\ plan' = plan /\ UNCHANGED <<tasks, reuse>>
          /\ \/ KeptBut({w}) /\ work'[w].pc = "create"
             \/ Returned(w, 0, "canceled")
      BY <1>1, <1>7, BackoffEndsIs DEF Alone, Statics, WorkIs
    <2>2. HeldLess(Workers)
      <3>1. CASE KeptBut({w}) /\ work'[w].pc = "create"
        BY <3>1, KeptHeld
      <3> QED BY <1>2, <2>1, <3>1
    <2> QED BY <2>1, <2>2, OutsQuiet
  <1> QED BY <1>3, <1>4, <1>5, <1>6, <1>7, TakesOuts, AnsweredOuts, CompletesOuts DEF Works

(* A process that starts the stage has no outputs.                         *)
LEMMA StartWorkers ==
    ASSUME TaskInv, \/ StartsParallel \/ StartsSequential
    PROVE  /\ plan' = plan /\ UNCHANGED <<tasks, reuse, log, answers, copying>>
           /\ \A v \in Workers : work[v] = Off
           /\ \/ phase' = "over" /\ work' = work /\ subAgents' = subAgents
              \/ /\ StartsParallel /\ HasRoom(toRun) /\ subAgents' = subAgents + toRun
                 /\ \A v \in Steps : work'[v] = [Off EXCEPT !.pc = "take"]
                 /\ \A v \in Workers \ Steps : work'[v] = Off
              \/ /\ StartsSequential /\ subAgents' = subAgents
                 /\ work'[1] = [Off EXCEPT !.pc = "take"]
                 /\ \A v \in Workers \ {1} : work'[v] = Off
  <1>1. /\ plan' = plan /\ UNCHANGED <<tasks, reuse, log, answers, copying>> /\ phase = "starting"
    BY DEF StartsParallel, StartsSequential, stored
  <1>2. work = [v \in Workers |-> Off] /\ plan \in Plans
    BY <1>1 DEF TaskInv, NotStarted, TypeOK
  <1>3. Steps \subseteq Workers /\ 1 \in Steps
    BY <1>2, WorkersAre
  <1>4. \A v \in Workers : work[v] = Off
    BY <1>2, Zenon
  <1>5. CASE StartsParallel
    <2>1. CASE ~HasRoom(toRun)
      BY <1>1, <1>4, <1>5, <2>1 DEF StartsParallel, Ends
    <2>2. CASE HasRoom(toRun)
      <3>1. /\ subAgents' = subAgents + toRun
            /\ work' = [w \in Workers |-> IF w \in Steps THEN [Off EXCEPT !.pc = "take"]
                                          ELSE Off]
        BY <1>5, <2>2 DEF StartsParallel
      <3>2. /\ \A v \in Steps : work'[v] = [Off EXCEPT !.pc = "take"]
            /\ \A v \in Workers \ Steps : work'[v] = Off
        BY <1>3, <3>1
      <3> QED BY <1>1, <1>4, <1>5, <2>2, <3>1, <3>2
    <2> QED BY <2>1, <2>2
  <1>6. CASE StartsSequential
    <2>1. work' = [work EXCEPT ![1] = PutPc(work[1], "take")] /\ subAgents' = subAgents
      BY <1>6 DEF StartsSequential, PutPc
    <2>2. PutPc(work[1], "take") = [Off EXCEPT !.pc = "take"]
      BY <1>3, <1>4 DEF PutPc
    <2> DEFINE r == [Off EXCEPT !.pc = "take"]
    <2>3. work' = [work EXCEPT ![1] = r]
      BY <2>1, <2>2
    <2> HIDE DEF r
    <2>4. work'[1] = r /\ \A v \in Workers \ {1} : work'[v] = Off
      BY <1>2, <1>3, <1>4, <2>3
    <2> QED BY <1>1, <1>4, <1>6, <2>1, <2>4 DEF r
  <1> QED BY <1>5, <1>6

LEMMA OutsStep ==
    ASSUME TaskInv, OutsDiffer, Next
    PROVE  OutsDiffer'
  <1>1. plan \in Plans /\ plan' = plan
    BY WorksIs DEF TaskInv, TypeOK, Next, Stage, stageGate, StartsParallel, StartsSequential,
                   Collects, Finishes, ContextEnds, Crashes, Resumes, ReExecutes, Statics
  <1>2. ASSUME UNCHANGED <<tasks, reuse, work>>
        PROVE  OutsDiffer'
    <2>1. HeldLess(Workers)
      BY <1>2 DEF HeldLess, Held, Done
    <2> QED BY <1>1, <1>2, <2>1, OutsQuiet
  <1>3. CASE StartsParallel \/ StartsSequential
    <2>1. UNCHANGED <<tasks, reuse>>
      BY <1>3, StartWorkers
    <2>2. (\A v \in Workers : work'[v].pc \in {"off", "take"}) \/ work' = work
      BY <1>3, StartWorkers, TakeIs, OffIs
    <2> QED BY <1>1, <1>2, <2>1, <2>2, NobodyHolds, OutsQuiet
  <1>4. CASE Resumes \/ ReExecutes
    <2>1. work' = [v \in Workers |-> Off]
      BY <1>4 DEF Resumes, ReExecutes, Fresh
    <2>2. \A v \in Workers : work'[v].pc \in {"off", "take"}
      BY <2>1, OffIs
    <2>3. \A k \in Keys : /\ Completed(k)' \subseteq Completed(k)
                          /\ \A i \in Completed(k)' : tasks'[k][i].out = tasks[k][i].out
                          /\ reuse'[k] \subseteq Completed(k)'
      BY <1>4, ResumesStore, CopyStore
    <2> QED BY <1>1, <2>2, <2>3, NobodyHolds, OutsKept
  <1>5. stageGate \/ Collects \/ Finishes \/ ContextEnds \/ Crashes =>
            UNCHANGED <<tasks, reuse, work>>
    BY DEF stageGate, Collects, Finishes, ContextEnds, Crashes, stored
  <1> QED BY <1>2, <1>3, <1>4, <1>5, WorksOuts DEF Next, Stage

(* The outputs of a key and the steps that have one.                       *)
LEMMA KeySets ==
    ASSUME TaskInv, NEW k \in Keys
    PROVE  /\ IsFiniteSet(Completed(k)) /\ Cardinality(Completed(k)) \in Nat
           /\ IsFiniteSet(reuse[k]) /\ Cardinality(reuse[k]) \in Nat
           /\ \A S \in SUBSET Steps : IsFiniteSet(S) /\ Cardinality(S) \in Nat
           /\ Owners(k) \in SUBSET Steps /\ Finished(k) \in SUBSET Steps
           /\ Cardinality(Finished(k)) <= Cardinality(Owners(k))
  <1>1. PICK n \in Nat : /\ Completed(k) \subseteq 1 .. n /\ reuse[k] \subseteq 1 .. n
    <2>1. Len(tasks[k]) \in Nat /\ Completed(k) \subseteq 1 .. Len(tasks[k])
      BY KeyFacts
    <2>2. reuse[k] \subseteq Completed(k)
      BY HeldFacts
    <2> QED BY <2>1, <2>2
  <1>2. IsFiniteSet(1 .. n)
    BY FS_Interval
  <1>3. plan \in Plans
    BY DEF TaskInv, TypeOK
  <1>4. Owners(k) \in SUBSET Steps /\ Finished(k) \subseteq Owners(k)
    BY DEF Owners, Finished
  <1>5. \A S \in SUBSET Steps : IsFiniteSet(S) /\ Cardinality(S) \in Nat
    <2>1. Size \in Nat
      BY <1>3, WorkersAre
    <2> QED BY <1>3, <2>1, StepSets
  <1>6. Cardinality(Finished(k)) <= Cardinality(Owners(k))
    BY <1>4, <1>5, FS_Subset
  <1> QED BY <1>1, <1>2, <1>4, <1>5, <1>6, FS_Subset, FS_CardinalityType

(* No output is taken, and none comes.                                     *)
LEMMA OnceKept ==
    ASSUME TaskInv, TaskInv', OnceInv, plan' = plan, Fine' = Fine,
           \A k \in Keys : reuse'[k] = reuse[k] /\ Completed(k)' \subseteq Completed(k)
    PROVE  OnceInv'
  <1>1. Steps' = Steps /\ \A v : Key(v)' = Key(v)
    BY SamePlan
  <1>2. ASSUME NEW k \in Keys
        PROVE  /\ Owners(k)' = Owners(k) /\ Finished(k)' = Finished(k)
               /\ Cardinality(Completed(k)') <= Cardinality(Completed(k))
               /\ Cardinality(Completed(k)') \in Nat
    <2>1. Owners(k)' = Owners(k)
      BY <1>1 DEF Owners
    <2>2. Finished(k)' = Finished(k)
      BY <2>1 DEF Finished
    <2> QED BY <2>1, <2>2, KeySets, FS_Subset, FS_CardinalityType
  <1>3. ASSUME NEW k \in Keys, \A i \in Steps : plan.child[i] # k
        PROVE  /\ Cardinality(reuse'[k]) + Cardinality(Finished(k)') <= Cardinality(Owners(k)')
               /\ Cardinality(Completed(k)') <= Cardinality(reuse'[k]) + Cardinality(Finished(k)')
    <2> DEFINE A == Cardinality(Completed(k))
               B == Cardinality(Completed(k)')
               C == Cardinality(reuse[k])
               D == Cardinality(Finished(k))
    <2>1. A \in Nat /\ B \in Nat /\ C \in Nat /\ D \in Nat /\ B <= A
      BY <1>2, KeySets
    <2>2. C + D <= Cardinality(Owners(k)) /\ A <= C + D
      BY <1>3 DEF OnceInv
    <2> HIDE DEF A, B, C, D
    <2>3. B <= C + D
      BY <2>1, <2>2
    <2> QED BY <1>2, <2>2, <2>3 DEF B, C, D
  <1> QED BY <1>1, <1>3 DEF OnceInv

(* Who goes on when w returns.                                             *)
LEMMA ReturnedTo ==
    ASSUME TaskInv, phase = "running", NEW w \in Workers,
           work[w].pc \notin {"off", "done", "delegating"},
           NEW out, NEW err, Returned(w, out, err)
    PROVE  \E x : /\ KeptBut({w, x})
                  /\ \/ x = w
                     \/ /\ x \in Steps /\ x # w
                        /\ \/ work[x].pc = "delegating" /\ work'[x].pc \in {"ask", "failing"}
                           \/ /\ work[x].pc = "off" /\ work'[x].pc = "take"
                              /\ plan.kind = "sequential"
  <1>1. plan \in Plans /\ WorkerOK(w)
    BY DEF TaskInv, TypeOK
  <1>2. CASE ToParent(w, err)
    <2>1. PICK p \in Steps : p = Parent(w) /\ work[p].pc = "delegating" /\ p # w
      BY <1>1, <1>2, WorkersAre DEF ToParent, WorkerOK
    <2>2. KeptBut({w, p}) /\ work'[p].pc \in {"ask", "failing"}
      BY <1>2, <2>1 DEF ToParent, WorkIs
    <2> QED BY <2>1, <2>2
  <1>3. CASE ToNext(w, err)
    <2>1. PICK n : n = w + 1
      OBVIOUS
    <2>2. KeptBut({w, n}) /\ work'[n].pc = "take" /\ n \in Steps /\ w \in Steps
          /\ plan.kind = "sequential"
      BY <1>3, <2>1 DEF ToNext, WorkIs
    <2>3. n > w
      BY <1>1, <2>1, <2>2, WorkersAre
    <2>4. work[n].pc = "off"
      BY <2>2, <2>3, OrderIs
    <2> QED BY <2>2, <2>4
  <1>4. CASE ToChannel(w) \/ ToEnd(w, err)
    BY <1>4 DEF ToChannel, ToEnd, KeptBut
  <1> QED BY <1>2, <1>3, <1>4 DEF Returned

(* A step that returns an output has it then.                              *)
LEMMA ReturnedFine ==
    ASSUME TaskInv, phase = "running", NEW w \in Workers, plan' = plan,
           work[w].pc \notin {"off", "done", "delegating"},
           NEW out, NEW err, Returned(w, out, err)
    PROVE  /\ w \notin Fine
           /\ Fine' = IF err = "none" /\ w \in Steps THEN Fine \cup {w} ELSE Fine
  <1>1. /\ plan \in Plans /\ WorkerOK(w) /\ Steps' = Steps /\ Steps \subseteq Workers
    BY WorkersAre, SamePlan DEF TaskInv, TypeOK
  <1>2. work'[w].pc = "done" /\ work'[w].err = err
    BY DEF Returned, WorkIs
  <1>4. PICK x : KeptBut({w, x}) /\ (x = w \/ (work'[x].pc # "done" /\ work[x].pc # "done"))
    BY ReturnedTo
  <1>5. \A i \in Steps \ {w} : i \in Fine' <=> i \in Fine
    <2> TAKE i \in Steps \ {w}
    <2>1. CASE i = x
      BY <1>1, <1>4, <2>1 DEF Fine, Done
    <2>2. CASE i # x
      BY <1>1, <1>4, <2>2 DEF Fine, Done, KeptBut
    <2> QED BY <2>1, <2>2
  <1>6. w \notin Fine /\ Fine \subseteq Steps /\ Fine' \subseteq Steps
    BY <1>1 DEF Fine, Done
  <1>7. w \in Fine' <=> err = "none" /\ w \in Steps
    BY <1>1, <1>2 DEF Fine, Done
  <1> QED BY <1>5, <1>6, <1>7

LEMMA AloneFine ==
    ASSUME plan' = plan, NEW w, KeptBut({w}), work[w].pc # "done", work'[w].pc # "done",
           plan \in Plans
    PROVE  Fine' = Fine
  <1>1. Steps' = Steps /\ Steps \subseteq Workers
    BY WorkersAre, SamePlan
  <1> QED BY <1>1 DEF Fine, Done, KeptBut

(* Whose key no other step asks for is a step's own.                       *)
LEMMA FinishedOf ==
    ASSUME plan \in Plans, plan' = plan, NEW w \in Workers, NEW k \in Keys, k = Key(w),
           NEW j \in Keys, \A i \in Steps : plan.child[i] # j,
           w \notin Fine, Fine' = IF w \in Steps THEN Fine \cup {w} ELSE Fine
    PROVE  /\ Owners(j)' = Owners(j) /\ w \notin Finished(j)
           /\ j # k => Finished(j)' = Finished(j)
           /\ j = k => Finished(j)' = Finished(j) \cup {w}
  <1>1. Steps' = Steps /\ \A v : Key(v)' = Key(v)
    BY SamePlan
  <1>2. Owners(j)' = Owners(j)
    BY <1>1 DEF Owners
  <1>3. Finished(j)' = Owners(j) \cap Fine'
    BY <1>2 DEF Finished
  <1>4. j = k => w \in Steps
    BY WorkersAre
  <1>5. w \in Owners(j) <=> w \in Steps /\ j = k
    BY DEF Owners
  <1> QED BY <1>2, <1>3, <1>4, <1>5 DEF Finished

LEMMA TakesOnce ==
    ASSUME TaskInv, OnceInv, NEW w \in Workers, Takes(w)
    PROVE  OnceInv'
  <1>1. /\ plan \in Plans /\ plan' = plan /\ tasks' = tasks /\ Key(w) \in Keys /\ TypeOK
        /\ work[w].pc = "take" /\ phase = "running"
    BY Moving, TakesIs DEF TaskInv, Statics, At, TypeOK
  <1>2. TaskInv'
    BY WorksTasks DEF Works
  <1>3. \A k \in Keys : Completed(k)' = Completed(k)
    BY <1>1 DEF Completed
  <1>4. CASE /\ reuse' = reuse
             /\ \/ Alone(w) /\ WorkIs(w, "create", work[w].attempt, work[w].task,
                                      work[w].out, work[w].err)
                \/ Returned(w, 0, "budget")
    <2>1. CASE Alone(w) /\ WorkIs(w, "create", work[w].attempt, work[w].task,
                                  work[w].out, work[w].err)
      <3>1. KeptBut({w}) /\ work'[w].pc = "create"
        BY <2>1 DEF Alone, WorkIs
      <3>2. Fine' = Fine
        BY <1>1, <3>1, AloneFine
      <3> QED BY <1>1, <1>2, <1>3, <1>4, <3>2, OnceKept
    <2>2. CASE Returned(w, 0, "budget")
      <3>1. Fine' = Fine
        BY <1>1, <2>2, ReturnedFine
      <3> QED BY <1>1, <1>2, <1>3, <1>4, <3>1, OnceKept
    <2> QED BY <1>4, <2>1, <2>2
  <1>5. ASSUME NEW k \in Keys, k = Key(w), NEW i \in reuse[k],
               Returned(w, tasks[k][i].out, "none"), reuse' = [reuse EXCEPT ![k] = @ \ {i}]
        PROVE  OnceInv'
    <2>1. w \notin Fine /\ Fine' = IF w \in Steps THEN Fine \cup {w} ELSE Fine
      BY <1>1, <1>5, ReturnedFine
    <2>2. reuse'[k] = reuse[k] \ {i} /\ \A j \in Keys \ {k} : reuse'[j] = reuse[j]
      <3>1. DOMAIN reuse = Keys
        BY <1>1 DEF TypeOK
      <3> QED BY <1>5, <3>1
    <2>3. ASSUME NEW j \in Keys, \A l \in Steps : plan.child[l] # j
          PROVE  /\ Cardinality(reuse'[j]) + Cardinality(Finished(j)') <= Cardinality(Owners(j)')
                 /\ Cardinality(Completed(j)') <= Cardinality(reuse'[j]) + Cardinality(Finished(j)')
      <3>1. /\ Owners(j)' = Owners(j) /\ w \notin Finished(j)
            /\ j # k => Finished(j)' = Finished(j)
            /\ j = k => Finished(j)' = Finished(j) \cup {w}
        BY <1>1, <1>5, <2>1, <2>3, FinishedOf
      <3>2. /\ Cardinality(reuse[j]) + Cardinality(Finished(j)) <= Cardinality(Owners(j))
            /\ Cardinality(Completed(j)) <= Cardinality(reuse[j]) + Cardinality(Finished(j))
        BY <2>3 DEF OnceInv
      <3>3. CASE j # k
        BY <1>3, <2>2, <3>1, <3>2, <3>3
      <3>4. CASE j = k
        <4>1. /\ IsFiniteSet(reuse[j]) /\ IsFiniteSet(Finished(j))
              /\ Cardinality(reuse[j]) \in Nat /\ Cardinality(Finished(j)) \in Nat
          BY KeySets
        <4>2. Cardinality(reuse'[j]) = Cardinality(reuse[j]) - 1
          <5>1. reuse'[j] = reuse[j] \ {i} /\ i \in reuse[j]
            BY <1>5, <2>2, <3>4
          <5> QED BY <4>1, <5>1, FS_RemoveElement
        <4>3. Cardinality(Finished(j)') = Cardinality(Finished(j)) + 1
          BY <3>1, <3>4, <4>1, FS_AddElement
        <4>4. Cardinality(reuse'[j]) + Cardinality(Finished(j)')
                = Cardinality(reuse[j]) + Cardinality(Finished(j))
          BY <4>1, <4>2, <4>3
        <4> QED BY <1>3, <3>1, <3>2, <4>4
      <3> QED BY <3>3, <3>4
    <2>4. Steps' = Steps
      BY <1>1, SamePlan
    <2> QED BY <1>1, <2>3, <2>4 DEF OnceInv
  <1> QED BY <1>1, <1>4, <1>5, TakesIs DEF TaskInv

LEMMA CompletesOnce ==
    ASSUME TaskInv, OnceInv, NEW w \in Workers, Completes(w)
    PROVE  OnceInv'
  <1>1. /\ plan \in Plans /\ plan' = plan /\ reuse' = reuse /\ work[w].pc = "answered"
        /\ phase = "running" /\ Returned(w, work[w].out, "none")
    BY CompletesIs DEF TaskInv, TypeOK, Statics, At
  <1>2. PICK k \in Keys : k = Key(w) /\ reuse[k] = {}
    BY <1>1, TaskFacts DEF Busy
  <1>3. w \notin Fine /\ Fine' = IF w \in Steps THEN Fine \cup {w} ELSE Fine
    BY <1>1, ReturnedFine
  <1>4. \A v : Key(v)' = Key(v)
    BY <1>1, SamePlan
  <1>5. \A j \in Keys \ {k} : Completed(j)' = Completed(j)
    BY <1>2, CompletesStore DEF Completed
  <1>6. Completed(k)' \subseteq Completed(k) \cup {work[w].task}
    <2>1. CASE tasks' = tasks
      BY <2>1 DEF Completed
    <2>2. CASE tasks' # tasks
      BY <1>2, <1>4, <2>2, CompletesStore DEF Completed
    <2> QED BY <2>1, <2>2
  <1>8. ASSUME NEW j \in Keys, \A l \in Steps : plan.child[l] # j
        PROVE  /\ Cardinality(reuse'[j]) + Cardinality(Finished(j)') <= Cardinality(Owners(j)')
               /\ Cardinality(Completed(j)') <= Cardinality(reuse'[j]) + Cardinality(Finished(j)')
    <2>1. /\ Owners(j)' = Owners(j) /\ w \notin Finished(j)
          /\ j # k => Finished(j)' = Finished(j)
          /\ j = k => Finished(j)' = Finished(j) \cup {w}
      BY <1>1, <1>2, <1>3, <1>8, FinishedOf
    <2>2. /\ Cardinality(reuse[j]) + Cardinality(Finished(j)) <= Cardinality(Owners(j))
          /\ Cardinality(Completed(j)) <= Cardinality(reuse[j]) + Cardinality(Finished(j))
      BY <1>8 DEF OnceInv
    <2>3. CASE j # k
      BY <1>1, <1>5, <2>1, <2>2, <2>3
    <2>4. CASE j = k
      <3>1. /\ IsFiniteSet(Completed(j)) /\ IsFiniteSet(Finished(j))
            /\ Cardinality(Completed(j)) \in Nat /\ Cardinality(Finished(j)) \in Nat
        BY KeySets
      <3>2. Cardinality(Finished(j)') = Cardinality(Finished(j)) + 1
        BY <2>1, <2>4, <3>1, FS_AddElement
      <3>3. Cardinality(reuse[j]) = 0
        BY <1>2, <2>4, FS_EmptySet
      <3>4. Cardinality(Finished(j)') <= Cardinality(Owners(j)')
        <4>1. Finished(j)' \subseteq Owners(j)'
          BY DEF Finished
        <4>2. IsFiniteSet(Owners(j)')
          BY <2>1, KeySets
        <4> QED BY <4>1, <4>2, FS_Subset
      <3>5. PICK t : Completed(j)' \subseteq Completed(j) \cup {t}
        BY <1>6, <2>4
      <3>6. IsFiniteSet(Completed(j) \cup {t})
            /\ Cardinality(Completed(j) \cup {t}) <= Cardinality(Completed(j)) + 1
            /\ Cardinality(Completed(j) \cup {t}) \in Nat
        <4>1. CASE t \in Completed(j)
          <5>1. PICK S : S = Completed(j)
            OBVIOUS
          <5>2. S \cup {t} = S
            BY <4>1, <5>1
          <5>3. Cardinality(S) \in Nat /\ IsFiniteSet(S)
            BY <3>1, <5>1
          <5>4. Cardinality(S) <= Cardinality(S) + 1
            BY <5>3
          <5> QED BY <5>1, <5>2, <5>3, <5>4, Zenon
        <4>2. CASE t \notin Completed(j)
          BY <3>1, <4>2, FS_AddElement
        <4> QED BY <4>1, <4>2
      <3>7. Cardinality(Completed(j)') <= Cardinality(Completed(j)) + 1
            /\ Cardinality(Completed(j)') \in Nat
        <4>1. Cardinality(Completed(j)') <= Cardinality(Completed(j) \cup {t})
              /\ IsFiniteSet(Completed(j)')
          BY <3>5, <3>6, FS_Subset
        <4>2. Cardinality(Completed(j)') \in Nat
          BY <4>1, FS_CardinalityType
        <4> QED BY <3>1, <3>6, <4>1, <4>2
      <3>8. Cardinality(Completed(j)') <= Cardinality(Finished(j)')
        BY <2>2, <3>1, <3>2, <3>3, <3>7
      <3>9. reuse'[j] = reuse[j] /\ Cardinality(Finished(j)') \in Nat
        BY <1>1, <3>1, <3>2
      <3> QED BY <3>3, <3>4, <3>8, <3>9
    <2> QED BY <2>3, <2>4
  <1>9. Steps' = Steps
    BY <1>1, SamePlan
  <1> QED BY <1>1, <1>8, <1>9 DEF OnceInv

LEMMA WorksOnce ==
    ASSUME TaskInv, OnceInv, NEW w \in Workers, Works(w)
    PROVE  OnceInv'
  <1>1. /\ TypeOK /\ WorkerOK(w) /\ TaskInv' /\ plan \in Plans /\ plan' = plan
        /\ phase = "running" /\ work[w].pc \notin {"off", "done", "delegating"}
    BY WorksTasks, WorksIs DEF TaskInv, TypeOK, Statics
  <1>2. ASSUME NEW err, err # "none", Returned(w, 0, err)
        PROVE  Fine' = Fine
    BY <1>1, <1>2, ReturnedFine
  <1>3. ASSUME KeptBut({w}), work'[w].pc # "done"
        PROVE  Fine' = Fine
    BY <1>1, <1>3, AloneFine
  <1>4. CASE GivesUp(w) \/ CreateFails(w) \/ Asks(w) \/ Chat(w) \/ AskFails(w) \/ Rejects(w)
             \/ BackoffEnds(w)
    <2>1. UNCHANGED <<tasks, reuse>>
      BY <1>4 DEF GivesUp, CreateFails, Asks, Chat, AskFails, Rejects, BackoffEnds, stored
    <2>2. Fine' = Fine
      <3>1. CASE GivesUp(w)
        BY <1>1, <1>2, <3>1, GivesUpIs
      <3>2. CASE Asks(w) \/ Chat(w)
        BY <1>1, <1>3, <3>2, AsksIs, ChatIs DEF Alone, WorkIs
      <3>3. CASE CreateFails(w) \/ AskFails(w) \/ Rejects(w)
        BY <1>1, <1>3, <3>3, CreateFailsIs, AskFailsIs, RejectsIs DEF Alone, WorkIs
      <3>4. CASE BackoffEnds(w)
        BY <1>1, <1>2, <1>3, <3>4, BackoffEndsIs DEF Alone, WorkIs
      <3> QED BY <1>4, <3>1, <3>2, <3>3, <3>4
    <2>3. \A k \in Keys : Completed(k)' = Completed(k)
      BY <2>1 DEF Completed
    <2> QED BY <1>1, <2>1, <2>2, <2>3, OnceKept
  <1>5. CASE Creates(w)
    <2>1. Fine' = Fine
      <3>1. CASE KeptBut({w}) /\ work'[w].pc = "ask"
        BY <1>3, <3>1
      <3>2. CASE /\ w \in Steps /\ KeptBut({w, Child(w)}) /\ work'[w].pc = "delegating"
        <4>1. \A i \in Steps \ {w} : work'[i] = work[i]
          BY <1>1, <3>2, WorkersAre DEF KeptBut
        <4>2. Steps' = Steps
          BY <1>1, SamePlan
        <4> QED BY <1>1, <3>2, <4>1, <4>2 DEF Fine, Done
      <3> QED BY <1>1, <1>5, <3>1, <3>2, CreatesIs DEF WorkIs
    <2>2. reuse' = reuse /\ \A k \in Keys : Completed(k)' = Completed(k)
      BY <1>1, <1>5, CreatesStore, CreatesIs
    <2> QED BY <1>1, <2>1, <2>2, OnceKept
  <1>6. CASE Fails(w)
    <2>1. /\ reuse' = reuse /\ work[w].pc = "failing"
          /\ \/ KeptBut({w}) /\ work'[w].pc = "backoff"
             \/ Returned(w, 0, "budget") \/ Returned(w, 0, work[w].err)
      BY <1>1, <1>6, FailsIs DEF Alone, WorkIs, At
    <2>2. work[w].err # "none"
      BY <1>1, <2>1 DEF WorkerOK, Sound
    <2>3. Fine' = Fine
      BY <1>2, <1>3, <2>1, <2>2
    <2>4. \A k \in Keys : Completed(k)' \subseteq Completed(k)
      BY <1>6, FailsStore
    <2> QED BY <1>1, <2>1, <2>3, <2>4, OnceKept
  <1> QED BY <1>4, <1>5, <1>6, TakesOnce, CompletesOnce DEF Works

LEMMA OnceStep ==
    ASSUME TaskInv, TaskInv', OnceInv, Next
    PROVE  OnceInv'
  <1>1. plan \in Plans /\ plan' = plan /\ Steps' = Steps
    BY WorksIs, SamePlan
       DEF TaskInv, TypeOK, Next, Stage, stageGate, StartsParallel, StartsSequential,
           Collects, Finishes, ContextEnds, Crashes, Resumes, ReExecutes, Statics
  <1>2. ASSUME UNCHANGED <<tasks, reuse>>, Fine' = Fine
        PROVE  OnceInv'
    <2>1. \A k \in Keys : Completed(k)' = Completed(k)
      BY <1>2 DEF Completed
    <2> QED BY <1>1, <1>2, <2>1, OnceKept
  <1>3. CASE StartsParallel \/ StartsSequential
    <2>1. UNCHANGED <<tasks, reuse>>
      BY <1>3, StartWorkers
    <2>2. Fine' = Fine
      <3>1. \A i \in Steps : work[i].pc = "off" /\ (work'[i].pc \in {"off", "take"} \/ work' = work)
        BY <1>1, <1>3, StartWorkers, TakeIs, OffIs, WorkersAre
      <3> QED BY <1>1, <3>1 DEF Fine, Done
    <2> QED BY <1>2, <2>1, <2>2
  <1>4. CASE Resumes \/ ReExecutes
    <2>1. work' = [v \in Workers |-> Off]
      BY <1>4 DEF Resumes, ReExecutes, Fresh
    <2>2. \A v \in Steps : work'[v].pc = "off"
      BY <1>1, <2>1, OffIs, WorkersAre
    <2>3. \A k \in Keys : Finished(k)' = {} /\ Owners(k)' = Owners(k)
      <3>1. Fine' = {}
        BY <1>1, <2>2 DEF Fine, Done
      <3>2. \A v : Key(v)' = Key(v)
        BY <1>1, SamePlan
      <3> QED BY <1>1, <3>1, <3>2 DEF Finished, Owners
    <2>4. ASSUME NEW k \in Keys, \A i \in Steps : plan.child[i] # k
          PROVE  /\ Cardinality(reuse'[k]) + 0 <= Cardinality(Owners(k))
                 /\ Cardinality(Completed(k)') <= Cardinality(reuse'[k]) + 0
      <3>1. /\ Cardinality(Completed(k)) \in Nat /\ Cardinality(Owners(k)) \in Nat
            /\ Cardinality(reuse[k]) \in Nat /\ Cardinality(Finished(k)) \in Nat
        BY KeySets
      <3>2. Cardinality(Completed(k)) <= Cardinality(Owners(k))
        BY <2>4, <3>1 DEF OnceInv
      <3>3. CASE Resumes
        <4>1. Completed(k)' = Completed(k) /\ reuse'[k] = Completed(k)
          BY <3>3, ResumesStore
        <4> QED BY <3>1, <3>2, <4>1
      <3>4. CASE ReExecutes
        <4>1. Completed(k)' = {} /\ reuse'[k] = {}
          BY <3>4, CopyStore
        <4> QED BY <3>1, <4>1, FS_EmptySet
      <3> QED BY <1>4, <3>3, <3>4
    <2>5. Cardinality({}) = 0
      BY FS_EmptySet
    <2> QED BY <1>1, <2>3, <2>4, <2>5 DEF OnceInv
  <1>5. stageGate \/ Collects \/ Finishes \/ ContextEnds \/ Crashes =>
            UNCHANGED <<tasks, reuse>> /\ work' = work
    BY DEF stageGate, Collects, Finishes, ContextEnds, Crashes, stored
  <1>6. work' = work => Fine' = Fine
    BY <1>1, MetSame
  <1> QED BY <1>2, <1>3, <1>4, <1>5, <1>6, WorksOnce DEF Next, Stage

LEMMA InitOuts ==
    ASSUME Init
    PROVE  OutsDiffer /\ OnceInv
  <1>1. /\ plan \in Plans /\ tasks = Nothing /\ reuse = None
        /\ \A v \in Workers : work[v] = Off
    BY DEF Init
  <1>2. \A v \in Workers : ~Held(v)
    BY <1>1, OffIs DEF Held, Done
  <1>3. \A k \in Keys : Completed(k) = {} /\ reuse[k] = {}
    BY <1>1 DEF Completed, Nothing, None
  <1>4. OutsDiffer
    BY <1>2, <1>3 DEF OutsDiffer, Held
  <1>5. OnceInv
    <2>1. Fine = {}
      BY <1>1, WorkersAre, OffIs DEF Fine, Done
    <2>2. \A k \in Keys : /\ Finished(k) = {} /\ Owners(k) \in SUBSET Steps
                          /\ IsFiniteSet(Owners(k)) /\ Cardinality(Owners(k)) \in Nat
      BY <1>1, <2>1, StepSets, FS_CardinalityType DEF Finished, Owners
    <2>3. Cardinality({}) = 0
      BY FS_EmptySet
    <2> QED BY <1>3, <2>2, <2>3 DEF OnceInv
  <1> QED BY <1>4, <1>5

(* A completed task's output is used by one worker, and no step is         *)
(* completed twice, however often the run is restarted (reconcileTasks,    *)
(* take).                                                                  *)
THEOREM OutputsReusedOnce ==
    Spec => []ReusedOnce
  <1>1. Init => OutsDiffer /\ OnceInv
    BY InitOuts
  <1>2. StageInv /\ StageInv' /\ OutsDiffer /\ OnceInv /\ [Next]_vars => OutsDiffer' /\ OnceInv'
    <2>1. ASSUME StageInv, StageInv', OutsDiffer, OnceInv, Next
          PROVE  OutsDiffer' /\ OnceInv'
      BY <2>1, OutsStep, OnceStep DEF StageInv
    <2>2. ASSUME StageInv, StageInv', OutsDiffer, OnceInv, UNCHANGED vars
          PROVE  OutsDiffer' /\ OnceInv'
      <3>1. plan' = plan /\ UNCHANGED <<tasks, reuse, work>> /\ TaskInv /\ TaskInv'
        BY <2>2 DEF vars, stored, StageInv
      <3>2. HeldLess(Workers) /\ Fine' = Fine
        BY <3>1, MetSame DEF HeldLess, Held, Done
      <3>3. \A k \in Keys : Completed(k)' = Completed(k)
        BY <3>1 DEF Completed
      <3> QED BY <2>2, <3>1, <3>2, <3>3, OutsQuiet, OnceKept
    <2> QED BY <2>1, <2>2
  <1>3. StageInv /\ OutsDiffer /\ OnceInv => ReusedOnce
    <2> SUFFICES ASSUME StageInv, OutsDiffer, OnceInv
                 PROVE  ReusedOnce
      OBVIOUS
    <2>1. OutputsOwned
      BY DEF OutsDiffer, OutputsOwned, Held, Done
    <2>2. CompletedOnce
      <3>1. ASSUME NEW k \in Keys, \A i \in Steps : plan.child[i] # k
            PROVE  Cardinality(Completed(k)) <= Cardinality(Owners(k))
        <4>1. /\ Cardinality(Completed(k)) \in Nat /\ Cardinality(Owners(k)) \in Nat
              /\ Cardinality(reuse[k]) \in Nat /\ Cardinality(Finished(k)) \in Nat
          BY KeySets DEF StageInv
        <4> QED BY <3>1, <4>1 DEF OnceInv
      <3> QED BY <3>1 DEF CompletedOnce, Owners
    <2> QED BY <2>1, <2>2 DEF ReusedOnce
  <1> QED BY <1>1, <1>2, <1>3, StageInvariant, PTL DEF Spec

-----------------------------------------------------------------------------
(* Reservations of sub-agents.                                             *)

LEMMA WorkerSets ==
    ASSUME plan \in Plans, NEW S \in SUBSET Workers
    PROVE  IsFiniteSet(S) /\ Cardinality(S) \in Nat
  <1>1. Workers = 1 .. 2 * Size /\ 2 * Size \in Nat
    BY WorkersAre
  <1>2. IsFiniteSet(1 .. 2 * Size)
    BY <1>1, FS_Interval
  <1> QED BY <1>1, <1>2, FS_Subset, FS_CardinalityType

LEMMA SetCounts ==
    ASSUME NEW S, IsFiniteSet(S), NEW w
    PROVE  /\ Cardinality(S) \in Nat
           /\ Cardinality(S \cup {w}) = IF w \in S THEN Cardinality(S) ELSE Cardinality(S) + 1
           /\ Cardinality(S \ {w}) = IF w \in S THEN Cardinality(S) - 1 ELSE Cardinality(S)
  BY FS_AddElement, FS_RemoveElement, FS_CardinalityType

(* One that goes on beside w does not wait for a reservation.              *)
Beside(w, x) ==
    /\ KeptBut({w, x})
    /\ \/ x = w
       \/ /\ work[x].pc \notin {"create", "backoff", "take"}
          /\ work'[x].pc \notin {"create", "backoff"}
          /\ x \in Steps /\ work'[x].pc = "take" => plan.kind = "sequential"

LEMMA SetsAfter ==
    ASSUME plan \in Plans, plan' = plan, NEW w \in Workers, NEW x, Beside(w, x),
           work'[w].pc # "take"
    PROVE  /\ Pending' = IF work'[w].pc \in {"create", "backoff"} THEN Pending \cup {w}
                         ELSE Pending \ {w}
           /\ w \in Pending <=> work[w].pc \in {"create", "backoff"}
           /\ Takers \ {w} \subseteq Takers'
           /\ plan.kind = "parallel" => Takers' = Takers \ {w}
           /\ w \in Takers <=> w \in Steps /\ work[w].pc = "take"
  <1>1. Workers' = Workers /\ Steps' = Steps /\ Steps \subseteq Workers
    BY SamePlan, WorkersAre
  <1>2. \A v \in Workers \ {w} : v \in Pending' <=> v \in Pending
    <2> TAKE v \in Workers \ {w}
    <2>1. CASE v = x
      BY <1>1, <2>1 DEF Beside, Pending
    <2>2. CASE v # x
      BY <1>1, <2>2 DEF Beside, Pending, KeptBut
    <2> QED BY <2>1, <2>2
  <1>3. Pending \subseteq Workers /\ Pending' \subseteq Workers
        /\ (w \in Pending' <=> work'[w].pc \in {"create", "backoff"})
        /\ (w \in Pending <=> work[w].pc \in {"create", "backoff"})
    BY <1>1 DEF Pending
  <1>4. \A v \in Steps \ {w} : /\ v \in Takers => v \in Takers'
                               /\ v \in Takers' => v \in Takers \/ plan.kind = "sequential"
    <2> TAKE v \in Steps \ {w}
    <2>1. CASE v = x
      BY <1>1, <2>1 DEF Beside, Takers
    <2>2. CASE v # x
      BY <1>1, <2>2 DEF Beside, Takers, KeptBut
    <2> QED BY <2>1, <2>2
  <1>5. Takers \subseteq Steps /\ Takers' \subseteq Steps /\ w \notin Takers'
        /\ (w \in Takers <=> w \in Steps /\ work[w].pc = "take")
    BY <1>1 DEF Takers
  <1>6. Pending' = IF work'[w].pc \in {"create", "backoff"} THEN Pending \cup {w}
                   ELSE Pending \ {w}
    BY <1>2, <1>3
  <1>7. Takers \ {w} \subseteq Takers' /\ (plan.kind = "parallel" => Takers' = Takers \ {w})
    BY <1>4, <1>5
  <1> QED BY <1>3, <1>5, <1>6, <1>7

(* The reservations of the steps not started, without w's.                 *)
LEMMA Reserves ==
    ASSUME plan \in Plans, plan' = plan, NEW w, NEW R \in SUBSET Takers, Covers(R),
           \A k \in Keys : IsFiniteSet(reuse[k]),
           Takers \ {w} \subseteq Takers', plan.kind = "parallel" => Takers' = Takers \ {w},
           plan.kind = "parallel" => \A k \in Keys : reuse'[k] = reuse[k] \/ Owners(k) = {},
           subAgents' <= MaxSubAgents, IsFiniteSet(StoredTasks'),
           \A k \in Keys : Cardinality(reuse'[k]) \in Nat,
           Created' + Cardinality(Pending') + Cardinality(R \ {w}) <= subAgents'
    PROVE  ReserveInv'
  <1> DEFINE Q == R \ {w}
  <1>1. Q \in SUBSET Takers' /\ Steps' = Steps /\ \A v : Key(v)' = Key(v)
    BY SamePlan
  <1>2. ASSUME plan.kind = "parallel", NEW k \in Keys
        PROVE  Cardinality({i \in Takers' \ Q : Key(i) = k}) <= Cardinality(reuse'[k])
    <2> DEFINE A == {i \in Takers' \ Q : Key(i) = k}
               B == {i \in Takers \ R : Key(i) = k}
    <2>1. A \subseteq B /\ B \in SUBSET Steps
      BY <1>2 DEF Takers
    <2>2. CASE reuse'[k] = reuse[k]
      <3>1. IsFiniteSet(B)
        BY <2>1, StepSets
      <3>2. Cardinality(B) <= Cardinality(reuse[k])
        BY <1>2 DEF Covers
      <3> HIDE DEF A, B
      <3>3. Cardinality(A) <= Cardinality(B) /\ Cardinality(A) \in Nat /\ Cardinality(B) \in Nat
            /\ Cardinality(reuse[k]) \in Nat
        BY <2>1, <3>1, FS_Subset, FS_CardinalityType
      <3>4. Cardinality(A) <= Cardinality(reuse'[k])
        BY <2>2, <3>2, <3>3
      <3> QED BY <3>4 DEF A
    <2>3. CASE Owners(k) = {}
      <3>1. A = {}
        BY <2>1, <2>3 DEF Owners
      <3>2. Cardinality(A) = 0 /\ Cardinality(reuse'[k]) \in Nat
        BY <3>1, FS_EmptySet
      <3> HIDE DEF A
      <3>3. Cardinality(A) <= Cardinality(reuse'[k])
        BY <3>2
      <3> QED BY <3>3 DEF A
    <2> QED BY <1>2, <2>2, <2>3
  <1> HIDE DEF Q
  <1>3. \A k \in Keys : plan.kind = "parallel" =>
            Cardinality({i \in Takers' \ Q : Key(i)' = k}) <= Cardinality(reuse'[k])
    BY <1>1, <1>2
  <1>4. Covers(Q)'
    BY <1>3 DEF Covers, Q
  <1> QED BY <1>1, <1>4 DEF ReserveInv

LEMMA ReturnedBeside ==
    ASSUME TaskInv, phase = "running", NEW w \in Workers,
           work[w].pc \notin {"off", "done", "delegating"},
           NEW out, NEW err, Returned(w, out, err)
    PROVE  (\E x : Beside(w, x)) /\ work'[w].pc = "done"
  <1>1. PICK x : /\ KeptBut({w, x})
                 /\ \/ x = w
                    \/ /\ x \in Steps /\ x # w
                       /\ \/ work[x].pc = "delegating" /\ work'[x].pc \in {"ask", "failing"}
                          \/ /\ work[x].pc = "off" /\ work'[x].pc = "take"
                             /\ plan.kind = "sequential"
    BY ReturnedTo
  <1>2. Beside(w, x)
    BY <1>1 DEF Beside
  <1> QED BY <1>2 DEF Returned, WorkIs

(* The numbers of Covers.                                                  *)
LEMMA ReserveNumbers ==
    ASSUME TaskInv, ReserveInv, NEW w \in Workers
    PROVE  /\ plan \in Plans /\ subAgents \in Int /\ MaxSubAgents \in Nat /\ Created \in Nat
           /\ \A k \in Keys : IsFiniteSet(reuse[k])
           /\ IsFiniteSet(Pending) /\ Cardinality(Pending) \in Nat
           /\ \A R \in SUBSET Takers : IsFiniteSet(R) /\ Cardinality(R) \in Nat
  <1>1. plan \in Plans /\ subAgents \in Int
    BY DEF TaskInv, TypeOK
  <1>2. Created \in Nat
    BY FS_CardinalityType DEF ReserveInv, Created, StoredTasks
  <1>3. Pending \in SUBSET Workers /\ \A R \in SUBSET Takers : R \in SUBSET Workers
    BY <1>1, WorkersAre DEF Pending, Takers
  <1> QED BY <1>1, <1>2, <1>3, WorkerSets, KeySets, PlanFacts

(* A worker that neither takes nor needs a reservation.                    *)
LEMMA QuietReserve ==
    ASSUME TaskInv, TaskInv', ReserveInv, plan' = plan, NEW w \in Workers, NEW x, Beside(w, x),
           work'[w].pc \notin {"take", "create", "backoff"},
           plan.kind = "parallel" => \A k \in Keys : reuse'[k] = reuse[k] \/ Owners(k) = {},
           \A k \in Keys : IsFiniteSet(reuse'[k]),
           StoredTasks' = StoredTasks, Created' = Created,
           \/ subAgents' = subAgents
           \/ subAgents' = subAgents - 1 /\ work[w].pc \in {"create", "backoff"}
    PROVE  ReserveInv'
  <1>1. PICK R \in SUBSET Takers : Covers(R)
    BY DEF ReserveInv
  <1>2. /\ plan \in Plans /\ subAgents \in Int /\ MaxSubAgents \in Nat /\ Created \in Nat
        /\ \A k \in Keys : IsFiniteSet(reuse[k])
        /\ IsFiniteSet(Pending) /\ IsFiniteSet(R)
    BY ReserveNumbers
  <1>3. /\ Pending' = Pending \ {w}
        /\ w \in Pending <=> work[w].pc \in {"create", "backoff"}
        /\ Takers \ {w} \subseteq Takers'
        /\ plan.kind = "parallel" => Takers' = Takers \ {w}
    BY <1>2, SetsAfter
  <1> DEFINE p == Cardinality(Pending)
             q == Cardinality(Pending')
             r == Cardinality(R)
             t == Cardinality(R \ {w})
  <1>4. /\ p \in Nat /\ q = IF w \in Pending THEN p - 1 ELSE p
        /\ r \in Nat /\ t \in Nat /\ t <= r
    <2>1. p \in Nat /\ q = IF w \in Pending THEN p - 1 ELSE p
      BY <1>2, <1>3, SetCounts
    <2>2. IsFiniteSet(R \ {w}) /\ R \ {w} \subseteq R
      BY <1>2, FS_RemoveElement
    <2> QED BY <1>2, <2>1, <2>2, FS_Subset, FS_CardinalityType
  <1>5. Created + p + r <= subAgents /\ subAgents <= MaxSubAgents
    BY <1>1 DEF Covers, ReserveInv
  <1> HIDE DEF p, q, r, t
  <1>6. Created' + q + t <= subAgents' /\ subAgents' <= MaxSubAgents
    BY <1>2, <1>3, <1>4, <1>5
  <1>7. \A k \in Keys : Cardinality(reuse'[k]) \in Nat
    BY FS_CardinalityType
  <1>8. IsFiniteSet(StoredTasks')
    BY DEF ReserveInv
  <1> QED BY <1>1, <1>2, <1>3, <1>6, <1>7, <1>8, Reserves DEF q, t

(* A worker that comes to wait for a reservation, or whose task is stored. *)
LEMMA WaitsReserve ==
    ASSUME TaskInv, ReserveInv, plan' = plan, NEW w \in Workers, NEW x, Beside(w, x),
           work'[w].pc # "take", reuse' = reuse, IsFiniteSet(StoredTasks'),
           subAgents' <= MaxSubAgents,
           \A R \in SUBSET Takers :
               Covers(R) =>
               \/ /\ Created' = Created /\ work'[w].pc \in {"create", "backoff"}
                  /\ w \notin Pending
                  /\ subAgents' = subAgents + 1 \/ (w \in R /\ subAgents' = subAgents)
               \/ /\ Created' = Created /\ work'[w].pc \in {"create", "backoff"}
                  /\ w \in Pending /\ subAgents' = subAgents
               \/ /\ Created' = Created + 1 /\ work'[w].pc \notin {"create", "backoff"}
                  /\ w \in Pending /\ subAgents' = subAgents
    PROVE  ReserveInv'
  <1>1. PICK R \in SUBSET Takers : Covers(R)
    BY DEF ReserveInv
  <1>2. /\ plan \in Plans /\ subAgents \in Int /\ MaxSubAgents \in Nat /\ Created \in Nat
        /\ \A k \in Keys : IsFiniteSet(reuse[k])
        /\ IsFiniteSet(Pending) /\ IsFiniteSet(R)
    BY ReserveNumbers
  <1>3. /\ Pending' = IF work'[w].pc \in {"create", "backoff"} THEN Pending \cup {w}
                      ELSE Pending \ {w}
        /\ Takers \ {w} \subseteq Takers'
        /\ plan.kind = "parallel" => Takers' = Takers \ {w}
    BY <1>2, SetsAfter
  <1> DEFINE p == Cardinality(Pending)
             q == Cardinality(Pending')
             r == Cardinality(R)
             t == Cardinality(R \ {w})
  <1>4. /\ p \in Nat /\ r \in Nat
        /\ q = IF work'[w].pc \in {"create", "backoff"}
               THEN IF w \in Pending THEN p ELSE p + 1
               ELSE IF w \in Pending THEN p - 1 ELSE p
        /\ t = IF w \in R THEN r - 1 ELSE r
    <2>1. p \in Nat /\ r \in Nat /\ t = IF w \in R THEN r - 1 ELSE r
      BY <1>2, SetCounts
    <2>2. CASE work'[w].pc \in {"create", "backoff"}
      <3>1. Pending' = Pending \cup {w}
        BY <1>3, <2>2
      <3>2. q = IF w \in Pending THEN p ELSE p + 1
        BY <1>2, <3>1, SetCounts
      <3> QED BY <2>1, <2>2, <3>2
    <2>3. CASE work'[w].pc \notin {"create", "backoff"}
      <3>1. Pending' = Pending \ {w}
        BY <1>3, <2>3
      <3>2. q = IF w \in Pending THEN p - 1 ELSE p
        BY <1>2, <3>1, SetCounts
      <3> QED BY <2>1, <2>3, <3>2
    <2> QED BY <2>2, <2>3
  <1>5. Created + p + r <= subAgents /\ subAgents <= MaxSubAgents
    BY <1>1 DEF Covers, ReserveInv
  <1> HIDE DEF p, q, r, t
  <1>6. Created' + q + t <= subAgents'
    BY <1>1, <1>2, <1>4, <1>5
  <1>7. \A k \in Keys : Cardinality(reuse'[k]) \in Nat
    BY <1>2, FS_CardinalityType
  <1> QED BY <1>1, <1>2, <1>3, <1>6, <1>7, Reserves DEF q, t

LEMMA OneLess ==
    ASSUME NEW S, IsFiniteSet(S), NEW w \in S, NEW n \in Nat, Cardinality(S) <= n,
           NEW A, A = S \ {w}
    PROVE  Cardinality(A) <= n - 1
  <1>1. Cardinality(A) = Cardinality(S) - 1 /\ Cardinality(S) \in Nat
    BY FS_RemoveElement, FS_CardinalityType
  <1> QED BY <1>1

(* A step takes an output: another of its key may need its reservation.    *)
LEMMA TakesOwn ==
    ASSUME TaskInv, TaskInv', ReserveInv, plan' = plan, NEW w \in Steps, plan.kind = "parallel",
           NEW x, Beside(w, x), work[w].pc = "take", work'[w].pc = "done",
           NEW k \in Keys, k = Key(w), NEW i \in reuse[k],
           reuse' = [reuse EXCEPT ![k] = @ \ {i}],
           StoredTasks' = StoredTasks, Created' = Created, subAgents' = subAgents
    PROVE  ReserveInv'
  <1>1. PICK R \in SUBSET Takers : Covers(R)
    BY DEF ReserveInv
  <1>2. /\ plan \in Plans /\ IsFiniteSet(R) /\ Cardinality(R) \in Nat /\ Steps' = Steps
        /\ w \in Workers /\ \A v : Key(v)' = Key(v)
    BY WorkersAre, ReserveNumbers, SamePlan DEF TaskInv, TypeOK
  <1>3. /\ Pending' = Pending \ {w} /\ w \notin Pending
        /\ Takers' = Takers \ {w} /\ w \in Takers /\ Takers \subseteq Steps
    BY <1>2, SetsAfter DEF Takers
  <1>15. PICK T : T = Takers'
    OBVIOUS
  <1>4. reuse'[k] = reuse[k] \ {i} /\ \A j \in Keys \ {k} : reuse'[j] = reuse[j]
    <2>1. DOMAIN reuse = Keys
      BY DEF TaskInv, TypeOK
    <2> QED BY <2>1
  <1> DEFINE n == Cardinality(reuse[k])
             Of(S, j) == {l \in S : Key(l) = j}
             B == Of(Takers \ R, k)
  <1>5. n \in Nat /\ Cardinality(reuse'[k]) = n - 1 /\ n - 1 \in Nat
    <2>1. IsFiniteSet(reuse[k]) /\ i \in reuse[k]
      BY KeySets
    <2>2. Cardinality(reuse'[k]) = n - 1 /\ n \in Nat
      BY <1>4, <2>1, FS_RemoveElement, FS_CardinalityType
    <2>3. IsFiniteSet(reuse'[k])
      BY <1>4, <2>1, FS_RemoveElement
    <2>4. Cardinality(reuse'[k]) \in Nat
      BY <2>3, FS_CardinalityType
    <2> QED BY <2>2, <2>4
  <1>6. IsFiniteSet(B) /\ Cardinality(B) \in Nat /\ Cardinality(B) <= n
    <2>1. B \in SUBSET Steps
      BY <1>3
    <2>2. Cardinality(B) <= n
      BY <1>1 DEF Covers
    <2> QED BY <1>2, <2>1, <2>2, StepSets, FS_CardinalityType
  <1>7. \E Q \in SUBSET T : /\ Cardinality(Q) <= Cardinality(R) /\ Cardinality(Q) \in Nat
                                  /\ T \ Q \subseteq Takers \ R
                                  /\ Cardinality(Of(T \ Q, k)) <= n - 1
    <2>1. CASE w \notin R
      <3>1. /\ Of(T \ R, k) = B \ {w} /\ w \in B /\ R \in SUBSET T
            /\ T \ R \subseteq Takers \ R
        BY <1>3, <1>15, <2>1
      <3> HIDE DEF B, n, Of
      <3>3. Cardinality(Of(T \ R, k)) <= n - 1
        BY <1>5, <1>6, <3>1, OneLess
      <3>4. Cardinality(R) <= Cardinality(R)
        BY <1>2
      <3> QED BY <1>2, <3>1, <3>3, <3>4, Zenon
    <2>2. CASE w \in R /\ B = {}
      <3> DEFINE Q == R \ {w}
      <3>1. /\ Of(T \ Q, k) = {} /\ Q \in SUBSET T /\ T \ Q \subseteq Takers \ R
        BY <1>3, <1>15, <2>2
      <3>2. Cardinality(Q) = Cardinality(R) - 1 /\ Cardinality(Q) \in Nat
        <4>1. IsFiniteSet(Q) /\ Cardinality(Q) = Cardinality(R) - 1
          BY <1>2, <2>2, FS_RemoveElement
        <4> QED BY <4>1, FS_CardinalityType
      <3>3. Cardinality(Of(T \ Q, k)) = 0
        BY <3>1, FS_EmptySet
      <3> HIDE DEF Q, Of, n
      <3>4. Cardinality(Of(T \ Q, k)) <= n - 1 /\ Cardinality(Q) <= Cardinality(R)
        BY <1>2, <1>5, <3>2, <3>3
      <3> QED BY <3>1, <3>2, <3>4
    <2>3. CASE w \in R /\ B # {}
      <3>1. PICK b : b \in B
        BY <2>3
      <3> DEFINE P == R \ {w}
                 Q == P \cup {b}
      <3>2. /\ b \in Takers /\ b \notin R /\ b # w /\ b \notin P
            /\ Of(T \ Q, k) = B \ {b} /\ Q \in SUBSET T /\ T \ Q \subseteq Takers \ R
        BY <1>3, <1>15, <2>3, <3>1
      <3>3. Cardinality(P) = Cardinality(R) - 1 /\ IsFiniteSet(P)
        BY <1>2, <2>3, FS_RemoveElement
      <3> HIDE DEF P
      <3>4. Cardinality(Q) = Cardinality(P) + 1
        BY <3>2, <3>3, FS_AddElement
      <3> HIDE DEF B, n, Q, Of
      <3>6. Cardinality(Of(T \ Q, k)) <= n - 1
        BY <1>5, <1>6, <3>1, <3>2, OneLess
      <3>7. Cardinality(Q) <= Cardinality(R) /\ Cardinality(Q) \in Nat
        BY <1>2, <3>3, <3>4
      <3> QED BY <3>2, <3>6, <3>7
    <2> QED BY <2>1, <2>2, <2>3
  <1>8. PICK Q \in SUBSET T : /\ Cardinality(Q) <= Cardinality(R) /\ Cardinality(Q) \in Nat
                                    /\ T \ Q \subseteq Takers \ R
                                    /\ Cardinality(Of(T \ Q, k)) <= n - 1
    BY <1>7
  <1>9. ASSUME NEW j \in Keys
        PROVE  Cardinality(Of(T \ Q, j)) <= Cardinality(reuse'[j])
    <2>1. CASE j = k
      BY <1>5, <1>8, <2>1
    <2>2. CASE j # k
      <3>1. Of(T \ Q, j) \subseteq Of(Takers \ R, j) /\ Of(Takers \ R, j) \in SUBSET Steps
        BY <1>3, <1>8
      <3>2. Cardinality(Of(Takers \ R, j)) <= Cardinality(reuse[j])
        BY <1>1 DEF Covers
      <3>3. PICK A, C : A = Of(T \ Q, j) /\ C = Of(Takers \ R, j)
        OBVIOUS
      <3> HIDE DEF Of
      <3>4. IsFiniteSet(C)
        BY <1>2, <3>1, <3>3, StepSets
      <3>5. Cardinality(A) <= Cardinality(C) /\ Cardinality(A) \in Nat /\ Cardinality(C) \in Nat
            /\ Cardinality(reuse[j]) \in Nat
        BY <3>1, <3>3, <3>4, KeySets, FS_Subset, FS_CardinalityType
      <3>6. reuse'[j] = reuse[j]
        BY <1>4, <2>2
      <3> QED BY <3>2, <3>3, <3>5, <3>6
    <2> QED BY <2>1, <2>2
  <1>10. /\ Created \in Nat /\ subAgents \in Int /\ Cardinality(Pending) \in Nat
         /\ Created + Cardinality(Pending) + Cardinality(R) <= subAgents
         /\ subAgents <= MaxSubAgents
    BY <1>1, <1>2, ReserveNumbers DEF Covers, ReserveInv
  <1>11. Pending' = Pending
    BY <1>3
  <1>12. Created' + Cardinality(Pending') + Cardinality(Q) <= subAgents'
    BY <1>2, <1>8, <1>10, <1>11
  <1>13. \A j \in Keys : Cardinality({l \in Takers' \ Q : Key(l)' = j}) <= Cardinality(reuse'[j])
    BY <1>2, <1>9, <1>15
  <1>14. Covers(Q)'
    BY <1>12, <1>13 DEF Covers
  <1> QED BY <1>8, <1>10, <1>14, <1>15 DEF ReserveInv

(* Of the steps with a key, n have a place among the first n.              *)
LEMMA Ranks ==
    ASSUME plan \in Plans, NEW k, NEW n \in Nat
    PROVE  Cardinality({i \in Steps : Key(i) = k
                            /\ Cardinality({j \in 1 .. i : Key(j) = k}) <= n}) <= n
  <1> DEFINE Upto(i) == {j \in 1 .. i : Key(j) = k}
             S == {i \in Steps : Key(i) = k /\ Cardinality(Upto(i)) <= n}
             f == [i \in S |-> Cardinality(Upto(i))]
  <1>1. Steps = 1 .. Size /\ Size \in Nat
    BY WorkersAre
  <1>2. ASSUME NEW i \in S
        PROVE  /\ IsFiniteSet(Upto(i)) /\ Cardinality(Upto(i)) \in 1 .. n
    <2>1. i \in Nat /\ i \in Upto(i) /\ Upto(i) \subseteq 1 .. i /\ Cardinality(Upto(i)) <= n
      BY <1>1
    <2> HIDE DEF Upto
    <2>4. IsFiniteSet(1 .. i)
      <3>1. 1 \in Int /\ i \in Int
        BY <2>1
      <3> QED BY <3>1, FS_Interval
    <2>2. IsFiniteSet(Upto(i)) /\ Cardinality(Upto(i)) \in Nat
      BY <2>1, <2>4, FS_Subset, FS_CardinalityType
    <2>3. Cardinality(Upto(i)) # 0
      BY <2>1, <2>2, FS_EmptySet
    <2> QED BY <2>1, <2>2, <2>3
  <1>3. ASSUME NEW i \in S, NEW l \in S, i < l
        PROVE  Cardinality(Upto(i)) # Cardinality(Upto(l))
    <2>1. Upto(i) \cup {l} \subseteq Upto(l) /\ l \notin Upto(i)
      BY <1>1, <1>3
    <2> HIDE DEF Upto, S
    <2>2. Cardinality(Upto(i) \cup {l}) = Cardinality(Upto(i)) + 1
      BY <1>2, <2>1, FS_AddElement
    <2>3. Cardinality(Upto(i) \cup {l}) <= Cardinality(Upto(l))
      BY <1>2, <2>1, FS_Subset
    <2> QED BY <1>2, <2>2, <2>3
  <1>4. \A i, l \in S : Cardinality(Upto(i)) = Cardinality(Upto(l)) => i = l
    <2>1. \A i, l \in S : i < l \/ l < i \/ i = l
      BY <1>1
    <2> HIDE DEF S, Upto
    <2> QED BY <1>3, <2>1
  <1> HIDE DEF S, Upto
  <1>5. f \in Injection(S, 1 .. n)
    <2>1. f \in [S -> 1 .. n] /\ DOMAIN f = S
      BY <1>2
    <2>2. \A i, l \in S : f[i] = f[l] => i = l
      BY <1>4
    <2> HIDE DEF f
    <2> QED BY <2>1, <2>2 DEF Injection, IsInjective
  <1> HIDE DEF f
  <1>6. IsFiniteSet(1 .. n) /\ Cardinality(1 .. n) = n
    <2>1. 1 \in Int /\ n \in Int /\ n - 1 + 1 = n /\ (1 > n => n = 0)
      OBVIOUS
    <2> QED BY <2>1, FS_Interval
  <1>7. Cardinality(S) <= n
    BY <1>5, <1>6, FS_Injection
  <1> QED BY <1>7 DEF S, Upto

LEMMA AloneBeside ==
    ASSUME NEW w, KeptBut({w})
    PROVE  Beside(w, w)
  BY DEF Beside, KeptBut

(* Another task's step needs no output of a key that steps do not have.    *)
LEMMA NoOwners ==
    ASSUME Unshared, plan \in Plans, plan.kind = "parallel", NEW w \in Workers \ Steps
    PROVE  Owners(Key(w)) = {}
  <1>1. Key(w) = plan.child[Parent(w)] /\ Parent(w) \in Steps
    BY WorkersAre
  <1>2. \A i, j \in Steps : plan.child[i] # plan.keys[j]
    BY DEF Unshared, Steps
  <1>3. \A j \in Steps : Key(j) = plan.keys[j]
    BY WorkersAre
  <1> QED BY <1>1, <1>2, <1>3 DEF Owners

(* One that is to execute has a reservation: no output is left for it.     *)
LEMMA InReserve ==
    ASSUME TaskInv, plan.kind = "parallel", NEW w \in Takers, NEW R \in SUBSET Takers, Covers(R),
           NEW k \in Keys, k = Key(w), reuse[k] = {}
    PROVE  w \in R
  <1> SUFFICES ASSUME w \notin R PROVE FALSE
    OBVIOUS
  <1> DEFINE B == {i \in Takers \ R : Key(i) = k}
  <1>1. w \in B /\ B \in SUBSET Steps /\ plan \in Plans
    BY DEF Takers, TaskInv, TypeOK
  <1>2. Cardinality(B) <= Cardinality(reuse[k])
    BY DEF Covers
  <1> HIDE DEF B
  <1>3. Cardinality(B) <= 0 /\ IsFiniteSet(B) /\ Cardinality(B) \in Nat
    BY <1>1, <1>2, StepSets, FS_EmptySet, FS_CardinalityType
  <1> QED BY <1>1, <1>3, FS_EmptySet

LEMMA WorksReserve ==
    ASSUME Unshared, TaskInv, ReserveInv, NEW w \in Workers, Works(w)
    PROVE  ReserveInv'
  <1>1. /\ TypeOK /\ WorkerOK(w) /\ TaskInv' /\ plan \in Plans /\ plan' = plan
        /\ phase = "running" /\ work[w].pc \notin {"off", "done", "delegating"}
        /\ subAgents <= MaxSubAgents /\ subAgents \in Int
    BY WorksTasks, WorksIs DEF TaskInv, TypeOK, Statics, ReserveInv
  <1>2. \A k \in Keys : IsFiniteSet(reuse[k]) /\ IsFiniteSet(reuse'[k])
    <2> TAKE k \in Keys
    <2>1. IsFiniteSet(reuse[k])
      BY KeySets
    <2>2. reuse'[k] \subseteq reuse[k]
      BY WorksStore DEF Grows
    <2> QED BY <2>1, <2>2, FS_Subset
  <1>3. Creates(w) \/ (StoredTasks' = StoredTasks /\ Created' = Created)
    BY SameCounted DEF Works
  <1>4. ASSUME NEW out, NEW err, Returned(w, out, err), reuse' = reuse, ~Creates(w),
               \/ subAgents' = subAgents
               \/ subAgents' = subAgents - 1 /\ work[w].pc \in {"create", "backoff"}
        PROVE  ReserveInv'
    <2>1. PICK x : Beside(w, x) /\ work'[w].pc = "done"
      BY <1>1, <1>4, ReturnedBeside
    <2> QED BY <1>1, <1>2, <1>3, <1>4, <2>1, QuietReserve
  <1>5. ASSUME Alone(w), work'[w].pc \in {"answered", "failing"}, reuse' = reuse, ~Creates(w),
               \/ subAgents' = subAgents
               \/ subAgents' = subAgents - 1 /\ work[w].pc \in {"create", "backoff"}
        PROVE  ReserveInv'
    <2>1. Beside(w, w)
      BY <1>5, AloneBeside DEF Alone
    <2> QED BY <1>1, <1>2, <1>3, <1>5, <2>1, QuietReserve
  <1>6. ASSUME Alone(w), work'[w].pc \in {"create", "backoff"}, reuse' = reuse, ~Creates(w),
               w \notin Pending, subAgents' <= MaxSubAgents,
               \A R \in SUBSET Takers : Covers(R) =>
                   subAgents' = subAgents + 1 \/ (w \in R /\ subAgents' = subAgents)
        PROVE  ReserveInv'
    <2>1. Beside(w, w) /\ IsFiniteSet(StoredTasks')
      BY <1>3, <1>6, AloneBeside DEF Alone, ReserveInv
    <2> QED BY <1>1, <1>3, <1>6, <2>1, WaitsReserve
  <1>7. CASE GivesUp(w) \/ Completes(w)
    <2>1. \E out, err : Returned(w, out, err) /\ UNCHANGED <<reuse, subAgents>>
      BY <1>1, <1>7, GivesUpIs, CompletesIs
    <2>2. ~Creates(w)
      BY <1>1, <1>7, GivesUpIs, CompletesIs, CreatesIs DEF At
    <2> QED BY <1>4, <2>1, <2>2
  <1>8. CASE CreateFails(w) \/ Asks(w) \/ Chat(w) \/ AskFails(w) \/ Rejects(w)
    <2>1. CASE Asks(w)
      BY <1>1, <1>3, <1>5, <2>1, AsksIs, CreatesIs DEF At, WorkIs
    <2>2. CASE Chat(w)
      BY <1>1, <1>3, <1>5, <2>2, ChatIs, CreatesIs DEF At, WorkIs
    <2>3. CASE AskFails(w)
      BY <1>1, <1>3, <1>5, <2>3, AskFailsIs, CreatesIs DEF At, WorkIs
    <2>4. CASE Rejects(w)
      BY <1>1, <1>3, <1>5, <2>4, RejectsIs, CreatesIs DEF At, WorkIs
    <2>5. CASE CreateFails(w)
      <3>1. /\ Alone(w) /\ work'[w].pc = "failing" /\ UNCHANGED <<tasks, reuse>>
            /\ subAgents' = subAgents - 1 /\ work[w].pc = "create"
        BY <1>1, <2>5, CreateFailsIs DEF At, WorkIs
      <3>2. ~Creates(w)
        BY <1>1, <3>1, CreatesIs DEF WorkIs
      <3> QED BY <1>5, <3>1, <3>2
    <2> QED BY <1>8, <2>1, <2>2, <2>3, <2>4, <2>5
  <1>9. CASE Fails(w)
    <2>1. /\ work[w].pc = "failing" /\ reuse' = reuse
          /\ \/ HasRoom(1) /\ subAgents' = subAgents + 1 /\ Alone(w) /\ work'[w].pc = "backoff"
             \/ \E err : subAgents' = subAgents /\ Returned(w, 0, err)
      BY <1>1, <1>9, FailsIs DEF At, WorkIs
    <2>2. ~Creates(w) /\ w \notin Pending
      BY <1>1, <2>1, CreatesIs DEF At, Pending
    <2>3. HasRoom(1) /\ subAgents' = subAgents + 1 => subAgents' <= MaxSubAgents
      BY DEF HasRoom
    <2> QED BY <1>4, <1>6, <2>1, <2>2, <2>3
  <1>10. CASE BackoffEnds(w)
    <2>1. /\ work[w].pc = "backoff" /\ reuse' = reuse
          /\ \/ Alone(w) /\ subAgents' = subAgents /\ work'[w].pc = "create"
             \/ subAgents' = subAgents - 1 /\ Returned(w, 0, "canceled")
      BY <1>1, <1>10, BackoffEndsIs DEF At, WorkIs
    <2>2. ~Creates(w) /\ w \in Pending
      BY <1>1, <2>1, CreatesIs DEF At, Pending
    <2>3. CASE subAgents' = subAgents - 1 /\ Returned(w, 0, "canceled")
      BY <1>4, <2>1, <2>2, <2>3
    <2>4. CASE Alone(w) /\ subAgents' = subAgents /\ work'[w].pc = "create"
      <3>1. Beside(w, w) /\ IsFiniteSet(StoredTasks') /\ subAgents' <= MaxSubAgents
        BY <1>1, <1>3, <2>2, <2>4, AloneBeside DEF Alone, ReserveInv
      <3> QED BY <1>1, <1>3, <2>1, <2>2, <2>4, <3>1, WaitsReserve
    <2> QED BY <2>1, <2>3, <2>4
  <1>11. CASE Creates(w)
    <2>1. /\ work[w].pc = "create" /\ UNCHANGED <<subAgents, reuse>>
          /\ work'[w].pc \in {"delegating", "ask"}
          /\ \/ w \in Steps /\ KeptBut({w, Child(w)}) /\ work'[Child(w)].pc = "take"
             \/ KeptBut({w})
      BY <1>1, <1>11, CreatesIs DEF At, WorkIs
    <2>2. w \in Pending /\ IsFiniteSet(StoredTasks) /\ subAgents' <= MaxSubAgents
      BY <1>1, <2>1 DEF Pending, ReserveInv
    <2>3. IsFiniteSet(StoredTasks') /\ Created' = Created + 1
      BY <1>11, <2>2, CreatesCounted
    <2>4. PICK x : Beside(w, x)
      <3>1. CASE KeptBut({w})
        BY <3>1, AloneBeside
      <3>2. CASE w \in Steps /\ KeptBut({w, Child(w)}) /\ work'[Child(w)].pc = "take"
        <4>1. Child(w) \in Workers \ Steps /\ Parent(Child(w)) = w
          BY <1>1, <3>2, WorkersAre
        <4>2. work[Child(w)].pc \in {"off", "done"}
          BY <2>1, <4>1, IdleChild
        <4> QED BY <3>2, <4>1, <4>2 DEF Beside
      <3> QED BY <2>1, <3>1, <3>2
    <2> QED BY <1>1, <2>1, <2>2, <2>3, <2>4, WaitsReserve
  <1>12. CASE Takes(w)
    <2>1. PICK k \in Keys : k = Key(w)
      BY <1>1, <1>12, TakesIs, Moving DEF At
    <2>2. /\ work[w].pc = "take"
          /\ \/ \E i \in reuse[k] :
                   /\ Returned(w, tasks[k][i].out, "none")
                   /\ reuse' = [reuse EXCEPT ![k] = @ \ {i}] /\ subAgents' = subAgents
             \/ /\ reuse[k] = {} /\ reuse' = reuse /\ Alone(w) /\ work'[w].pc = "create"
                /\ \/ w \in Steps /\ plan.kind = "parallel" /\ subAgents' = subAgents
                   \/ HasRoom(1) /\ subAgents' = subAgents + 1
             \/ /\ reuse' = reuse /\ subAgents' = subAgents
                /\ Returned(w, 0, "budget")
      BY <1>1, <1>12, <2>1, TakesIs, Zenon DEF At, WorkIs
    <2>3. ~Creates(w) /\ w \notin Pending
      BY <1>1, <2>2, CreatesIs DEF At, Pending
    <2>4. CASE reuse' = reuse /\ subAgents' = subAgents /\ Returned(w, 0, "budget")
      BY <1>4, <2>3, <2>4
    <2>5. CASE /\ reuse[k] = {} /\ reuse' = reuse /\ Alone(w) /\ work'[w].pc = "create"
               /\ \/ w \in Steps /\ plan.kind = "parallel" /\ subAgents' = subAgents
                  \/ HasRoom(1) /\ subAgents' = subAgents + 1
      <3>1. subAgents' <= MaxSubAgents
        BY <1>1, <2>5 DEF HasRoom
      <3>2. ASSUME NEW R \in SUBSET Takers, Covers(R)
            PROVE  subAgents' = subAgents + 1 \/ (w \in R /\ subAgents' = subAgents)
        BY <2>1, <2>2, <2>5, <3>2, InReserve DEF Takers
      <3> QED BY <1>6, <2>3, <2>5, <3>1, <3>2
    <2>6. CASE \E i \in reuse[k] :
                   /\ Returned(w, tasks[k][i].out, "none")
                   /\ reuse' = [reuse EXCEPT ![k] = @ \ {i}] /\ subAgents' = subAgents
      <3>1. PICK i \in reuse[k] :
                   /\ Returned(w, tasks[k][i].out, "none")
                   /\ reuse' = [reuse EXCEPT ![k] = @ \ {i}] /\ subAgents' = subAgents
        BY <2>6
      <3>2. PICK x : Beside(w, x) /\ work'[w].pc = "done"
        BY <1>1, <3>1, ReturnedBeside
      <3>3. CASE w \in Steps /\ plan.kind = "parallel"
        BY <1>1, <1>3, <2>1, <2>2, <2>3, <3>1, <3>2, <3>3, TakesOwn
      <3>4. CASE ~(w \in Steps /\ plan.kind = "parallel")
        <4>1. ASSUME plan.kind = "parallel", NEW j \in Keys
              PROVE  reuse'[j] = reuse[j] \/ Owners(j) = {}
          <5>1. w \in Workers \ Steps
            BY <3>4, <4>1
          <5>2. Owners(k) = {}
            BY <1>1, <2>1, <4>1, <5>1, NoOwners
          <5>3. j # k => reuse'[j] = reuse[j]
            BY <3>1 DEF TaskInv, TypeOK
          <5> QED BY <5>2, <5>3
        <4> QED BY <1>1, <1>2, <1>3, <2>3, <3>1, <3>2, <4>1, QuietReserve
      <3> QED BY <3>3, <3>4
    <2> QED BY <2>2, <2>4, <2>5, <2>6
  <1> QED BY <1>7, <1>8, <1>9, <1>10, <1>11, <1>12 DEF Works

LEMMA SameReserve ==
    ASSUME ReserveInv, plan' = plan, UNCHANGED <<tasks, reuse, work, subAgents>>
    PROVE  ReserveInv'
  <1>1. PICK R \in SUBSET Takers : Covers(R)
    BY DEF ReserveInv
  <1>2. /\ Takers' = Takers /\ Pending' = Pending /\ \A v : Key(v)' = Key(v)
        /\ StoredTasks' = StoredTasks /\ Created' = Created
    BY SamePlan, StoredSame DEF Takers, Pending
  <1>3. \A k \in Keys : {i \in Takers' \ R : Key(i)' = k} = {i \in Takers \ R : Key(i) = k}
    BY <1>2
  <1>4. Covers(R)'
    BY <1>1, <1>2, <1>3 DEF Covers
  <1> QED BY <1>2, <1>4 DEF ReserveInv

(* A stage that starts reserves what its steps may need.                   *)
LEMMA StartsReserve ==
    ASSUME TaskInv, ReserveInv, StartsParallel \/ StartsSequential
    PROVE  ReserveInv'
  <1>1. /\ plan \in Plans /\ plan' = plan /\ UNCHANGED <<tasks, reuse>>
        /\ \A v \in Workers : work[v] = Off
        /\ Steps' = Steps /\ Workers' = Workers /\ (\A v : Key(v)' = Key(v))
    BY StartWorkers, SamePlan DEF TaskInv, TypeOK
  <1>2. StoredTasks' = StoredTasks /\ Created' = Created /\ IsFiniteSet(StoredTasks)
    BY <1>1, StoredSame DEF ReserveInv
  <1>3. Created \in Nat /\ subAgents \in Int /\ Created <= subAgents
        /\ subAgents <= MaxSubAgents
    <2>1. PICK R \in SUBSET Takers : Covers(R)
      BY DEF ReserveInv
    <2>2. 1 \in Workers
      BY <1>1, WorkersAre
    <2>3. /\ Created \in Nat /\ subAgents \in Int /\ Cardinality(Pending) \in Nat
          /\ Cardinality(R) \in Nat
      BY <2>2, ReserveNumbers
    <2> QED BY <2>1, <2>3 DEF Covers, ReserveInv
  <1>4. CASE work' = work /\ subAgents' = subAgents
    BY <1>1, <1>4, SameReserve
  <1>5. ASSUME \A v \in Workers : work'[v].pc \in {"off", "take"}
        PROVE  Pending' = {} /\ Cardinality(Pending') = 0
    <2>1. Pending' = {}
      BY <1>1, <1>5 DEF Pending
    <2> QED BY <2>1, FS_EmptySet
  <1>6. CASE /\ StartsSequential /\ subAgents' = subAgents
             /\ work'[1] = [Off EXCEPT !.pc = "take"]
             /\ \A v \in Workers \ {1} : work'[v] = Off
    <2>1. \A v \in Workers : work'[v].pc \in {"off", "take"}
      <3> DEFINE r == [Off EXCEPT !.pc = "take"]
      <3>1. r.pc = "take" /\ Off.pc = "off"
        BY TakeIs, OffIs
      <3>2. work'[1] = r /\ \A v \in Workers \ {1} : work'[v] = Off
        BY <1>6
      <3> HIDE DEF r, Off
      <3> QED BY <3>1, <3>2
    <2>2. plan'.kind = "sequential" /\ Cardinality({}) = 0
      BY <1>1, <1>6, FS_EmptySet, StageTasksAssumption DEF StartsSequential
    <2>3. Covers({})'
      BY <1>2, <1>3, <1>5, <1>6, <2>1, <2>2 DEF Covers
    <2> QED BY <1>2, <1>3, <1>6, <2>3 DEF ReserveInv
  <1>7. CASE /\ StartsParallel /\ HasRoom(toRun) /\ subAgents' = subAgents + toRun
             /\ \A v \in Steps : work'[v] = [Off EXCEPT !.pc = "take"]
             /\ \A v \in Workers \ Steps : work'[v] = Off
    <2>1. (\A v \in Workers : work'[v].pc \in {"off", "take"})
          /\ \A v \in Steps : work'[v].pc = "take"
      <3> DEFINE r == [Off EXCEPT !.pc = "take"]
      <3>1. r.pc = "take" /\ Off.pc = "off"
        BY TakeIs, OffIs
      <3>2. (\A v \in Steps : work'[v] = r) /\ \A v \in Workers \ Steps : work'[v] = Off
        BY <1>7
      <3> HIDE DEF r, Off
      <3> QED BY <3>1, <3>2
    <2>2. Takers' = Steps
      BY <1>1, <2>1 DEF Takers
    <2>0. PICK R : R = {i \in Steps :
                     Cardinality({j \in 1 .. i : Key(j) = Key(i)}) > Cardinality(reuse[Key(i)])}
      OBVIOUS
    <2>3. toRun = Cardinality(R)
      BY <2>0 DEF toRun
    <2>4. R \in SUBSET Steps
      BY <2>0
    <2>5. ASSUME NEW k \in Keys
          PROVE  Cardinality({i \in Steps \ R : Key(i) = k}) <= Cardinality(reuse[k])
      <3>1. PICK n \in Nat : n = Cardinality(reuse[k])
        BY KeySets
      <3> DEFINE A == {i \in Steps \ R : Key(i) = k}
                 B == {i \in Steps : Key(i) = k /\ Cardinality({j \in 1 .. i : Key(j) = k}) <= n}
      <3>2. A \subseteq B
        <4> SUFFICES ASSUME NEW i \in Steps, i \notin R, Key(i) = k
                     PROVE  Cardinality({j \in 1 .. i : Key(j) = k}) <= n
          OBVIOUS
        <4>1. ~(Cardinality({j \in 1 .. i : Key(j) = k}) > n)
          BY <2>0, <3>1
        <4>2. Cardinality({j \in 1 .. i : Key(j) = k}) \in Nat
          <5>1. i \in Int /\ 1 \in Int
            BY <1>1, WorkersAre
          <5>2. IsFiniteSet(1 .. i)
            BY <5>1, FS_Interval
          <5> QED BY <5>2, FS_Subset, FS_CardinalityType
        <4> QED BY <4>1, <4>2
      <3>3. B \in SUBSET Steps
        OBVIOUS
      <3>4. Cardinality(B) <= n
        BY <1>1, Ranks
      <3>5. IsFiniteSet(B)
        BY <1>1, <3>3, StepSets
      <3> HIDE DEF A, B
      <3>6. Cardinality(A) <= Cardinality(B) /\ Cardinality(A) \in Nat /\ Cardinality(B) \in Nat
        BY <3>2, <3>5, FS_Subset, FS_CardinalityType
      <3>7. Cardinality(A) <= n
        BY <3>4, <3>6
      <3> QED BY <3>1, <3>7 DEF A
    <2>6. Cardinality(R) \in Nat
      BY <1>1, <2>4, StepSets
    <2>7. Created' + Cardinality(Pending') + Cardinality(R) <= subAgents'
      BY <1>2, <1>3, <1>5, <1>7, <2>1, <2>3, <2>6
    <2>8. subAgents' <= MaxSubAgents
      BY <1>7 DEF HasRoom
    <2>9. \A k \in Keys : Cardinality({i \in Takers' \ R : Key(i)' = k}) <= Cardinality(reuse'[k])
      BY <1>1, <2>2, <2>5
    <2>10. Covers(R)'
      BY <2>7, <2>9 DEF Covers
    <2> QED BY <1>2, <2>2, <2>4, <2>8, <2>10 DEF ReserveInv
  <1> QED BY <1>4, <1>6, <1>7, StartWorkers

LEMMA ReserveStep ==
    ASSUME Unshared, TaskInv, ReserveInv, Next
    PROVE  ReserveInv'
  <1>1. plan \in Plans /\ plan' = plan /\ Workers' = Workers /\ Steps' = Steps
        /\ \A v : Key(v)' = Key(v)
    BY WorksIs, SamePlan
       DEF TaskInv, TypeOK, Next, Stage, stageGate, StartsParallel, StartsSequential,
           Collects, Finishes, ContextEnds, Crashes, Resumes, ReExecutes, Statics
  <1>2. CASE stageGate \/ Collects \/ Finishes \/ ContextEnds \/ Crashes
    <2>1. UNCHANGED <<tasks, reuse, work, subAgents>>
      BY <1>2 DEF stageGate, Collects, Finishes, ContextEnds, Crashes, stored
    <2> QED BY <1>1, <2>1, SameReserve
  <1>3. CASE Resumes \/ ReExecutes
    <2>1. work' = [v \in Workers |-> Off]
      BY <1>3 DEF Resumes, ReExecutes, Fresh
    <2>2. \A v \in Workers : work'[v].pc = "off"
      BY <2>1, OffIs
    <2>3. Pending' = {} /\ Takers' = {}
      BY <1>1, <2>2, WorkersAre DEF Pending, Takers
    <2>4. /\ Created' = subAgents' /\ IsFiniteSet(StoredTasks') /\ Created' \in Nat
          /\ subAgents' <= MaxSubAgents
      <3>1. CASE Resumes
        <4>1. 1 \in Workers
          BY <1>1, WorkersAre
        <4>2. PICK R \in SUBSET Takers : Covers(R)
          BY DEF ReserveInv
        <4>3. /\ Created \in Nat /\ subAgents \in Int /\ MaxSubAgents \in Nat
              /\ Cardinality(Pending) \in Nat /\ Cardinality(R) \in Nat
          BY <4>1, ReserveNumbers
        <4>4. Created + Cardinality(Pending) + Cardinality(R) <= subAgents
              /\ subAgents <= MaxSubAgents
          BY <4>2 DEF Covers, ReserveInv
        <4>5. StoredTasks' = StoredTasks /\ Created' = Created /\ subAgents' = Created
          BY <3>1, ResumesCounted DEF Resumes
        <4> QED BY <4>3, <4>4, <4>5 DEF ReserveInv
      <3>2. CASE ReExecutes
        <4>1. StoredTasks' = {} /\ Created' = 0 /\ subAgents' = 0
          BY <3>2, CopyCounted DEF ReExecutes
        <4> QED BY <1>1, <4>1, FS_EmptySet, PlanFacts
      <3> QED BY <1>3, <3>1, <3>2
    <2>5. \A k \in Keys : /\ {i \in Takers' \ {} : Key(i)' = k} = {}
                           /\ 0 <= Cardinality(reuse'[k])
      <3> TAKE k \in Keys
      <3>1. CASE Resumes
        <4>1. reuse'[k] = Completed(k) /\ Cardinality(Completed(k)) \in Nat
          BY <3>1, ResumesStore, KeySets
        <4> QED BY <2>3, <4>1
      <3>2. CASE ReExecutes
        <4>1. reuse'[k] = {} /\ Cardinality({}) = 0
          BY <3>2, CopyStore, FS_EmptySet
        <4> QED BY <2>3, <4>1
      <3> QED BY <1>3, <3>1, <3>2
    <2>6. Cardinality({}) = 0
      BY FS_EmptySet
    <2>7. Covers({})'
      BY <2>3, <2>4, <2>5, <2>6 DEF Covers
    <2>8. {} \in SUBSET Takers'
      OBVIOUS
    <2> QED BY <2>4, <2>7, <2>8 DEF ReserveInv
  <1> QED BY <1>2, <1>3, StartsReserve, WorksReserve DEF Next, Stage

LEMMA InitReserve ==
    ASSUME Init
    PROVE  ReserveInv
  <1>1. plan \in Plans /\ (\A v \in Workers : work[v] = Off) /\ subAgents = 0 /\ reuse = None
    BY DEF Init
  <1>2. Pending = {} /\ Takers = {} /\ StoredTasks = {} /\ Created = 0
    BY <1>1, InitCounted, OffIs, WorkersAre DEF Pending, Takers
  <1>3. Cardinality({}) = 0 /\ IsFiniteSet({}) /\ MaxSubAgents \in Nat
    BY <1>1, FS_EmptySet, PlanFacts
  <1>4. \A k \in Keys : reuse[k] = {} /\ {i \in Takers \ {} : Key(i) = k} = {}
    BY <1>1, <1>2 DEF None
  <1>5. Covers({})
    BY <1>1, <1>2, <1>3, <1>4 DEF Covers
  <1> QED BY <1>1, <1>2, <1>3, <1>5 DEF ReserveInv

(* Every task stored was reserved as a sub-agent first and within the      *)
(* limit, if no step of a parallel stage delegates the task of another     *)
(* step (runParallelStage, runTask, reconcileTasks).                       *)
THEOREM ReservedFirst ==
    ASSUME Unshared
    PROVE  Spec => []TasksReserved
  <1>1. Init => ReserveInv
    BY InitReserve
  <1>2. StageInv /\ ReserveInv /\ [Next]_vars => ReserveInv'
    <2>1. ASSUME ReserveInv, UNCHANGED vars
          PROVE  ReserveInv'
      BY <2>1, SameReserve DEF vars, stored
    <2> QED BY <2>1, ReserveStep DEF StageInv
  <1>3. StageInv /\ ReserveInv => TasksReserved
    <2> SUFFICES ASSUME StageInv, ReserveInv PROVE TasksReserved
      OBVIOUS
    <2>1. 1 \in Workers
      BY WorkersAre DEF StageInv, TaskInv, TypeOK
    <2>2. PICK R \in SUBSET Takers : Covers(R)
      BY DEF ReserveInv
    <2>3. /\ Created \in Nat /\ subAgents \in Int
          /\ Cardinality(Pending) \in Nat /\ Cardinality(R) \in Nat
      BY <2>1, ReserveNumbers DEF StageInv
    <2> QED BY <2>2, <2>3 DEF Covers, ReserveInv, TasksReserved
  <1> QED BY <1>1, <1>2, <1>3, StageInvariant, PTL DEF Spec

-----------------------------------------------------------------------------
(* What a move of a step does to the responses it has used.                *)

Responses == {"good", "bad", "loop"}

(* Nobody uses a response before it asks, or after it failed.              *)
LEMMA MovesOn ==
    ASSUME NEW r \in Worker, NEW s \in Worker, NEW l \in Seq(Responses), NEW u \in Nat,
           NEW m \in Nat, u <= Len(l), r.pc \in Before, s.pc \in Before, s.err = "none",
           s.attempt = r.attempt
    PROVE  /\ RunStep(r, l, m) => RunStep(s, l, m)
           /\ CopyStep(r, l, u, m) => CopyStep(s, l, u, m)
           /\ FailsRight(s, l, u)
  BY DEF Worker, Places, Errors, RunStep, CopyStep, FailsRight, Uses, Has, Paused, Before, Tries

(* A step fails before it got an answer.                                   *)
LEMMA MovesToFail ==
    ASSUME NEW r \in Worker, NEW s \in Worker, NEW l \in Seq(Responses), NEW u \in Nat,
           NEW m \in Nat, u <= Len(l), r.pc \in Before, s.pc \in {"failing", "done"},
           s.err # "none", s.attempt = r.attempt
    PROVE  /\ RunStep(r, l, m) => RunStep(s, l, m)
           /\ CopyStep(r, l, u, m) /\ s.err # "paused" => CopyStep(s, l, u, m)
           /\ s.err # "canceled" /\ (s.err = "failed" => s.pc = "failing" /\ u = Len(l))
                  /\ (s.err # "failed" => Stuck(s, l)) => FailsRight(s, l, u)
  BY DEF Worker, Places, Errors, RunStep, CopyStep, FailsRight, Uses, Has, Paused, Before, Tries

LEMMA MovesToAnswer ==
    ASSUME NEW r \in Worker, NEW s \in Worker, NEW l \in Seq(Responses), NEW u \in Nat,
           NEW m \in Nat, u <= Len(l), r.pc = "ask", s.pc = "answered",
           s.err = "none", s.attempt = r.attempt
    PROVE  /\ \A x \in Responses : RunStep(r, l, m) /\ s.out = Len(l) + 1
                  => RunStep(s, Append(l, x), m)
           /\ CopyStep(r, l, u, m) /\ u < Len(l) /\ s.out = u + 1 => CopyStep(s, l, u + 1, m)
           /\ FailsRight(s, l, u + 1)
  <1>1. ASSUME NEW x \in Responses, RunStep(r, l, m), s.out = Len(l) + 1
        PROVE  RunStep(s, Append(l, x), m)
    <2> DEFINE n == Append(l, x)
    <2>1. /\ Len(n) = Len(l) + 1 /\ n[Len(l) + 1] = x
          /\ \A j \in 1 .. Len(l) : n[j] = l[j]
      OBVIOUS
    <2>2. Len(l) \in Nat
      OBVIOUS
    <2> HIDE DEF n
    <2>3. \A j \in 1 .. Len(n) : j \in 1 .. Len(l) \/ j = Len(n)
      BY <2>1, <2>2
    <2>4. Uses(s, n, Len(n), m)
      BY <1>1, <2>1, <2>2, <2>3 DEF RunStep, Uses, Has, Tries, Before
    <2>5. Len(n) <= s.attempt /\ s.pc \notin Before
      BY <1>1, <2>1, <2>2 DEF RunStep, Before, Worker
    <2>6. \A j \in 1 .. Len(n) : n[j] = "loop" => j = Len(n)
      BY <1>1, <2>1, <2>2, <2>3 DEF RunStep, Before, Paused
    <2> QED BY <2>4, <2>5, <2>6 DEF RunStep, n
  <1>2. ASSUME CopyStep(r, l, u, m), u < Len(l), s.out = u + 1
        PROVE  CopyStep(s, l, u + 1, m)
    <2>1. u = r.attempt - 1 /\ r.attempt \in Nat
      BY <1>2 DEF CopyStep, Before, Worker
    <2>2. \A j \in 1 .. u : l[j] # "good"
      BY <1>2 DEF CopyStep, Uses, Has
    <2>3. \A j \in 1 .. u + 1 : j \in 1 .. u \/ j = u + 1
      OBVIOUS
    <2>4. Uses(s, l, u + 1, m)
      BY <1>2, <2>2, <2>3 DEF CopyStep, Uses, Has
    <2> QED BY <1>2, <2>1, <2>4 DEF CopyStep, Before
  <1>3. FailsRight(s, l, u + 1)
    BY DEF FailsRight
  <1> QED BY <1>1, <1>2, <1>3

LEMMA MovesToEnd ==
    ASSUME NEW r \in Worker, NEW s \in Worker, NEW l \in Seq(Responses), NEW u \in Nat,
           NEW m \in Nat, u <= Len(l), r.pc = "answered", l[r.out] = "good", s.pc = "done",
           s.err = "none", s.attempt = r.attempt, s.out = r.out, r.out \in 1 .. u
    PROVE  /\ RunStep(r, l, m) => RunStep(s, l, m)
           /\ CopyStep(r, l, u, m) => CopyStep(s, l, u, m)
           /\ FailsRight(s, l, u)
  BY DEF Worker, Places, Errors, RunStep, CopyStep, FailsRight, Uses, Has, Paused, Before, Tries

LEMMA MovesToReject ==
    ASSUME NEW r \in Worker, NEW s \in Worker, NEW l \in Seq(Responses), NEW u \in Nat,
           NEW m \in Nat, u <= Len(l), r.pc = "answered", l[r.out] # "good", s.pc = "failing",
           s.attempt = r.attempt, r.out \in 1 .. u
    PROVE  /\ RunStep(r, l, m) /\ s.err = (IF l[r.out] = "bad" THEN "failed" ELSE "paused")
                  => RunStep(s, l, m)
           /\ CopyStep(r, l, u, m) /\ s.err = (IF l[r.out] = "bad" THEN "failed" ELSE "final")
                  => CopyStep(s, l, u, m) /\ FailsRight(s, l, u)
  <1>1. l[r.out] \in {"bad", "loop"} /\ r.out \in 1 .. Len(l) /\ Len(l) \in Nat
    BY DEF Responses
  <1>2. ASSUME RunStep(r, l, m), s.err = (IF l[r.out] = "bad" THEN "failed" ELSE "paused")
        PROVE  RunStep(s, l, m)
    <2>1. r.out = Len(l) /\ \A j \in 1 .. Len(l) : l[j] # "good"
      BY <1>2 DEF RunStep, Uses, Has
    <2>2. ASSUME NEW j \in 1 .. Len(l), l[j] = "loop"
          PROVE  j = Len(l) /\ s.err = "paused"
      BY <1>2, <2>1, <2>2 DEF RunStep
    <2> QED BY <1>2, <2>1, <2>2 DEF RunStep, Uses, Has, Paused, Before
  <1>3. ASSUME CopyStep(r, l, u, m), s.err = (IF l[r.out] = "bad" THEN "failed" ELSE "final")
        PROVE  CopyStep(s, l, u, m) /\ FailsRight(s, l, u)
    <2>1. r.out = u /\ u = r.attempt /\ \A j \in 1 .. u : l[j] # "good"
      BY <1>3 DEF CopyStep, Uses, Has
    <2>2. l[r.out] = "loop" => ~GoodIn(l)
      <3>1. ASSUME l[r.out] = "loop", NEW j \in 1 .. Len(l), l[j] = "good"
            PROVE  FALSE
        <4>1. j = Len(l) /\ r.out = Len(l)
          BY <1>1, <1>3, <3>1 DEF CopyStep
        <4> QED BY <3>1, <4>1
      <3> QED BY <3>1 DEF GoodIn
    <2>3. CopyStep(s, l, u, m)
      BY <1>3, <2>1 DEF CopyStep, Uses, Has, Before
    <2>4. FailsRight(s, l, u)
      BY <1>1, <1>3, <2>1, <2>2 DEF FailsRight, Stuck
    <2> QED BY <2>3, <2>4
  <1> QED BY <1>2, <1>3

LEMMA MovesToRetry ==
    ASSUME NEW r \in Worker, NEW s \in Worker, NEW l \in Seq(Responses), NEW u \in Nat,
           NEW m \in Nat, u <= Len(l), r.pc = "failing", r.err = "failed", s.pc = "backoff",
           s.err = "none", s.attempt = r.attempt + 1, r.attempt < m
    PROVE  /\ RunStep(r, l, m) => RunStep(s, l, m)
           /\ CopyStep(r, l, u, m) /\ FailsRight(r, l, u) => CopyStep(s, l, u, m)
           /\ FailsRight(s, l, u)
  BY DEF Worker, Places, Errors, RunStep, CopyStep, FailsRight, Uses, Has, Paused, Before, Tries

(* A step of the copy fails for good: none of its responses was good.      *)
LEMMA NoneGood ==
    ASSUME NEW r \in Worker, NEW l \in Seq(Responses), NEW u \in Nat,
           NEW m \in Nat, u <= Len(l), r.pc = "failing", r.err = "failed", r.attempt >= m,
           r.attempt > 0, CopyStep(r, l, u, m), FailsRight(r, l, u)
    PROVE  ~GoodIn(l)
  <1>1. SUFFICES ASSUME NEW j \in 1 .. Len(l), l[j] = "good"
                 PROVE  FALSE
    BY DEF GoodIn
  <1>2. j = Len(l) /\ Len(l) \in Nat /\ Len(l) > 0 /\ r.attempt \in Nat
    BY <1>1 DEF CopyStep, Worker
  <1>3. u < Len(l)
    BY <1>1, <1>2 DEF CopyStep, Uses, Has
  <1>4. u = r.attempt
    BY <1>3 DEF FailsRight
  <1>5. Len(l) <= m
    BY <1>2, <1>3, <1>4 DEF CopyStep, Tries
  <1> QED BY <1>2, <1>3, <1>4, <1>5

LEMMA MovesToFailed ==
    ASSUME NEW r \in Worker, NEW s \in Worker, NEW l \in Seq(Responses), NEW u \in Nat,
           NEW m \in Nat, u <= Len(l), r.pc = "failing", r.err # "none", s.pc = "done",
           s.attempt = r.attempt, s.err = r.err \/ (r.err = "failed" /\ s.err = "budget")
    PROVE  /\ RunStep(r, l, m) => RunStep(s, l, m)
           /\ CopyStep(r, l, u, m) => CopyStep(s, l, u, m)
           /\ FailsRight(r, l, u) /\ (s.err = "failed" => ~GoodIn(l)) => FailsRight(s, l, u)
  <1>1. s.err # "none" /\ s.err \in Errors /\ r.err \in Errors
    BY DEF Worker
  <1>2. RunStep(r, l, m) => RunStep(s, l, m)
    BY <1>1 DEF RunStep, Uses, Has, Paused, Before, Tries
  <1>3. CopyStep(r, l, u, m) => CopyStep(s, l, u, m)
    BY <1>1 DEF CopyStep, Uses, Has, Before, Tries
  <1>4. FailsRight(r, l, u) /\ (s.err = "failed" => ~GoodIn(l)) => FailsRight(s, l, u)
    BY <1>1 DEF FailsRight, Stuck
  <1> QED BY <1>2, <1>3, <1>4

(* The copy of a step starts with all the responses of the run.            *)
LEMMA Copied ==
    ASSUME NEW r \in Worker, NEW l \in Seq(Responses), NEW m \in Nat, RunStep(r, l, m)
    PROVE  CopyStep(Off, l, 0, m) /\ FailsRight(Off, l, 0)
  <1>1. /\ Off \in Worker /\ Off.pc = "off" /\ Off.attempt = 1 /\ Off.err = "none"
    BY OffIs
  <1>2. Len(l) \in Nat /\ r.attempt \in Nat
    BY DEF Worker
  <1>3. Uses(Off, l, 0, m)
    BY <1>1 DEF Uses, Has, Tries
  <1>a. Len(l) <= r.attempt /\ Tries(r.attempt, m)
    BY Zenon DEF RunStep, Uses
  <1>b. \A n, a \in Nat : n <= a /\ Tries(a, m) => n = 0 \/ Tries(n, m)
    BY DEF Tries
  <1>4. Len(l) = 0 \/ Tries(Len(l), m)
    BY <1>2, <1>a, <1>b, Zenon
  <1>5. \A j \in 1 .. Len(l) : l[j] \in {"good", "loop"} => j = Len(l)
    BY DEF RunStep, Uses
  <1>6. CopyStep(Off, l, 0, m)
    BY <1>1, <1>3, <1>4, <1>5 DEF CopyStep
  <1> QED BY <1>1, <1>6 DEF FailsRight

-----------------------------------------------------------------------------
(* The steps of a run and of its copy.                                     *)

LEMMA StepFacts ==
    ASSUME TaskInv, NEW w \in Workers, Key(w) \in Keys
    PROVE  /\ work[w] \in Worker /\ plan.attempts \in Nat
           /\ log[Key(w)] \in Seq(Responses) /\ Len(log[Key(w)]) \in Nat
           /\ Len(answers[Key(w)]) \in Nat
           /\ Used(Key(w)) \in Nat /\ Used(Key(w)) <= Len(log[Key(w)])
           /\ answers[Key(w)] = <<>> => Used(Key(w)) = Len(log[Key(w)])
           /\ answers[Key(w)] # <<>> => Used(Key(w)) < Len(log[Key(w)])
           /\ ~copying => Used(Key(w)) = Len(log[Key(w)])
           /\ Sound(work[w]) /\ WorkerOK(w) /\ TypeOK
  <1> DEFINE k == Key(w)
  <1>1. TypeOK /\ KeyOK(k) /\ WorkerOK(w) /\ plan \in Plans
    BY DEF TaskInv, TypeOK
  <1>2. work[w] \in Worker /\ plan.attempts \in Nat /\ Sound(work[w])
    BY <1>1, WorkTypes, PlanFacts DEF WorkerOK
  <1>3. /\ log[k] \in Seq(Responses) /\ Len(log[k]) \in Nat /\ Len(answers[k]) \in Nat
        /\ answers[k] \in Seq(1 .. Len(log[k]))
    BY <1>1, StoredTypes DEF Responses
  <1>4. Used(k) \in Nat /\ (~copying => answers[k] = <<>>)
    BY <1>1 DEF KeyOK
  <1> HIDE DEF k
  <1>5. answers[k] = <<>> <=> Len(answers[k]) = 0
    BY <1>3
  <1>6. /\ Used(k) <= Len(log[k])
        /\ Len(answers[k]) = 0 => Used(k) = Len(log[k])
        /\ Len(answers[k]) # 0 => Used(k) < Len(log[k])
    <2>1. \A n, a \in Nat : n - a \in Nat => n - a <= n /\ (a = 0 => n - a = n) /\ (a # 0 => n - a < n)
      OBVIOUS
    <2> QED BY <1>3, <1>4, <2>1, Zenon DEF Used
  <1>7. /\ Used(k) <= Len(log[k])
        /\ answers[k] = <<>> => Used(k) = Len(log[k])
        /\ answers[k] # <<>> => Used(k) < Len(log[k])
        /\ ~copying => Used(k) = Len(log[k])
    BY <1>4, <1>5, <1>6, Zenon
  <1> QED BY <1>1, <1>2, <1>3, <1>4, <1>7, Zenon DEF k

LEMMA StepNext ==
    ASSUME plan' = plan, copying' = copying, NEW w, NEW k, k = Key(w), NEW s, s = work'[w],
           NEW l, l = log'[k], NEW u, u = Len(log'[k]) - Len(answers'[k]),
           NEW m, m = plan.attempts,
           copying => CopyStep(s, l, u, m) /\ (canceled' \/ FailsRight(s, l, u)),
           ~copying => RunStep(s, l, m)
    PROVE  StepOK(w)'
  <1>1. Key(w)' = k /\ plan'.attempts = m
    BY SamePlan
  <1>2. log'[Key(w)'] = l /\ Used(Key(w))' = u
    BY <1>1 DEF Used
  <1> QED BY <1>1, <1>2, Zenon DEF StepOK

LEMMA StepKept ==
    ASSUME plan' = plan, copying' = copying, canceled => canceled', NEW w, NEW k, k = Key(w),
           StepOK(w), work'[w] = work[w], log'[k] = log[k], answers'[k] = answers[k]
    PROVE  StepOK(w)'
  <1>1. PICK s : s = work[w]
    OBVIOUS
  <1>2. PICK l : l = log[k]
    OBVIOUS
  <1>3. PICK u : u = Used(k)
    OBVIOUS
  <1>4. PICK m : m = plan.attempts
    OBVIOUS
  <1>5. u = Len(log'[k]) - Len(answers'[k]) /\ l = log'[k] /\ s = work'[w]
    BY <1>1, <1>2, <1>3 DEF Used
  <1>6. /\ copying => CopyStep(s, l, u, m) /\ (canceled \/ FailsRight(s, l, u))
        /\ ~copying => RunStep(s, l, m)
    BY <1>1, <1>2, <1>3, <1>4, Zenon DEF StepOK
  <1>7. copying => CopyStep(s, l, u, m) /\ (canceled' \/ FailsRight(s, l, u))
    BY <1>6, Zenon
  <1> QED BY <1>4, <1>5, <1>6, <1>7, StepNext, Zenon

LEMMA ChildKept ==
    ASSUME plan' = plan, copying' = copying, canceled => canceled', NEW w, NEW k, k = Key(w),
           ChildOK(w), work'[w] = work[w], log'[k] = log[k], copying => log' = log,
           Paused(work[Parent(w)]) => Paused(work'[Parent(w)])
    PROVE  ChildOK(w)'
  <1>1. Key(w)' = k /\ Key(Parent(w))' = Key(Parent(w)) /\ Parent(w)' = Parent(w)
    BY SamePlan
  <1>2. CASE copying
    BY <1>1, <1>2, Zenon DEF ChildOK
  <1>3. CASE ~copying
    BY <1>1, <1>3, Zenon DEF ChildOK
  <1> QED BY <1>2, <1>3

(* Only who asks changes what is recorded and what is left to be used.     *)
LEMMA LogsMove ==
    ASSUME TaskInv, NEW w \in Workers, Works(w)
    PROVE  /\ Key(w) \in Keys
           /\ \A k \in Keys \ {Key(w)} : log'[k] = log[k] /\ answers'[k] = answers[k]
           /\ copying => log' = log
           /\ ~Asks(w) /\ ~Chat(w) => log' = log /\ answers' = answers
  <1>0. TypeOK /\ WorkerOK(w)
    BY DEF TaskInv
  <1>1. Key(w) \in Keys
    BY WorksIs DEF TaskInv, WorkerOK
  <1>2. CASE Asks(w)
    <2>1. PICK as \in {"good", "bad", "loop"} : log' = [log EXCEPT ![Key(w)] = Append(@, as)]
      BY <1>0, <1>2, AsksIs
    <2>2. answers' = answers /\ ~copying
      BY <1>0, <1>2, AsksIs
    <2>3. DOMAIN log = Keys
      BY <1>0 DEF TypeOK
    <2>4. \A k \in Keys \ {Key(w)} : log'[k] = log[k]
      BY <2>1, <2>3, Zenon
    <2> QED BY <1>1, <1>2, <2>2, <2>4, Zenon
  <1>3. CASE Chat(w)
    <2>1. answers' = [answers EXCEPT ![Key(w)] = Tail(@)] /\ log' = log
      BY <1>0, <1>3, ChatIs
    <2>2. DOMAIN answers = Keys
      BY <1>0 DEF TypeOK
    <2>3. \A k \in Keys \ {Key(w)} : answers'[k] = answers[k]
      BY <2>1, <2>2, Zenon
    <2> QED BY <1>1, <1>3, <2>1, <2>3, Zenon
  <1>4. CASE ~Asks(w) /\ ~Chat(w)
    <2>1. log' = log /\ answers' = answers
      BY <1>4 DEF Works, GivesUp, Takes, Creates, CreateFails, AskFails, Completes, Rejects, Fails,
                  BackoffEnds, stored
    <2> QED BY <1>1, <1>4, <2>1, Zenon
  <1> QED BY <1>2, <1>3, <1>4

(* The responses of different workers are recorded for different keys.     *)
LEMMA KeysDiffer ==
    ASSUME plan \in Plans, Distinct, NEW v \in Workers, NEW w \in Workers, Key(w) \in Keys, v # w
    PROVE  Key(v) # Key(w)
  BY WorkersAre DEF Distinct

LEMMA LiveFacts ==
    ASSUME TaskInv, CopyInv, Undisturbed
    PROVE  /\ WorkCopy /\ Distinct /\ plan \in Plans /\ (Over <=> canceled)
           /\ \A k \in Keys : reuse[k] = {}
  <1>1. context = "live" /\ reuse = None /\ WorkCopy
    BY Zenon DEF CopyInv, Undisturbed
  <1>2. Over <=> canceled
    BY <1>1 DEF Over
  <1> QED BY <1>1, <1>2 DEF None, Undisturbed, TaskInv, TypeOK

LEMMA StepMoves ==
    ASSUME TaskInv, CopyInv, Undisturbed, NEW w \in Steps, Works(w)
    PROVE  StepOK(w)'
  <1>1. PICK k : k = Key(w)
    OBVIOUS
  <1>2. PICK l : l = log[k]
    OBVIOUS
  <1>3. PICK u : u = Used(k)
    OBVIOUS
  <1>4. PICK m : m = plan.attempts
    OBVIOUS
  <1>5. PICK r : r = work[w]
    OBVIOUS
  <1>6. PICK s : s = work'[w]
    OBVIOUS
  <1>7. /\ w \in Workers /\ k \in Keys /\ Statics /\ s \in Worker /\ phase = "running"
        /\ reuse[k] = {} /\ (Over <=> canceled)
    BY <1>1, <1>6, LiveFacts, LogsMove, WorkersAre, WorksIs
  <1>8. /\ r \in Worker /\ m \in Nat /\ l \in Seq(Responses) /\ Len(l) \in Nat /\ u \in Nat
        /\ u <= Len(l) /\ (~copying => u = Len(l)) /\ Sound(r) /\ WorkerOK(w) /\ TypeOK
        /\ answers[k] = <<>> => u = Len(l)
        /\ answers[k] # <<>> => u < Len(l)
    BY <1>1, <1>2, <1>3, <1>4, <1>5, <1>7, StepFacts
  <1>9. StepOK(w)
    BY LiveFacts DEF WorkCopy
  <1>10. /\ copying => CopyStep(r, l, u, m) /\ (canceled \/ FailsRight(r, l, u))
         /\ ~copying => RunStep(r, l, m)
    BY <1>1, <1>2, <1>3, <1>4, <1>5, <1>9, Zenon DEF StepOK
  <1>11. plan' = plan /\ copying' = copying /\ canceled' = canceled
    BY <1>7 DEF Statics
  <1>12. ASSUME log' = log, answers' = answers,
                copying => CopyStep(s, l, u, m) /\ (canceled \/ FailsRight(s, l, u)),
                ~copying => RunStep(s, l, m)
         PROVE  StepOK(w)'
    <2>1. l = log'[k] /\ u = Len(log'[k]) - Len(answers'[k])
      BY <1>2, <1>3, <1>12 DEF Used
    <2>2. copying => CopyStep(s, l, u, m) /\ (canceled' \/ FailsRight(s, l, u))
      BY <1>11, <1>12, Zenon
    <2> QED BY <1>1, <1>4, <1>6, <1>11, <1>12, <2>1, <2>2, StepNext, Zenon
  <1>13. ASSUME log' = log, answers' = answers, r.pc \in Before, s.pc \in Before,
                s.err = "none", s.attempt = r.attempt
         PROVE  StepOK(w)'
    BY <1>8, <1>7, <1>10, <1>12, <1>13, MovesOn, Zenon
  <1>14. ASSUME log' = log, answers' = answers, r.pc \in Before, s.pc \in {"failing", "done"},
                s.attempt = r.attempt,
                \/ s.err = "canceled" /\ canceled
                \/ s.err = "failed" /\ s.pc = "failing" /\ (copying => u = Len(l))
                \/ s.err = "budget"
         PROVE  StepOK(w)'
    <2>1. s.err # "none" /\ s.err # "paused"
      BY <1>14
    <2>2. /\ RunStep(r, l, m) => RunStep(s, l, m)
          /\ CopyStep(r, l, u, m) => CopyStep(s, l, u, m)
      BY <1>7, <1>8, <1>14, <2>1, MovesToFail, Zenon
    <2>3. copying => canceled \/ FailsRight(s, l, u)
      <3>1. CASE s.err = "canceled" /\ canceled
        BY <3>1
      <3>2. ASSUME s.err \in {"failed", "budget"}, s.err = "failed" => s.pc = "failing" /\ u = Len(l)
            PROVE  FailsRight(s, l, u)
        BY <3>2 DEF FailsRight, Stuck
      <3>3. CASE s.err = "failed" /\ s.pc = "failing" /\ (copying => u = Len(l))
        BY <3>2, <3>3
      <3>4. CASE s.err = "budget"
        BY <3>2, <3>4
      <3> QED BY <1>14, <3>1, <3>3, <3>4
    <2> QED BY <1>10, <1>12, <1>14, <2>2, <2>3, Zenon
  <1>15. r.pc \in Before => r.err = "none"
    BY <1>8 DEF Sound, Before, Places
  <1>16. CASE GivesUp(w)
    <2>1. At(w, "take") /\ Over /\ Returned(w, 0, "canceled") /\ UNCHANGED <<log, answers>>
      BY <1>7, <1>8, <1>16, GivesUpIs
    <2>2. r.pc = "take" /\ s.pc = "done" /\ s.attempt = r.attempt /\ s.err = "canceled"
      BY <1>5, <1>6, <2>1 DEF At, Returned, WorkIs
    <2> QED BY <1>7, <1>14, <2>1, <2>2 DEF Before
  <1>17. CASE Takes(w)
    <2>1. At(w, "take") /\ UNCHANGED <<log, answers>>
      BY <1>7, <1>8, <1>17, TakesIs
    <2>2. \/ WorkIs(w, "create", work[w].attempt, work[w].task, work[w].out, work[w].err)
          \/ Returned(w, 0, "budget")
      BY <1>1, <1>7, <1>8, <1>17, TakesIs
    <2>3. /\ r.pc = "take" /\ s.attempt = r.attempt
          /\ (s.pc = "create" /\ s.err = r.err) \/ (s.pc = "done" /\ s.err = "budget")
      BY <1>5, <1>6, <2>1, <2>2 DEF At, Returned, WorkIs
    <2> QED BY <1>13, <1>14, <1>15, <2>1, <2>3 DEF Before
  <1>18. CASE Creates(w)
    <2>1. At(w, "create") /\ UNCHANGED <<log, answers>>
      BY <1>7, <1>8, <1>18, CreatesIs
    <2>2. \/ WorkIs(w, "delegating", work[w].attempt, Len(tasks[Key(w)]) + 1,
                    work[w].out, work[w].err)
          \/ WorkIs(w, "ask", work[w].attempt, Len(tasks[Key(w)]) + 1,
                    work[w].out, work[w].err)
      BY <1>7, <1>8, <1>18, CreatesIs
    <2>3. /\ r.pc = "create" /\ s.attempt = r.attempt /\ s.err = r.err
          /\ s.pc \in {"delegating", "ask"}
      BY <1>5, <1>6, <2>1, <2>2 DEF At, WorkIs
    <2> QED BY <1>13, <1>15, <2>1, <2>3 DEF Before
  <1>19. CASE CreateFails(w)
    <2>1. /\ At(w, "create") /\ UNCHANGED <<log, answers>>
          /\ WorkIs(w, "failing", work[w].attempt, 0, work[w].out,
                    IF Over THEN "canceled" ELSE "failed")
          /\ IF Over THEN faults' = faults ELSE Fault
      BY <1>7, <1>8, <1>19, CreateFailsIs
    <2>2. ~Over => ~copying
      BY <2>1 DEF Fault
    <2>3. /\ r.pc = "create" /\ s.pc = "failing" /\ s.attempt = r.attempt
          /\ s.err = IF Over THEN "canceled" ELSE "failed"
      BY <1>5, <1>6, <2>1 DEF At, WorkIs
    <2> QED BY <1>7, <1>14, <2>1, <2>2, <2>3 DEF Before
  <1>20. CASE AskFails(w)
    <2>1. /\ At(w, "ask") /\ UNCHANGED <<log, answers>>
          /\ WorkIs(w, "failing", work[w].attempt, work[w].task, work[w].out,
                    IF Over THEN "canceled" ELSE "failed")
          /\ IF Over \/ (copying /\ answers[Key(w)] = <<>>) THEN faults' = faults ELSE Fault
      BY <1>7, <1>8, <1>20, AskFailsIs
    <2>2. ~Over /\ copying => u = Len(l)
      BY <1>1, <1>8, <2>1 DEF Fault
    <2>3. /\ r.pc = "ask" /\ s.pc = "failing" /\ s.attempt = r.attempt
          /\ s.err = IF Over THEN "canceled" ELSE "failed"
      BY <1>5, <1>6, <2>1 DEF At, WorkIs
    <2> QED BY <1>7, <1>14, <2>1, <2>2, <2>3 DEF Before
  <1>21. CASE BackoffEnds(w)
    <2>1. /\ At(w, "backoff") /\ UNCHANGED <<log, answers>>
          /\ \/ WorkIs(w, "create", work[w].attempt, work[w].task, work[w].out, work[w].err)
             \/ Over /\ Returned(w, 0, "canceled")
      BY <1>7, <1>8, <1>21, BackoffEndsIs
    <2>2. /\ r.pc = "backoff" /\ s.attempt = r.attempt
          /\ (s.pc = "create" /\ s.err = r.err) \/ (s.pc = "done" /\ s.err = "canceled" /\ Over)
      BY <1>5, <1>6, <2>1 DEF At, Returned, WorkIs
    <2> QED BY <1>7, <1>13, <1>14, <1>15, <2>1, <2>2 DEF Before
  <1>22. CASE Asks(w)
    <2>1. PICK as \in Responses : log' = [log EXCEPT ![Key(w)] = Append(@, as)]
      BY <1>7, <1>8, <1>22, AsksIs DEF Responses
    <2>2. /\ At(w, "ask") /\ ~copying /\ answers' = answers
          /\ WorkIs(w, "answered", work[w].attempt, work[w].task, Len(log[Key(w)]) + 1,
                    work[w].err)
      BY <1>7, <1>8, <1>22, AsksIs
    <2>3. DOMAIN log = Keys
      BY <1>8 DEF TypeOK
    <2>4. log'[k] = Append(l, as)
      BY <1>1, <1>2, <1>7, <2>1, <2>3, Zenon
    <2>5. /\ r.pc = "ask" /\ s.pc = "answered" /\ s.attempt = r.attempt /\ s.err = r.err
          /\ s.out = Len(l) + 1
      BY <1>1, <1>2, <1>5, <1>6, <2>2 DEF At, WorkIs
    <2>6. s.err = "none"
      BY <1>15, <2>5 DEF Before
    <2>7. RunStep(s, Append(l, as), m)
      BY <1>7, <1>8, <1>10, <2>2, <2>5, <2>6, MovesToAnswer
    <2>8. PICK n : n = Append(l, as)
      OBVIOUS
    <2>9. PICK v : v = Len(log'[k]) - Len(answers'[k])
      OBVIOUS
    <2> QED BY <1>1, <1>4, <1>6, <1>11, <2>2, <2>4, <2>7, <2>8, <2>9, StepNext, Zenon
  <1>23. CASE Chat(w)
    <2>1. /\ At(w, "ask") /\ copying /\ answers[k] # <<>> /\ log' = log
          /\ WorkIs(w, "answered", work[w].attempt, work[w].task, answers[k][1], work[w].err)
          /\ Len(answers'[k]) = Len(answers[k]) - 1
      BY <1>1, <1>7, <1>8, <1>23, ChatIs, ChatStore
    <2>2. Len(answers[k]) \in Nat /\ Len(answers[k]) > 0 /\ KeyOK(k)
      BY <1>1, <1>7, <2>1, KeyFacts DEF KeyTypes
    <2>3. answers[k][1] = u + 1
      BY <1>3, <2>2 DEF KeyOK
    <2>4. Len(log'[k]) - Len(answers'[k]) = u + 1
      BY <1>2, <1>3, <1>8, <2>1, <2>2 DEF Used
    <2>5. /\ r.pc = "ask" /\ s.pc = "answered" /\ s.attempt = r.attempt /\ s.err = r.err
          /\ s.out = u + 1
      BY <1>5, <1>6, <2>1, <2>3 DEF At, WorkIs
    <2>6. s.err = "none" /\ u < Len(l)
      BY <1>8, <1>15, <2>1, <2>5 DEF Before
    <2>7. CopyStep(s, l, u + 1, m) /\ FailsRight(s, l, u + 1)
      BY <1>7, <1>8, <1>10, <2>1, <2>5, <2>6, MovesToAnswer
    <2>8. PICK v : v = u + 1
      OBVIOUS
    <2> QED BY <1>1, <1>2, <1>4, <1>6, <1>11, <2>1, <2>4, <2>7, <2>8, StepNext, Zenon
  <1>24. CASE Completes(w)
    <2>1. At(w, "answered") /\ Response(w) = "good" /\ Returned(w, work[w].out, "none")
          /\ UNCHANGED <<log, answers>>
      BY <1>7, <1>8, <1>24, CompletesIs
    <2>2. /\ r.pc = "answered" /\ l[r.out] = "good" /\ s.pc = "done" /\ s.attempt = r.attempt
          /\ s.out = r.out /\ s.err = "none"
      BY <1>1, <1>2, <1>5, <1>6, <2>1 DEF At, Returned, WorkIs, Response
    <2>3. r.out \in 1 .. u
      BY <1>1, <1>3, <1>5, <1>8, <2>2 DEF WorkerOK, Held
    <2> QED BY <1>7, <1>8, <1>10, <1>12, <2>1, <2>2, <2>3, MovesToEnd, Zenon
  <1>25. CASE Rejects(w)
    <2>1. /\ At(w, "answered") /\ Response(w) # "good" /\ UNCHANGED <<log, answers>>
          /\ WorkIs(w, "failing", work[w].attempt, work[w].task, work[w].out,
                    IF Response(w) = "bad" THEN "failed"
                    ELSE IF copying THEN "final" ELSE "paused")
      BY <1>7, <1>8, <1>25, RejectsIs
    <2>2. /\ r.pc = "answered" /\ l[r.out] # "good" /\ s.pc = "failing" /\ s.attempt = r.attempt
          /\ s.err = IF l[r.out] = "bad" THEN "failed" ELSE IF copying THEN "final" ELSE "paused"
      BY <1>1, <1>2, <1>5, <1>6, <2>1 DEF At, WorkIs, Response
    <2>3. r.out \in 1 .. u
      BY <1>1, <1>3, <1>5, <1>8, <2>2 DEF WorkerOK, Held
    <2>4. CASE copying
      BY <1>7, <1>8, <1>10, <1>12, <2>1, <2>2, <2>3, <2>4, MovesToReject, Zenon
    <2>5. CASE ~copying
      BY <1>7, <1>8, <1>10, <1>12, <2>1, <2>2, <2>3, <2>5, MovesToReject, Zenon
    <2> QED BY <2>4, <2>5
  <1>26. CASE Fails(w)
    <2>1. At(w, "failing") /\ UNCHANGED <<log, answers>>
      BY <1>7, <1>8, <1>26, FailsIs
    <2>2. \/ Again(w) /\ WorkIs(w, "backoff", work[w].attempt + 1, 0, 0, "none")
          \/ Again(w) /\ Returned(w, 0, "budget")
          \/ ~Again(w) /\ Returned(w, 0, work[w].err)
      BY <1>7, <1>8, <1>26, FailsIs
    <2>3. r.pc = "failing" /\ r.err # "none" /\ r.attempt > 0
      BY <1>5, <1>8, <2>1 DEF At, Sound
    <2>4. CASE Again(w) /\ WorkIs(w, "backoff", work[w].attempt + 1, 0, 0, "none")
      <3>1. /\ r.err = "failed" /\ r.attempt < m /\ ~Over /\ s.pc = "backoff"
            /\ s.attempt = r.attempt + 1 /\ s.err = "none"
        BY <1>4, <1>5, <1>6, <2>4 DEF Again, WorkIs
      <3> QED BY <1>7, <1>8, <1>10, <1>12, <2>1, <2>3, <3>1, MovesToRetry, Zenon
    <2>5. CASE Again(w) /\ Returned(w, 0, "budget")
      <3>1. /\ r.err = "failed" /\ s.pc = "done" /\ s.attempt = r.attempt /\ s.err = "budget"
        BY <1>5, <1>6, <2>5 DEF Again, Returned, WorkIs
      <3>2. s.err # "failed"
        BY <3>1
      <3> QED BY <1>7, <1>8, <1>10, <1>12, <2>1, <2>3, <3>1, <3>2, MovesToFailed, Zenon
    <2>6. CASE ~Again(w) /\ Returned(w, 0, work[w].err)
      <3>1. s.pc = "done" /\ s.attempt = r.attempt /\ s.err = r.err
        BY <1>5, <1>6, <2>6 DEF Returned, WorkIs
      <3>2. r.err = "failed" => canceled \/ ~(r.attempt < m)
        BY <1>4, <1>5, <1>7, <2>6 DEF Again
      <3>3. r.attempt \in Nat
        BY <1>8 DEF Worker
      <3>4. copying /\ ~canceled /\ r.err = "failed" => ~GoodIn(l)
        <4>1. ASSUME copying, ~canceled, r.err = "failed"
              PROVE  ~GoodIn(l)
          <5>1. ~(r.attempt < m)
            BY <3>2, <4>1
          <5>2. r.attempt >= m
            BY <1>8, <3>3, <5>1
          <5> QED BY <1>8, <1>10, <2>3, <4>1, <5>2, NoneGood
        <4> QED BY <4>1
      <3> QED BY <1>7, <1>8, <1>10, <1>12, <2>1, <2>3, <3>1, <3>4, MovesToFailed, Zenon
    <2> QED BY <2>2, <2>4, <2>5, <2>6
  <1> QED BY <1>16, <1>17, <1>18, <1>19, <1>20, <1>21, <1>22, <1>23, <1>24, <1>25, <1>26 DEF Works

-----------------------------------------------------------------------------
(* The tasks that the steps delegate.                                      *)

LEMMA ParentMoves ==
    ASSUME TaskInv, CopyInv, Undisturbed, NEW w \in Workers \ Steps, Works(w),
           NEW p, p = Parent(w), work[p].pc = "delegating",
           NEW out, NEW err \in Errors, Returned(w, out, err),
           copying => \/ err \in {"none", "failed", "budget"}
                      \/ err = "canceled" /\ canceled
                      \/ err = "final" /\ ~GoodIn(log[Key(p)])
    PROVE  StepOK(p)'
  <1>1. PICK k : k = Key(p)
    OBVIOUS
  <1>2. PICK l : l = log[k]
    OBVIOUS
  <1>3. PICK u : u = Used(k)
    OBVIOUS
  <1>4. PICK m : m = plan.attempts
    OBVIOUS
  <1>5. PICK r : r = work[p]
    OBVIOUS
  <1>6. PICK s : s = work'[p]
    OBVIOUS
  <1>7. p \in Steps /\ p # w /\ p \in Workers /\ k \in Keys /\ plan \in Plans /\ Distinct
    BY <1>1, LiveFacts, WorkersAre
  <1>8. /\ r \in Worker /\ m \in Nat /\ l \in Seq(Responses) /\ u \in Nat
        /\ u <= Len(l) /\ Sound(r)
    BY <1>1, <1>2, <1>3, <1>4, <1>5, <1>7, StepFacts
  <1>9. StepOK(p)
    BY <1>7, LiveFacts DEF WorkCopy
  <1>10. /\ copying => CopyStep(r, l, u, m) /\ (canceled \/ FailsRight(r, l, u))
         /\ ~copying => RunStep(r, l, m)
    BY <1>1, <1>2, <1>3, <1>4, <1>5, <1>9, Zenon DEF StepOK
  <1>11. Statics /\ s \in Worker
    BY <1>6, <1>7, WorksIs
  <1>12. plan' = plan /\ copying' = copying /\ canceled' = canceled
    BY <1>11 DEF Statics
  <1>13. k # Key(w)
    BY <1>1, <1>7, KeysDiffer
  <1>14. log'[k] = log[k] /\ answers'[k] = answers[k]
    BY <1>7, <1>13, LogsMove
  <1>15. l = log'[k] /\ u = Len(log'[k]) - Len(answers'[k])
    BY <1>2, <1>3, <1>14 DEF Used
  <1>16. r.pc = "delegating" /\ r.err = "none" /\ r.pc \in Before
    BY <1>5, <1>8 DEF Sound, Before, Places
  <1>17. ToParent(w, err)
    BY DEF Returned, ToChannel, ToNext, ToEnd
  <1>18. CASE err \in {"none", "failed"}
    <2>1. s.pc = "ask" /\ s.attempt = r.attempt /\ s.err = "none"
      BY <1>5, <1>6, <1>16, <1>17, <1>18 DEF ToParent, WorkIs
    <2>2. s.pc \in Before
      BY <2>1 DEF Before
    <2>3. /\ RunStep(r, l, m) => RunStep(s, l, m)
          /\ CopyStep(r, l, u, m) => CopyStep(s, l, u, m)
          /\ FailsRight(s, l, u)
      BY <1>8, <1>11, <1>16, <2>1, <2>2, MovesOn
    <2> QED BY <1>1, <1>4, <1>6, <1>10, <1>12, <1>15, <2>3, StepNext, Zenon
  <1>19. CASE err \notin {"none", "failed"}
    <2>1. s.pc = "failing" /\ s.attempt = r.attempt /\ s.err = err
      BY <1>5, <1>6, <1>17, <1>19 DEF ToParent, WorkIs
    <2>2. s.err # "none" /\ s.pc \in {"failing", "done"}
      BY <1>19, <2>1
    <2>3. /\ RunStep(r, l, m) => RunStep(s, l, m)
          /\ CopyStep(r, l, u, m) /\ s.err # "paused" => CopyStep(s, l, u, m)
      BY <1>8, <1>11, <1>16, <2>1, <2>2, MovesToFail
    <2>4. copying => s.err # "paused"
      BY <2>1
    <2>5. copying => canceled \/ FailsRight(s, l, u)
      <3>1. ASSUME copying, ~canceled
            PROVE  FailsRight(s, l, u)
        <4>1. s.err = "budget" \/ (s.err = "final" /\ ~GoodIn(l))
          BY <1>1, <1>2, <1>19, <2>1, <3>1
        <4> QED BY <2>1, <4>1 DEF FailsRight, Stuck
      <3> QED BY <3>1
    <2>6. copying => CopyStep(s, l, u, m) /\ (canceled' \/ FailsRight(s, l, u))
      BY <1>10, <1>12, <2>3, <2>4, <2>5, Zenon
    <2>7. ~copying => RunStep(s, l, m)
      BY <1>10, <2>3, Zenon
    <2> QED BY <1>1, <1>4, <1>6, <1>12, <1>15, <2>6, <2>7, StepNext, Zenon
  <1> QED BY <1>18, <1>19

(* What a step of a delegated task makes of the task and its step.         *)
LEMMA ChildMoves ==
    ASSUME TaskInv, CopyInv, Undisturbed, NEW w \in Workers \ Steps, Works(w),
           NEW p, p = Parent(w)
    PROVE  ChildOK(w)' /\ StepOK(p)'
  <1>1. PICK k : k = Key(w)
    OBVIOUS
  <1>2. PICK l : l = log[k]
    OBVIOUS
  <1>3. PICK q : q = log[Key(p)]
    OBVIOUS
  <1>5. PICK r : r = work[w]
    OBVIOUS
  <1>6. PICK s : s = work'[w]
    OBVIOUS
  <1>7. /\ w \in Workers /\ k \in Keys /\ Statics /\ phase = "running" /\ plan \in Plans
        /\ p \in Steps /\ p # w /\ p \in Workers /\ Key(p) \in Keys
        /\ reuse[k] = {} /\ (Over <=> canceled)
    BY <1>1, LiveFacts, LogsMove, WorkersAre, WorksIs
  <1>8. /\ Sound(r) /\ WorkerOK(w) /\ TypeOK /\ l \in Seq(Responses) /\ Len(l) \in Nat
        /\ Used(k) <= Len(l) /\ Used(k) \in Nat
    BY <1>1, <1>2, <1>5, <1>7, StepFacts
  <1>9. r.pc \notin {"off", "done"}
    BY <1>5, WorksIs
  <1>10. work[p].pc = "delegating"
    BY <1>5, <1>7, <1>8, <1>9 DEF WorkerOK
  <1>11. plan' = plan /\ copying' = copying /\ canceled' = canceled
    BY <1>7 DEF Statics
  <1>12. w \in Children
    BY <1>1, <1>7, WorkersAre DEF Children
  <1>13. ChildOK(w)
    BY <1>12, LiveFacts DEF WorkCopy
  <1>14. /\ copying => /\ LoopIn(l) => ~GoodIn(q)
                       /\ r.pc = "failing" =>
                             /\ r.err \in {"failed", "budget", "final", "canceled"}
                             /\ r.err = "canceled" => canceled
                             /\ r.err = "final" => ~GoodIn(q)
         /\ ~copying /\ LoopIn(l) => \/ r.pc = "answered" /\ l[r.out] = "loop"
                                     \/ r.pc = "failing" /\ r.err = "paused"
                                     \/ Paused(work[p])
    BY <1>1, <1>2, <1>3, <1>5, <1>13, Zenon DEF ChildOK
  <1>15. ~Paused(work[p])
    BY <1>10 DEF Paused
  <1>16. Key(w)' = k /\ Parent(w)' = p /\ Key(p)' = Key(p)
    BY <1>1, <1>11, SamePlan
  <1>17. ASSUME log' = log,
                copying /\ s.pc = "failing" =>
                    /\ s.err \in {"failed", "budget", "final", "canceled"}
                    /\ s.err = "canceled" => canceled
                    /\ s.err = "final" => ~GoodIn(q),
                ~copying /\ LoopIn(l) => \/ s.pc = "answered" /\ l[s.out] = "loop"
                                         \/ s.pc = "failing" /\ s.err = "paused"
                                         \/ Paused(work'[p])
         PROVE  ChildOK(w)'
    <2>1. log'[k] = l /\ log'[Key(p)] = q
      BY <1>2, <1>3, <1>17
    <2>2. CASE copying
      BY <1>6, <1>11, <1>14, <1>16, <1>17, <2>1, <2>2, Zenon DEF ChildOK
    <2>3. CASE ~copying
      BY <1>6, <1>11, <1>14, <1>16, <1>17, <2>1, <2>3, Zenon DEF ChildOK
    <2> QED BY <2>2, <2>3
  <1>18. ASSUME KeptBut({w})
         PROVE  StepOK(p)'
    <2>1. work'[p] = work[p]
      BY <1>7, <1>18 DEF KeptBut
    <2>2. Key(p) # k /\ StepOK(p)
      BY <1>1, <1>7, KeysDiffer, LiveFacts DEF WorkCopy
    <2>3. log'[Key(p)] = log[Key(p)] /\ answers'[Key(p)] = answers[Key(p)]
      BY <1>1, <1>7, <2>2, LogsMove
    <2> QED BY <1>11, <2>1, <2>2, <2>3, StepKept
  <1>19. ~copying /\ r.pc \notin {"answered", "failing"} => ~LoopIn(l)
    BY <1>14, <1>15
  <1>20. CASE GivesUp(w)
    BY <1>8, <1>20, GivesUpIs
  <1>21. CASE Takes(w)
    <2>1. At(w, "take") /\ UNCHANGED <<log, answers>>
      BY <1>7, <1>8, <1>21, TakesIs
    <2>2. \/ Alone(w) /\ WorkIs(w, "create", work[w].attempt, work[w].task, work[w].out, work[w].err)
          \/ Returned(w, 0, "budget")
      BY <1>1, <1>7, <1>8, <1>21, TakesIs
    <2>3. r.pc = "take" /\ s.pc \in {"create", "done"}
      BY <1>5, <1>6, <2>1, <2>2 DEF At, Returned, WorkIs
    <2>4. ChildOK(w)'
      BY <1>17, <1>19, <2>1, <2>3
    <2>5. CASE Alone(w)
      BY <1>18, <2>4, <2>5 DEF Alone
    <2>6. CASE Returned(w, 0, "budget")
      <3>1. "budget" \in Errors
        BY DEF Errors
      <3> QED BY <1>10, <2>4, <2>6, <3>1, ParentMoves
    <2> QED BY <2>2, <2>5, <2>6
  <1>22. CASE Creates(w)
    <2>1. /\ At(w, "create") /\ UNCHANGED <<log, answers>> /\ KeptBut({w})
          /\ WorkIs(w, "ask", work[w].attempt, Len(tasks[Key(w)]) + 1, work[w].out, work[w].err)
      BY <1>7, <1>8, <1>22, CreatesIs
    <2>2. r.pc = "create" /\ s.pc = "ask"
      BY <1>5, <1>6, <2>1 DEF At, WorkIs
    <2> QED BY <1>17, <1>18, <1>19, <2>1, <2>2
  <1>23. CASE CreateFails(w)
    <2>1. /\ At(w, "create") /\ UNCHANGED <<log, answers>> /\ KeptBut({w})
          /\ WorkIs(w, "failing", work[w].attempt, 0, work[w].out,
                    IF Over THEN "canceled" ELSE "failed")
      BY <1>7, <1>8, <1>23, CreateFailsIs DEF Alone
    <2>2. /\ r.pc = "create" /\ s.pc = "failing"
          /\ s.err = IF Over THEN "canceled" ELSE "failed"
      BY <1>5, <1>6, <2>1 DEF At, WorkIs
    <2>3. /\ s.err \in {"failed", "budget", "final", "canceled"} /\ s.err # "final"
          /\ s.err = "canceled" => canceled
      BY <1>7, <2>2
    <2> QED BY <1>17, <1>18, <1>19, <2>1, <2>2, <2>3
  <1>24. CASE AskFails(w)
    <2>1. /\ At(w, "ask") /\ UNCHANGED <<log, answers>> /\ KeptBut({w})
          /\ WorkIs(w, "failing", work[w].attempt, work[w].task, work[w].out,
                    IF Over THEN "canceled" ELSE "failed")
      BY <1>7, <1>8, <1>24, AskFailsIs DEF Alone
    <2>2. /\ r.pc = "ask" /\ s.pc = "failing"
          /\ s.err = IF Over THEN "canceled" ELSE "failed"
      BY <1>5, <1>6, <2>1 DEF At, WorkIs
    <2>3. /\ s.err \in {"failed", "budget", "final", "canceled"} /\ s.err # "final"
          /\ s.err = "canceled" => canceled
      BY <1>7, <2>2
    <2> QED BY <1>17, <1>18, <1>19, <2>1, <2>2, <2>3
  <1>25. CASE Asks(w)
    <2>1. PICK as \in Responses : log' = [log EXCEPT ![Key(w)] = Append(@, as)]
      BY <1>7, <1>8, <1>25, AsksIs DEF Responses
    <2>2. /\ At(w, "ask") /\ ~copying /\ KeptBut({w})
          /\ WorkIs(w, "answered", work[w].attempt, work[w].task, Len(log[Key(w)]) + 1,
                    work[w].err)
      BY <1>7, <1>8, <1>25, AsksIs DEF Alone
    <2>3. DOMAIN log = Keys
      BY <1>8 DEF TypeOK
    <2>4. PICK n : n = Append(l, as)
      OBVIOUS
    <2>5. log'[k] = n
      BY <1>1, <1>2, <1>7, <2>1, <2>3, <2>4, Zenon
    <2>6. r.pc = "ask" /\ s.pc = "answered" /\ s.out = Len(l) + 1
      BY <1>1, <1>2, <1>5, <1>6, <2>2 DEF At, WorkIs
    <2>7. ~LoopIn(l)
      BY <1>19, <2>2, <2>6
    <2>8. LoopIn(n) => n[s.out] = "loop"
      <3>1. /\ Len(n) = Len(l) + 1 /\ \A j \in 1 .. Len(l) : n[j] = l[j]
        BY <1>8, <2>4, AppendFacts
      <3>2. \A j \in 1 .. Len(n) : j \in 1 .. Len(l) \/ j = s.out
        BY <1>8, <2>6, <3>1
      <3> QED BY <2>7, <3>1, <3>2 DEF LoopIn
    <2>9. ChildOK(w)'
      BY <1>6, <1>11, <1>16, <2>2, <2>5, <2>6, <2>8, Zenon DEF ChildOK
    <2> QED BY <1>18, <2>2, <2>9
  <1>26. CASE Chat(w)
    <2>1. /\ At(w, "ask") /\ copying /\ log' = log /\ KeptBut({w})
          /\ WorkIs(w, "answered", work[w].attempt, work[w].task, answers[Key(w)][1], work[w].err)
      BY <1>7, <1>8, <1>26, ChatIs DEF Alone
    <2>2. s.pc = "answered"
      BY <1>6, <2>1 DEF WorkIs
    <2> QED BY <1>17, <1>18, <2>1, <2>2
  <1>27. CASE Completes(w)
    <2>1. At(w, "answered") /\ Response(w) = "good" /\ Returned(w, work[w].out, "none")
          /\ UNCHANGED <<log, answers>>
      BY <1>7, <1>8, <1>27, CompletesIs
    <2>2. r.pc = "answered" /\ l[r.out] = "good" /\ s.pc = "done"
      BY <1>1, <1>2, <1>5, <1>6, <2>1 DEF At, Returned, WorkIs, Response
    <2>3. ChildOK(w)'
      BY <1>14, <1>15, <1>17, <2>1, <2>2
    <2>4. "none" \in Errors
      BY DEF Errors
    <2>5. StepOK(p)'
      BY <1>10, <2>1, <2>4, ParentMoves
    <2> QED BY <2>3, <2>5
  <1>28. CASE Rejects(w)
    <2>1. /\ At(w, "answered") /\ Response(w) # "good" /\ UNCHANGED <<log, answers>>
          /\ WorkIs(w, "failing", work[w].attempt, work[w].task, work[w].out,
                    IF Response(w) = "bad" THEN "failed"
                    ELSE IF copying THEN "final" ELSE "paused")
          /\ KeptBut({w})
      BY <1>7, <1>8, <1>28, RejectsIs DEF Alone
    <2>2. /\ r.pc = "answered" /\ l[r.out] # "good" /\ s.pc = "failing"
          /\ s.err = IF l[r.out] = "bad" THEN "failed" ELSE IF copying THEN "final" ELSE "paused"
      BY <1>1, <1>2, <1>5, <1>6, <2>1 DEF At, WorkIs, Response
    <2>3. r.out \in 1 .. Used(k)
      BY <1>1, <1>5, <1>8, <2>2 DEF WorkerOK, Held
    <2>4. r.out \in 1 .. Len(l)
      BY <1>8, <2>3
    <2>5. l[r.out] \in Responses
      BY <1>8, <2>4
    <2>6. l[r.out] # "bad" => LoopIn(l)
      BY <2>2, <2>4, <2>5 DEF Responses, LoopIn
    <2>7. CASE copying
      <3>1. s.err \in {"failed", "final"} /\ (s.err = "final" => ~GoodIn(q))
        BY <1>14, <2>2, <2>6, <2>7
      <3> QED BY <1>17, <1>18, <2>1, <2>7, <3>1
    <2>8. CASE ~copying
      <3>1. LoopIn(l) => s.err = "paused"
        BY <1>14, <1>15, <2>2, <2>8
      <3> QED BY <1>17, <1>18, <2>1, <2>2, <2>8, <3>1
    <2> QED BY <2>7, <2>8
  <1>29. CASE Fails(w)
    <2>1. At(w, "failing") /\ UNCHANGED <<log, answers>>
      BY <1>7, <1>8, <1>29, FailsIs
    <2>2. Returned(w, 0, work[w].err)
      BY <1>7, <1>8, <1>29, FailsIs DEF Again
    <2>3. PICK e : e = work[w].err
      OBVIOUS
    <2>4. r.pc = "failing" /\ r.err = e /\ s.pc = "done" /\ e \in Errors
      BY <1>5, <1>6, <1>7, <1>8, <2>1, <2>2, <2>3, WorkTypes DEF At, Returned, WorkIs, Worker
    <2>5. ~copying /\ LoopIn(l) => Paused(work'[p])
      <3>1. ASSUME ~copying, LoopIn(l)
            PROVE  Paused(work'[p])
        <4>1. e = "paused"
          BY <1>14, <1>15, <2>4, <3>1
        <4>2. ToParent(w, e)
          BY <2>2, <2>3 DEF Returned, ToChannel, ToNext, ToEnd
        <4> QED BY <1>7, <4>1, <4>2 DEF ToParent, WorkIs, Paused
      <3> QED BY <3>1
    <2>6. ChildOK(w)'
      BY <1>17, <2>1, <2>4, <2>5
    <2>7. copying => \/ e \in {"none", "failed", "budget"}
                     \/ e = "canceled" /\ canceled
                     \/ e = "final" /\ ~GoodIn(log[Key(p)])
      BY <1>3, <1>14, <2>4
    <2>8. Returned(w, 0, e)
      BY <2>2, <2>3
    <2>9. StepOK(p)'
      BY <1>10, <2>4, <2>7, <2>8, ParentMoves
    <2> QED BY <2>6, <2>9
  <1>30. CASE BackoffEnds(w)
    BY <1>7, <1>8, <1>30, BackoffEndsIs DEF At, WorkerOK
  <1> QED BY <1>20, <1>21, <1>22, <1>23, <1>24, <1>25, <1>26, <1>27, <1>28, <1>29, <1>30 DEF Works

-----------------------------------------------------------------------------
(* All workers, after one of them has worked.                              *)

LEMMA OthersMove ==
    ASSUME TaskInv, NEW w \in Workers, Works(w), NEW v \in Workers \ {w}
    PROVE  \/ work'[v] = work[v]
           \/ w \notin Steps /\ v = Parent(w)
           \/ w \in Steps /\ v = Child(w) /\ work'[v].pc = "take" /\ work[w].pc = "create"
           \/ /\ v \in Steps /\ work[v].pc = "off" /\ work'[v].pc = "take"
              /\ work'[v].attempt = work[v].attempt /\ work'[v].err = work[v].err
  <1>1. /\ TypeOK /\ WorkerOK(w) /\ phase = "running" /\ plan \in Plans
        /\ work[w].pc \notin {"off", "done"}
    BY WorksIs DEF TaskInv, TypeOK
  <1>2. ASSUME Alone(w)
        PROVE  work'[v] = work[v]
    BY <1>2 DEF Alone, KeptBut
  <1>3. ASSUME NEW out, NEW err, Returned(w, out, err)
        PROVE  \/ work'[v] = work[v]
               \/ w \notin Steps /\ v = Parent(w)
               \/ /\ v \in Steps /\ work[v].pc = "off" /\ work'[v].pc = "take"
                  /\ work'[v].attempt = work[v].attempt /\ work'[v].err = work[v].err
    <2>1. CASE ToParent(w, err)
      BY <2>1 DEF ToParent, KeptBut
    <2>2. CASE ToNext(w, err)
      <3>1. PICK n : n = w + 1
        OBVIOUS
      <3>2. /\ KeptBut({w, n}) /\ work'[n].pc = "take" /\ n \in Steps /\ w \in Steps
            /\ plan.kind = "sequential" /\ work'[n].attempt = work[n].attempt
            /\ work'[n].err = work[n].err
        BY <2>2, <3>1 DEF ToNext, WorkIs
      <3>3. n > w
        BY <1>1, <3>1, <3>2, WorkersAre
      <3>4. work[n].pc = "off"
        BY <1>1, <3>2, <3>3, OrderIs
      <3> QED BY <3>2, <3>4 DEF KeptBut
    <2>3. CASE ToChannel(w) \/ ToEnd(w, err)
      BY <2>3 DEF ToChannel, ToEnd, KeptBut
    <2> QED BY <1>3, <2>1, <2>2, <2>3 DEF Returned
  <1>4. CASE GivesUp(w)
    BY <1>1, <1>3, <1>4, GivesUpIs
  <1>5. CASE Takes(w)
    <2>1. Alone(w) \/ \E out : \E err : Returned(w, out, err)
      BY <1>1, <1>5, TakesIs
    <2> QED BY <1>2, <1>3, <2>1
  <1>6. CASE Creates(w)
    <2>1. At(w, "create")
      BY <1>1, <1>6, CreatesIs
    <2>2. \/ w \in Steps /\ KeptBut({w, Child(w)}) /\ work'[Child(w)].pc = "take"
          \/ KeptBut({w})
      BY <1>1, <1>6, CreatesIs DEF WorkIs
    <2> QED BY <2>1, <2>2 DEF KeptBut, At
  <1>7. CASE CreateFails(w) \/ Asks(w) \/ Chat(w) \/ AskFails(w) \/ Rejects(w)
    BY <1>1, <1>2, <1>7, CreateFailsIs, AsksIs, ChatIs, AskFailsIs, RejectsIs
  <1>8. CASE Completes(w)
    BY <1>1, <1>3, <1>8, CompletesIs
  <1>9. CASE Fails(w)
    BY <1>1, <1>2, <1>3, <1>9, FailsIs
  <1>10. CASE BackoffEnds(w)
    BY <1>1, <1>2, <1>3, <1>10, BackoffEndsIs
  <1> QED BY <1>4, <1>5, <1>6, <1>7, <1>8, <1>9, <1>10 DEF Works

(* A step that runs into a loop stays paused.                              *)
LEMMA StaysPaused ==
    ASSUME TaskInv, NEW w \in Workers, Works(w), w \in Steps, NEW v \in Workers, v \in Steps,
           Paused(work[v])
    PROVE  Paused(work'[v])
  <1>1. TypeOK /\ WorkerOK(w) /\ work[w].pc \notin {"off", "done"}
    BY WorksIs DEF TaskInv
  <1>2. CASE v # w
    <2>0. v # Child(w) /\ work[v].pc # "off"
      BY WorkersAre DEF Paused, TaskInv, TypeOK
    <2>1. work'[v] = work[v]
      BY <1>2, <2>0, OthersMove
    <2> QED BY <2>1
  <1>3. CASE v = w
    <2>1. work[w].pc = "failing" /\ work[w].err = "paused"
      BY <1>1, <1>3 DEF Paused
    <2>2. Fails(w)
      BY <2>1 DEF Works, GivesUp, Takes, Creates, CreateFails, Asks, Chat, AskFails, Completes,
                  Rejects, BackoffEnds, At
    <2>3. Returned(w, 0, work[w].err)
      BY <1>1, <2>1, <2>2, FailsIs DEF Again
    <2> QED BY <1>3, <2>1, <2>3 DEF Returned, WorkIs, Paused
  <1> QED BY <1>2, <1>3

LEMMA WorksSteps ==
    ASSUME TaskInv, CopyInv, Undisturbed, NEW w \in Workers, Works(w), NEW v \in Steps
    PROVE  StepOK(v)'
  <1>1. /\ v \in Workers /\ plan \in Plans /\ Distinct /\ StepOK(v) /\ Key(v) \in Keys
        /\ Key(w) \in Keys
    BY LiveFacts, LogsMove, WorkersAre DEF WorkCopy
  <1>2. plan' = plan /\ copying' = copying /\ canceled' = canceled
    BY WorksIs DEF Statics
  <1>3. CASE v = w
    BY <1>3, StepMoves
  <1>4. CASE w \notin Steps /\ v = Parent(w)
    BY <1>4, ChildMoves
  <1>5. CASE v # w /\ ~(w \notin Steps /\ v = Parent(w))
    <2>1. log'[Key(v)] = log[Key(v)] /\ answers'[Key(v)] = answers[Key(v)]
      BY <1>1, <1>5, KeysDiffer, LogsMove
    <2>2. CASE work'[v] = work[v]
      BY <1>1, <1>2, <2>1, <2>2, StepKept
    <2>3. CASE work'[v] # work[v]
      <3>1. PICK k : k = Key(v)
        OBVIOUS
      <3>2. PICK l : l = log[k]
        OBVIOUS
      <3>3. PICK u : u = Used(k)
        OBVIOUS
      <3>4. PICK m : m = plan.attempts
        OBVIOUS
      <3>5. PICK r : r = work[v]
        OBVIOUS
      <3>6. PICK s : s = work'[v]
        OBVIOUS
      <3>7. v \notin Workers \ Steps /\ ~(w \in Steps /\ v = Child(w))
        BY <1>1, WorkersAre
      <3>8. r.pc = "off" /\ s.pc = "take" /\ s.attempt = r.attempt /\ s.err = r.err
        BY <1>1, <1>5, <2>3, <3>5, <3>6, <3>7, OthersMove
      <3>9. /\ r \in Worker /\ m \in Nat /\ l \in Seq(Responses) /\ u \in Nat
            /\ u <= Len(l) /\ Sound(r)
        BY <1>1, <3>1, <3>2, <3>3, <3>4, <3>5, StepFacts
      <3>10. s.err = "none" /\ r.pc \in Before /\ s.pc \in Before
        BY <3>8, <3>9 DEF Sound, Before, Places
      <3>11. s \in Worker
        BY <1>1, <3>6, WorksIs
      <3>12. /\ RunStep(r, l, m) => RunStep(s, l, m)
             /\ CopyStep(r, l, u, m) => CopyStep(s, l, u, m)
             /\ FailsRight(s, l, u)
        BY <3>8, <3>9, <3>10, <3>11, MovesOn
      <3>13. /\ copying => CopyStep(r, l, u, m)
             /\ ~copying => RunStep(r, l, m)
        BY <1>1, <3>1, <3>2, <3>3, <3>4, <3>5, Zenon DEF StepOK
      <3>14. l = log'[k] /\ u = Len(log'[k]) - Len(answers'[k])
        BY <2>1, <3>1, <3>2, <3>3 DEF Used
      <3> QED BY <1>2, <3>1, <3>4, <3>6, <3>12, <3>13, <3>14, StepNext, Zenon
    <2> QED BY <2>2, <2>3
  <1> QED BY <1>3, <1>4, <1>5

LEMMA WorksChildren ==
    ASSUME TaskInv, CopyInv, Undisturbed, NEW w \in Workers, Works(w), NEW c \in Children
    PROVE  ChildOK(c)'
  <1>1. PICK k : k = Key(c)
    OBVIOUS
  <1>2. PICK p : p = Parent(c)
    OBVIOUS
  <1>3. /\ c \in Workers /\ c \notin Steps /\ plan \in Plans /\ Distinct /\ ChildOK(c)
        /\ k \in Keys /\ p \in Steps /\ p \in Workers /\ Key(w) \in Keys /\ Key(p) \in Keys
        /\ WorkerOK(c) /\ TypeOK
    BY <1>1, <1>2, LiveFacts, LogsMove, WorkersAre DEF WorkCopy, Children, TaskInv
  <1>4. plan' = plan /\ copying' = copying /\ canceled' = canceled /\ (copying => log' = log)
    BY LogsMove, WorksIs DEF Statics
  <1>5. CASE c = w
    BY <1>3, <1>5, ChildMoves
  <1>6. CASE c # w
    <2>1. log'[k] = log[k]
      BY <1>1, <1>3, <1>6, KeysDiffer, LogsMove
    <2>2. CASE work'[c] = work[c]
      <3>1. Paused(work[p]) => Paused(work'[p])
        <4>1. CASE w \in Steps
          BY <1>3, <4>1, StaysPaused
        <4>2. CASE w \notin Steps
          <5>1. p # Parent(w) /\ p # w
            BY <1>2, <1>3, <1>6, <4>2, WorkersAre
          <5>2. work'[p] = work[p] \/ work[p].pc = "off"
            BY <1>3, <4>2, <5>1, OthersMove
          <5> QED BY <5>2 DEF Paused
        <4> QED BY <4>1, <4>2
      <3> QED BY <1>1, <1>2, <1>3, <1>4, <2>1, <2>2, <3>1, ChildKept
    <2>3. CASE work'[c] # work[c]
      <3>1. ~(w \notin Steps /\ c = Parent(w))
        BY <1>3, WorkersAre
      <3>2. w \in Steps /\ c = Child(w) /\ work'[c].pc = "take" /\ work[w].pc = "create"
        BY <1>3, <1>6, <2>3, <3>1, OthersMove
      <3>3. p = w
        BY <1>2, <1>3, <3>2, WorkersAre
      <3>4. work[c].pc \in {"off", "done"} /\ ~Paused(work[p])
        BY <1>2, <1>3, <3>2, <3>3 DEF WorkerOK, Paused
      <3>5. ~copying => ~LoopIn(log[k])
        BY <1>1, <1>2, <1>3, <3>4 DEF ChildOK
      <3>6. Key(c)' = k /\ Parent(c)' = p /\ Key(p)' = Key(p)
        BY <1>1, <1>2, <1>4, SamePlan
      <3>7. CASE copying
        BY <1>1, <1>2, <1>3, <1>4, <3>2, <3>6, <3>7 DEF ChildOK
      <3>8. CASE ~copying
        BY <1>4, <2>1, <3>5, <3>6, <3>8 DEF ChildOK
      <3> QED BY <3>7, <3>8
    <2> QED BY <2>2, <2>3
  <1> QED BY <1>5, <1>6

LEMMA WorksCopy ==
    ASSUME TaskInv, CopyInv, Undisturbed, NEW w \in Workers, Works(w)
    PROVE  WorkCopy'
  <1>1. plan' = plan
    BY WorksIs DEF Statics
  <1>2. Steps' = Steps /\ Children' = Children
    BY <1>1, SamePlan DEF Children
  <1> QED BY <1>2, WorksSteps, WorksChildren DEF WorkCopy

-----------------------------------------------------------------------------
(* How a run and its copy end.                                             *)

LEMMA RunGoods ==
    ASSUME TaskInv, CopyInv, Undisturbed, ~copying,
           \A i \in Steps : work[i].pc \in {"off", "done"}
    PROVE  Fine = Goods /\ Outs = GoodOuts
  <1>1. ASSUME NEW i \in Steps
        PROVE  /\ i \in Fine <=> GoodIn(log[Key(i)])
               /\ work[i].out = IF GoodIn(log[Key(i)]) THEN Len(log[Key(i)]) ELSE 0
    <2>1. PICK l : l = log[Key(i)]
      OBVIOUS
    <2>2. PICK r : r = work[i]
      OBVIOUS
    <2>3. /\ i \in Workers /\ Key(i) \in Keys /\ StepOK(i) /\ plan \in Plans
      BY LiveFacts, WorkersAre DEF WorkCopy
    <2>4. /\ Sound(r) /\ WorkerOK(i) /\ Used(Key(i)) = Len(l) /\ Len(l) \in Nat
          /\ r \in Worker
      BY <2>1, <2>2, <2>3, StepFacts
    <2>5. Uses(r, l, Len(l), plan.attempts)
      BY <2>1, <2>2, <2>3, Zenon DEF StepOK, RunStep
    <2>6. i \in Fine <=> Has(r)
      BY <2>2 DEF Fine, Done, Has
    <2>7. Has(r) => r.out \in 1 .. Len(l)
      BY <2>2, <2>4 DEF Has, WorkerOK, Held, Done
    <2>8. Has(r) => l[r.out] = "good" /\ r.out = Len(l)
      BY <2>2, <2>5 DEF Has, Uses
    <2>9. Has(r) <=> GoodIn(l)
      BY <2>5, <2>7, <2>8 DEF Uses, GoodIn
    <2>10. ~Has(r) => r.out = 0
      BY <2>2, <2>4 DEF Sound, Has, Places
    <2> QED BY <2>1, <2>2, <2>6, <2>8, <2>9, <2>10
  <1>2. Fine = Goods
    BY <1>1 DEF Goods, Fine
  <1>3. Outs = GoodOuts
    BY <1>1 DEF Outs, GoodOuts
  <1> QED BY <1>2, <1>3

(* The verdict, when no human was asked and no context ended.              *)
LEMMA Verdict ==
    ASSUME TaskInv, PolicyInv, CopyInv, Undisturbed, plan.gates = {}, phase = "over"
    PROVE  /\ verdict = "ok" <=> Met
           /\ verdict # "refused"
           /\ Met <=> /\ \/ Fine = Steps
                         \/ /\ plan.kind = "parallel"
                            /\ \/ plan.policy = "best_effort" /\ Fine # {}
                               \/ plan.policy = "quorum" /\ Cardinality(Fine) >= plan.quorum
                      /\ \A i \in Steps : work[i].err # "paused"
  <1>1. verdict # "refused" /\ context = "live"
    BY DEF CopyInv, Rests, Undisturbed
  <1>2. verdict = "ok" <=> Met
    BY <1>1 DEF PolicyInv, PolicyDecides
  <1>3. {i \in Steps : work[i].pc = "done" /\ work[i].err = "none"} = Fine
    BY DEF Fine, Done
  <1> QED BY <1>1, <1>2, <1>3, Zenon DEF Met

LEMMA RunEnded ==
    ASSUME TaskInv, PolicyInv, CopyInv, Undisturbed, plan.gates = {}, phase = "over", ~copying,
           ~Starved, verdict # "paused"
    PROVE  /\ verdict = "ok" <=> LogMet
           /\ verdict = "ok" => Outs = GoodOuts
  <1>1. \A i \in Steps : work[i].pc \in {"off", "done"}
    BY DEF CopyInv, Rests
  <1>2. Fine = Goods /\ Outs = GoodOuts
    BY <1>1, RunGoods
  <1>3. Met <=> LogMet /\ \A i \in Steps : work[i].err # "paused"
    BY <1>2, Verdict, Zenon DEF LogMet
  <1>4. ASSUME LogMet, NEW i \in Steps, work[i].err = "paused"
        PROVE  FALSE
    <2>1. plan \in Plans /\ TypeOK /\ i \in Workers /\ Sound(work[i])
      BY WorkersAre DEF TaskInv, TypeOK, WorkerOK
    <2>2. work[i].pc = "done"
      BY <1>1, <1>4, <2>1 DEF Sound, Places
    <2>3. i \in Lost /\ i \notin Fine
      BY <1>4, <2>2 DEF Lost, Failed, Done, Fine
    <2>4. Goods # Steps
      BY <1>2, <2>3
    <2>5. /\ plan.kind = "parallel"
          /\ \/ plan.policy = "best_effort"
             \/ plan.policy = "quorum" /\ Cardinality(Fine) >= plan.quorum
      BY <1>2, <1>4, <2>4 DEF LogMet
    <2>6. verdict \notin {"refused", "budget"}
      BY Verdict DEF Starved
    <2>7. /\ \A j \in Steps : Done(j)
          /\ results = <<>>
          /\ stageErr # "none" => verdict = stageErr
      BY <2>5, <2>6 DEF PolicyInv, Concluded
    <2>8. CASE stageErr = "none"
      <3>1. InChannel = {}
        BY <2>7 DEF InChannel
      <3>2. i \in Counted
        BY <2>3, <3>1 DEF Counted
      <3> QED BY <1>4, <2>5, <2>8, <3>2 DEF PolicyInv, GoesOn
    <2>9. CASE stageErr # "none"
      <3>1. plan.policy = "quorum" /\ Cardinality(Lost) > Size - plan.quorum
        BY <2>5, <2>7, <2>9 DEF PolicyInv, GaveUp
      <3>2. /\ Cardinality(Fine) = Size - Cardinality(Lost)
            /\ Cardinality(Fine) \in Nat /\ Cardinality(Lost) \in Nat
        BY <2>7, AllDone
      <3>3. Cardinality(Fine) >= plan.quorum /\ plan.quorum \in Nat /\ Size \in Nat
        BY <2>1, <2>5, <3>1, PlanFacts
      <3> QED BY <3>1, <3>2, <3>3
    <2> QED BY <2>8, <2>9
  <1> QED BY <1>2, <1>3, <1>4, Verdict

(* What the steps of the copy hold.                                        *)
LEMMA CopyGoods ==
    ASSUME TaskInv, CopyInv, copying, ~Starved,
           \A i \in Steps : work[i].pc \in {"off", "done"}
    PROVE  \A i \in Steps :
              /\ work[i].err # "paused"
              /\ i \in Fine => i \in Goods /\ work[i].out = Len(log[Key(i)])
              /\ i \notin Fine => work[i].out = 0
              /\ i \in Lost /\ ~canceled => i \notin Goods
  <1>1. SUFFICES ASSUME NEW i \in Steps
                 PROVE  /\ work[i].err # "paused"
                        /\ i \in Fine => i \in Goods /\ work[i].out = Len(log[Key(i)])
                        /\ i \notin Fine => work[i].out = 0
                        /\ i \in Lost /\ ~canceled => i \notin Goods
    OBVIOUS
  <1>2. PICK l : l = log[Key(i)]
    OBVIOUS
  <1>3. PICK r : r = work[i]
    OBVIOUS
  <1>4. PICK u : u = Used(Key(i))
    OBVIOUS
  <1>5. Undisturbed
    BY DEF CopyInv
  <1>6. /\ i \in Workers /\ Key(i) \in Keys /\ StepOK(i) /\ plan \in Plans
    BY <1>5, LiveFacts, WorkersAre DEF WorkCopy
  <1>7. /\ Sound(r) /\ WorkerOK(i) /\ u \in Nat /\ Len(l) \in Nat /\ u <= Len(l) /\ r \in Worker
    BY <1>2, <1>3, <1>4, <1>6, StepFacts
  <1>8. CopyStep(r, l, u, plan.attempts) /\ (canceled \/ FailsRight(r, l, u))
    BY <1>2, <1>3, <1>4, <1>6, Zenon DEF StepOK
  <1>9. i \in Fine <=> Has(r)
    BY <1>1, <1>3 DEF Fine, Done, Has
  <1>10. Has(r) => r.out \in 1 .. Len(l)
    <2>1. Has(r) => r.out \in 1 .. u
      BY <1>3, <1>4, <1>7 DEF Has, WorkerOK, Held, Done
    <2> QED BY <1>7, <2>1
  <1>11. Has(r) => l[r.out] = "good"
    BY <1>1, <1>3, <1>8 DEF Has, CopyStep, Uses
  <1>12. Has(r) => GoodIn(l) /\ r.out = Len(l)
    BY <1>8, <1>10, <1>11 DEF CopyStep, GoodIn
  <1>13. ~Has(r) => r.out = 0
    BY <1>1, <1>3, <1>7 DEF Sound, Has, Places
  <1>14. r.err # "budget" /\ r.err # "paused"
    BY <1>3, <1>6, <1>8 DEF Starved, CopyStep
  <1>15. i \in Lost /\ ~canceled => ~GoodIn(l)
    <2>1. ASSUME i \in Lost, ~canceled
          PROVE  ~GoodIn(l)
      <3>1. r.pc = "done" /\ r.err # "none"
        BY <1>3, <2>1 DEF Lost, Failed, Done
      <3> QED BY <1>8, <1>14, <2>1, <3>1 DEF FailsRight, Stuck
    <2> QED BY <2>1
  <1> QED BY <1>2, <1>3, <1>9, <1>12, <1>13, <1>14, <1>15 DEF Goods

LEMMA CopyEnded ==
    ASSUME TaskInv, PolicyInv, CopyInv, copying, phase = "over", ~Starved
    PROVE  /\ verdict = "ok" <=> LogMet
           /\ verdict = "ok" => Outs = GoodOuts
  <1>1. Undisturbed /\ plan.gates = {} /\ CopyGaveUp /\ plan \in Plans /\ TypeOK
    BY DEF CopyInv, TaskInv, TypeOK
  <1>2. \A i \in Steps : work[i].pc \in {"off", "done"}
    BY DEF CopyInv, Rests
  <1>3. \A i \in Steps :
           /\ work[i].err # "paused"
           /\ i \in Fine => i \in Goods /\ work[i].out = Len(log[Key(i)])
           /\ i \notin Fine => work[i].out = 0
           /\ i \in Lost /\ ~canceled => i \notin Goods
    BY <1>2, CopyGoods
  <1>4. /\ verdict = "ok" <=> Met
        /\ verdict \notin {"refused", "budget"}
        /\ Met <=> \/ Fine = Steps
                   \/ /\ plan.kind = "parallel"
                      /\ \/ plan.policy = "best_effort" /\ Fine # {}
                         \/ plan.policy = "quorum" /\ Cardinality(Fine) >= plan.quorum
    BY <1>1, <1>3, Verdict DEF Starved
  <1>5. Fine \subseteq Steps /\ Goods \subseteq Steps
    BY DEF Fine, Goods
  <1>6. plan.kind = "parallel" => /\ \A i \in Steps : Done(i)
                                  /\ stageErr # "none" => verdict = stageErr
    BY <1>4 DEF PolicyInv, Concluded
  <1>7. plan.kind \in {"parallel", "sequential"} /\ plan.quorum \in 0 .. Size
    BY <1>1, PlanFacts
  <1>8. ASSUME Goods \subseteq Fine
        PROVE  Outs = GoodOuts
    <2>1. \A i \in Steps : GoodIn(log[Key(i)]) <=> i \in Goods
      BY DEF Goods
    <2>2. \A i \in Steps :
             work[i].out = IF GoodIn(log[Key(i)]) THEN Len(log[Key(i)]) ELSE 0
      BY <1>3, <1>8, <2>1
    <2> QED BY <2>2 DEF Outs, GoodOuts
  <1>9. CASE ~canceled /\ plan.kind = "parallel"
    <2>1. Fine = Goods
      <3>1. \A i \in Steps : i \in Fine \/ i \in Lost
        BY <1>6, <1>9 DEF Fine, Lost, Failed
      <3> QED BY <1>3, <1>5, <1>9, <3>1
    <2>2. Met <=> LogMet
      BY <1>4, <2>1, Zenon DEF LogMet
    <2> QED BY <1>4, <1>8, <2>1, <2>2
  <1>10. CASE ~canceled /\ plan.kind = "sequential"
    <2>1. LogMet <=> Goods = Steps
      BY <1>10 DEF LogMet
    <2>2. Met <=> Fine = Steps
      BY <1>4, <1>10
    <2>3. Fine = Steps => Goods = Steps
      BY <1>3, <1>5
    <2>4. ASSUME Goods = Steps, verdict # "ok"
          PROVE  FALSE
      <3>1. \E i \in Lost : work[i].err = verdict
        BY <1>4, <1>10, <2>4 DEF PolicyInv, Concluded
      <3>2. Lost \subseteq Steps
        BY DEF Lost
      <3> QED BY <1>3, <1>10, <2>4, <3>1, <3>2
    <2> QED BY <1>4, <1>8, <2>1, <2>2, <2>3, <2>4
  <1>11. CASE canceled
    <2>1. stageErr # "none" /\ plan.kind = "parallel"
      BY <1>7, <1>11 DEF PolicyInv, ChannelOK
    <2>2. verdict = stageErr /\ stageErr \in Errors
      BY <1>1, <1>6, <2>1 DEF TypeOK
    <2>3. verdict # "ok"
      BY <2>2 DEF Errors
    <2>4. \A i \in Steps : work[i].err # "budget"
      BY <1>1, WorkersAre DEF Starved
    <2>5. \/ plan.policy = "fail_fast" /\ Goods # Steps
          \/ plan.policy = "quorum" /\ Cardinality(Steps \ Goods) > Size - plan.quorum
      BY <1>1, <2>1, <2>4 DEF CopyGaveUp
    <2>6. CASE plan.policy = "fail_fast" /\ Goods # Steps
      BY <2>3, <2>6 DEF LogMet
    <2>7. CASE plan.policy = "quorum" /\ Cardinality(Steps \ Goods) > Size - plan.quorum
      <3>1. /\ IsFiniteSet(Steps) /\ Cardinality(Steps) = Size
            /\ Cardinality(Goods) \in 0 .. Size /\ IsFiniteSet(Goods)
        BY <1>1, <1>5, StepSets
      <3>2. Cardinality(Steps \ Goods) = Cardinality(Steps) - Cardinality(Steps \cap Goods)
        BY <3>1, FS_Difference
      <3>3. Steps \cap Goods = Goods
        BY <1>5
      <3>4. Cardinality(Steps \ Goods) = Size - Cardinality(Goods)
        BY <3>1, <3>2, <3>3
      <3>5. Size \in Nat
        BY <1>1, WorkersAre
      <3>6. Cardinality(Goods) < plan.quorum
        BY <1>7, <2>7, <3>1, <3>4, <3>5
      <3>7. Goods # Steps
        BY <1>7, <3>1, <3>5, <3>6
      <3>8. ~(Cardinality(Goods) >= plan.quorum)
        BY <1>7, <3>1, <3>5, <3>6
      <3> QED BY <2>3, <2>7, <3>7, <3>8 DEF LogMet
    <2> QED BY <2>5, <2>6, <2>7
  <1> QED BY <1>7, <1>9, <1>10, <1>11

-----------------------------------------------------------------------------
(* The invariant of a run and its copy, step by step.                      *)

LEMMA LogSame ==
    ASSUME plan' = plan, log' = log
    PROVE  Goods' = Goods /\ (LogMet' <=> LogMet) /\ GoodOuts' = GoodOuts
  <1>1. Steps' = Steps /\ \A w : Key(w)' = Key(w)
    BY SamePlan
  <1>2. Goods' = Goods
    BY <1>1 DEF Goods
  <1>3. GoodOuts' = GoodOuts
    BY <1>1 DEF GoodOuts
  <1> QED BY <1>1, <1>2, <1>3 DEF LogMet

LEMMA CopyNext ==
    ASSUME CopyInv, plan' = plan, copying' = copying, disturbed' = disturbed,
           UNCHANGED <<context, reuse, first>>, copying => log' = log, Rests',
           Undisturbed => WorkCopy', copying => CopyGaveUp'
    PROVE  CopyInv'
  <1>1. None' = None /\ (Undisturbed' <=> Undisturbed)
    BY SamePlan DEF None, Undisturbed
  <1>2. CASE copying
    <2>1. (LogMet' <=> LogMet) /\ GoodOuts' = GoodOuts
      BY <1>2, LogSame
    <2> QED BY <1>1, <1>2, <2>1 DEF CopyInv
  <1>3. CASE ~copying
    BY <1>1, <1>3 DEF CopyInv
  <1> QED BY <1>2, <1>3

LEMMA GaveUpKept ==
    ASSUME plan \in Plans, CopyInv, plan' = plan, stageErr' = stageErr, copying => log' = log,
           \A i \in Steps : Done(i) => work'[i] = work[i]
    PROVE  copying => CopyGaveUp'
  <1>1. SUFFICES ASSUME copying, stageErr # "none"
                 PROVE  CopyGaveUp'
    BY DEF CopyGaveUp
  <1>2. CopyGaveUp /\ Goods' = Goods /\ Steps' = Steps /\ Size' = Size
    BY <1>1, LogSame, SamePlan DEF CopyInv
  <1>3. CASE \E i \in Steps : Done(i) /\ work[i].err = "budget"
    <2>1. PICK i \in Steps : Done(i) /\ work[i].err = "budget"
      BY <1>3
    <2>2. work'[i].pc = "done" /\ work'[i].err = "budget"
      BY <2>1 DEF Done
    <2> QED BY <1>2, <2>2 DEF CopyGaveUp, Done
  <1>4. CASE \/ plan.policy = "fail_fast" /\ Goods # Steps
             \/ plan.policy = "quorum" /\ Cardinality(Steps \ Goods) > Size - plan.quorum
    BY <1>2, <1>4 DEF CopyGaveUp
  <1> QED BY <1>1, <1>2, <1>3, <1>4 DEF CopyGaveUp

LEMMA WorkSame ==
    ASSUME TaskInv, CopyInv, Undisturbed, UNCHANGED <<plan, copying, work, log, answers>>,
           canceled => canceled'
    PROVE  WorkCopy'
  <1>1. WorkCopy
    BY LiveFacts
  <1>2. Steps' = Steps /\ Children' = Children
    BY SamePlan DEF Children
  <1>3. \A w \in Steps : StepOK(w)'
    BY <1>1, StepKept DEF WorkCopy
  <1>4. \A w \in Children : ChildOK(w)'
    BY <1>1, ChildKept DEF WorkCopy
  <1> QED BY <1>2, <1>3, <1>4 DEF WorkCopy

LEMMA GateCopy ==
    ASSUME TaskInv, CopyInv, stageGate
    PROVE  CopyInv'
  <1>1. /\ UNCHANGED <<plan, copying, log, context, canceled, reuse, answers, work, stageErr,
                       disturbed, first>>
        /\ phase \in {"gate", "review"} /\ phase' \in {"starting", "over"} /\ plan \in Plans
    BY DEF stageGate, stored, history, TaskInv, TypeOK
  <1>2. Steps' = Steps
    BY <1>1, SamePlan
  <1>3. phase = "gate" => \A i \in Steps : work[i].pc \in {"off", "done"}
    BY <1>1, WorkersAre, OffIs DEF TaskInv, NotStarted
  <1>4. plan.gates # {}
    BY <1>1 DEF CopyInv, Rests
  <1>5. Rests'
    BY <1>1, <1>2, <1>3, <1>4 DEF CopyInv, Rests
  <1>6. Undisturbed => WorkCopy'
    BY <1>1, WorkSame
  <1>7. copying => CopyGaveUp'
    BY <1>1, GaveUpKept
  <1> QED BY <1>1, <1>5, <1>6, <1>7, CopyNext

LEMMA StartsCopy ==
    ASSUME TaskInv, CopyInv, StartsParallel \/ StartsSequential
    PROVE  CopyInv'
  <1>1. /\ UNCHANGED <<plan, copying, log, answers, reuse, context, canceled, stageErr, disturbed,
                       first>>
        /\ plan \in Plans /\ phase = "starting" /\ stageErr = "none"
    BY DEF StartsParallel, StartsSequential, stored, history, collector, Ends, TaskInv, TypeOK,
           NotStarted
  <1>2. Steps' = Steps /\ Children' = Children
    BY <1>1, SamePlan DEF Children
  <1>3. \A v \in Workers : /\ work[v] = Off /\ Off \in Worker
                           /\ work'[v] \in Worker /\ work'[v].pc \in {"off", "take"}
                           /\ work'[v].attempt = 1 /\ work'[v].err = "none"
    BY StartWorkers, TakeIs, OffIs
  <1>4. phase' = "over" => work' = work
    BY StartWorkers DEF StartsParallel, StartsSequential
  <1>5. Rests'
    <2>1. phase' = "over" => \A i \in Steps : work'[i].pc \in {"off", "done"}
      BY <1>1, <1>3, <1>4, WorkersAre, OffIs
    <2>2. phase' \in {"running", "over"} /\ (phase' = "over" => verdict' = "budget")
      BY DEF StartsParallel, StartsSequential, Ends
    <2>3. phase' = "running" => verdict' = verdict
      BY DEF StartsParallel, StartsSequential, Ends, collector
    <2> QED BY <1>1, <1>2, <2>1, <2>2, <2>3 DEF CopyInv, Rests
  <1>6. ASSUME Undisturbed
        PROVE  WorkCopy'
    <2>1. WorkCopy
      BY <1>6, LiveFacts
    <2>2. ASSUME NEW w \in Steps
          PROVE  StepOK(w)'
      <3>1. PICK k : k = Key(w)
        OBVIOUS
      <3>2. PICK l : l = log[k]
        OBVIOUS
      <3>3. PICK u : u = Used(k)
        OBVIOUS
      <3>4. PICK m : m = plan.attempts
        OBVIOUS
      <3>5. PICK r : r = work[w]
        OBVIOUS
      <3>6. PICK s : s = work'[w]
        OBVIOUS
      <3>7. w \in Workers /\ Key(w) \in Keys
        BY <1>1, WorkersAre
      <3>8. /\ r \in Worker /\ m \in Nat /\ l \in Seq(Responses) /\ u \in Nat /\ u <= Len(l)
        BY <3>1, <3>2, <3>3, <3>4, <3>5, <3>7, StepFacts
      <3>9. /\ r.pc \in Before /\ s.pc \in Before /\ s.err = "none" /\ s.attempt = r.attempt
            /\ s \in Worker
        BY <1>3, <3>5, <3>6, <3>7, OffIs DEF Before
      <3>10. /\ RunStep(r, l, m) => RunStep(s, l, m)
             /\ CopyStep(r, l, u, m) => CopyStep(s, l, u, m)
             /\ FailsRight(s, l, u)
        BY <3>8, <3>9, MovesOn
      <3>11. /\ copying => CopyStep(r, l, u, m)
             /\ ~copying => RunStep(r, l, m)
        BY <2>1, <3>1, <3>2, <3>3, <3>4, <3>5, Zenon DEF WorkCopy, StepOK
      <3>12. l = log'[k] /\ u = Len(log'[k]) - Len(answers'[k])
        BY <1>1, <3>1, <3>2, <3>3 DEF Used
      <3> QED BY <1>1, <3>1, <3>4, <3>6, <3>10, <3>11, <3>12, StepNext, Zenon
    <2>3. ASSUME NEW w \in Children
          PROVE  ChildOK(w)'
      <3>1. w \in Workers /\ Parent(w) \in Workers /\ ChildOK(w)
        BY <1>1, <2>1, WorkersAre DEF Children, WorkCopy
      <3>2. Key(w)' = Key(w) /\ Key(Parent(w))' = Key(Parent(w)) /\ Parent(w)' = Parent(w)
        BY <1>1, SamePlan
      <3>3. work[w].pc = "off" /\ work[Parent(w)].pc = "off" /\ work'[w].pc # "failing"
        BY <1>3, <3>1, OffIs
      <3>4. CASE copying
        BY <1>1, <3>1, <3>2, <3>3, <3>4 DEF ChildOK
      <3>5. CASE ~copying
        <4>1. ~LoopIn(log[Key(w)])
          BY <3>1, <3>3, <3>5 DEF ChildOK, Paused
        <4> QED BY <1>1, <3>2, <3>5, <4>1 DEF ChildOK
      <3> QED BY <3>4, <3>5
    <2> QED BY <1>2, <2>2, <2>3 DEF WorkCopy
  <1>7. CopyGaveUp'
    BY <1>1 DEF CopyGaveUp
  <1> QED BY <1>1, <1>5, <1>6, <1>7, CopyNext

(* A stage that a step ends has none that works (runStage).                *)
LEMMA WorksRests ==
    ASSUME TaskInv, CopyInv, NEW w \in Workers, Works(w)
    PROVE  Rests'
  <1>1. /\ phase = "running" /\ plan' = plan /\ plan \in Plans
        /\ work[w].pc \notin {"off", "done", "delegating"}
    BY WorksIs DEF Statics, TaskInv, TypeOK
  <1>2. Steps' = Steps
    BY <1>1, SamePlan
  <1>3. ASSUME UNCHANGED <<verdict, phase>>
        PROVE  Rests'
    BY <1>1, <1>2, <1>3 DEF CopyInv, Rests
  <1>4. ASSUME NEW out \in Nat, NEW err \in Errors, Returned(w, out, err), ToEnd(w, err)
        PROVE  Rests'
    <2>1. /\ w \in Steps /\ plan.kind = "sequential" /\ KeptBut({w}) /\ work'[w].pc = "done"
          /\ Ends(IF err = "none" THEN "ok" ELSE err)
      BY <1>4 DEF ToEnd, Returned, WorkIs
    <2>2. /\ \A i \in Steps : i < w => Done(i)
          /\ \A i \in Steps : i > w => work[i].pc = "off"
      BY <1>1, <2>1, OrderIs
    <2>3. \A i \in Steps : i < w \/ i > w \/ i = w
      BY <1>1, <2>1, WorkersAre
    <2>4. \A i \in Steps : work'[i].pc \in {"off", "done"}
      BY <1>1, <2>1, <2>2, <2>3, WorkersAre DEF KeptBut, Done
    <2>5. verdict' # "refused" /\ (phase' = "over" \/ "output" \in plan.gates)
      BY <2>1 DEF Ends, Errors
    <2>6. phase' \in {"review", "over"}
      BY <2>1 DEF Ends
    <2> QED BY <1>1, <1>2, <2>4, <2>5, <2>6 DEF Rests
  <1> QED BY <1>3, <1>4, WorksDone DEF ToChannel, ToNext

LEMMA WorksCopies ==
    ASSUME TaskInv, CopyInv, NEW w \in Workers, Works(w)
    PROVE  CopyInv'
  <1>1. /\ UNCHANGED <<plan, copying, context, disturbed, first>> /\ plan \in Plans
        /\ work[w].pc \notin {"off", "done", "delegating"} /\ TypeOK /\ WorkerOK(w)
        /\ Key(w) \in Keys
    BY WorksIs, LogsMove DEF Statics, TaskInv, TypeOK
  <1>2. stageErr' = stageErr
    BY WorksDone DEF ToChannel, ToNext, ToEnd, Ends
  <1>3. \A i \in Steps : Done(i) => work'[i] = work[i]
    <2>1. ASSUME NEW i \in Steps, Done(i)
          PROVE  work'[i] = work[i]
      <3>1. i # w /\ i \in Workers /\ work[i].pc = "done"
        BY <1>1, <2>1, WorkersAre DEF Done
      <3>2. i # Child(w) \/ w \notin Steps
        BY <1>1, WorkersAre
      <3>3. w \notin Steps => i # Parent(w)
        BY <1>1, <3>1 DEF WorkerOK
      <3> QED BY <3>1, <3>2, <3>3, OthersMove
    <2> QED BY <2>1
  <1>4. copying => log' = log
    BY LogsMove
  <1>5. copying => CopyGaveUp'
    BY <1>1, <1>2, <1>3, <1>4, GaveUpKept
  <1>6. Undisturbed => WorkCopy'
    BY WorksCopy
  <1>7. Rests'
    BY WorksRests
  <1>8. ASSUME ~disturbed
        PROVE  reuse' = reuse
    <2>1. reuse[Key(w)] = {}
      BY <1>1, <1>8 DEF CopyInv, None
    <2>2. CASE Takes(w)
      BY <2>1, <2>2 DEF Takes, take
    <2>3. CASE ~Takes(w)
      BY <2>3 DEF Works, GivesUp, Creates, CreateFails, Asks, Chat, AskFails, Completes, Rejects,
                  Fails, BackoffEnds
    <2> QED BY <2>2, <2>3
  <1>9. CASE disturbed
    BY <1>1, <1>7, <1>9 DEF CopyInv, Undisturbed
  <1>10. CASE ~disturbed
    BY <1>1, <1>4, <1>5, <1>6, <1>7, <1>8, <1>10, CopyNext
  <1> QED BY <1>9, <1>10

LEMMA CollectsCopy ==
    ASSUME TaskInv, PolicyInv, PolicyInv', CopyInv, Collects
    PROVE  CopyInv'
  <1>1. /\ UNCHANGED <<plan, copying, phase, log, context, reuse, answers, work, verdict,
                       disturbed, first>>
        /\ canceled => canceled'
        /\ plan \in Plans /\ plan.policy \in Policies
    BY PlanFacts DEF Collects, stored, history, TaskInv, TypeOK
  <1>2. Steps' = Steps /\ Size' = Size /\ Goods' = Goods
    BY <1>1, SamePlan, LogSame
  <1>3. Rests'
    BY <1>1, <1>2 DEF CopyInv, Rests
  <1>4. Undisturbed => WorkCopy'
    BY <1>1, WorkSame
  <1>5. ASSUME copying
        PROVE  CopyGaveUp'
    <2>1. CASE stageErr' = stageErr
      BY <1>1, <1>5, <2>1, GaveUpKept
    <2>2. CASE stageErr' # stageErr
      <3>1. stageErr = "none" /\ ~canceled /\ results # <<>>
        BY <2>2 DEF Collects, PolicyInv, ChannelOK
      <3>2. Undisturbed /\ WorkCopy
        BY <1>5, LiveFacts DEF CopyInv
      <3>3. ASSUME NEW i \in Steps, i \in Lost
            PROVE  work[i].err = "budget" \/ i \notin Goods
        <4>1. FailsRight(work[i], log[Key(i)], Used(Key(i)))
          BY <1>5, <3>1, <3>2, Zenon DEF WorkCopy, StepOK
        <4> QED BY <3>3, <4>1 DEF FailsRight, Stuck, Lost, Failed, Done, Goods
      <3>4. \A i \in Steps : work[i].err # "paused"
        BY <1>5, <3>2, Zenon DEF WorkCopy, StepOK, CopyStep
      <3>5. Lost' = Lost /\ Lost \subseteq Steps
        BY <1>1, MetSame DEF Lost
      <3>6. \A i \in Lost : Done(i)
        BY DEF Lost, Failed
      <3>7. CASE \E i \in Lost : work[i].err = "budget"
        <4>1. PICK i \in Steps : work[i].pc = "done" /\ work[i].err = "budget"
          BY <3>5, <3>6, <3>7 DEF Done
        <4> QED BY <1>1, <1>2, <4>1 DEF CopyGaveUp, Done
      <3>8. CASE \A i \in Lost : work[i].err # "budget"
        <4>1. Lost \subseteq Steps \ Goods
          BY <3>3, <3>5, <3>8
        <4>2. stageErr' # "none"
          BY <2>2, <3>1
        <4>3. \/ plan.policy = "fail_fast" /\ Lost # {}
              \/ \E i \in Lost : work[i].err = "paused"
              \/ plan.policy = "quorum" /\ Cardinality(Lost) > Size - plan.quorum
          BY <1>1, <1>2, <3>5, <4>2 DEF PolicyInv, GaveUp
        <4>4. CASE plan.policy = "fail_fast" /\ Lost # {}
          BY <1>1, <1>2, <4>1, <4>4 DEF CopyGaveUp
        <4>5. CASE plan.policy = "quorum" /\ Cardinality(Lost) > Size - plan.quorum
          <5>1. /\ IsFiniteSet(Steps \ Goods) /\ Cardinality(Steps \ Goods) \in 0 .. Size
                /\ Cardinality(Lost) \in 0 .. Size
            BY <1>1, <3>5, StepSets
          <5>2. Cardinality(Lost) <= Cardinality(Steps \ Goods)
            BY <4>1, <5>1, FS_Subset
          <5>3. Size \in Nat /\ plan.quorum \in Nat
            BY <1>1, PlanFacts
          <5>4. Cardinality(Steps \ Goods) > Size - plan.quorum
            BY <4>5, <5>1, <5>2, <5>3
          <5> QED BY <1>1, <1>2, <4>5, <5>4 DEF CopyGaveUp
        <4> QED BY <3>4, <3>5, <4>3, <4>4, <4>5
      <3> QED BY <3>7, <3>8
    <2> QED BY <2>1, <2>2
  <1> QED BY <1>1, <1>3, <1>4, <1>5, CopyNext

LEMMA FinishesCopy ==
    ASSUME TaskInv, CopyInv, Finishes
    PROVE  CopyInv'
  <1>1. /\ UNCHANGED <<plan, copying, log, context, canceled, reuse, answers, work, stageErr,
                       disturbed, first>>
        /\ plan \in Plans /\ stageErr \in Errors /\ \A i \in Steps : Done(i)
    BY DEF Finishes, Ends, Done, stored, history, TaskInv, TypeOK
  <1>2. Steps' = Steps
    BY <1>1, SamePlan
  <1>3. firstErr \in Errors
    BY <1>1, FirstErr
  <1>4. PICK v \in Errors \cup {"ok"} : Ends(v)
    <2>1. "canceled" \in Errors
      BY DEF Errors
    <2> QED BY <1>1, <1>3, <2>1 DEF Finishes
  <1>5. Rests'
    <2>1. \A i \in Steps : work'[i].pc \in {"off", "done"}
      BY <1>1 DEF Done
    <2>2. verdict' # "refused" /\ (phase' = "over" \/ "output" \in plan.gates)
          /\ phase' # "gate"
      BY <1>4 DEF Ends, Errors
    <2>3. phase' \in {"review", "over"}
      BY <1>4 DEF Ends
    <2> QED BY <1>1, <1>2, <2>1, <2>2, <2>3 DEF Rests
  <1>6. Undisturbed => WorkCopy'
    BY <1>1, WorkSame
  <1>7. copying => CopyGaveUp'
    BY <1>1, GaveUpKept
  <1> QED BY <1>1, <1>5, <1>6, <1>7, CopyNext

(* A run that is stopped or resumed is not copied.                         *)
LEMMA DisturbsCopy ==
    ASSUME TaskInv, CopyInv, ContextEnds \/ Resumes
    PROVE  CopyInv'
  <1>1. plan' = plan /\ ~copying /\ copying' = copying /\ disturbed'
    BY DEF ContextEnds, Resumes, Fault
  <1>2. Steps' = Steps
    BY <1>1, SamePlan
  <1>3. Rests'
    <2>1. CASE ContextEnds
      BY <1>1, <1>2, <2>1 DEF ContextEnds, collector, CopyInv, Rests
    <2>2. CASE Resumes
      <3>1. verdict' = "none" /\ phase' = Entry
        BY <2>2 DEF Resumes, Fresh
      <3>2. phase' \in {"gate", "starting"} /\ (plan.gates = {} => phase' = "starting")
        BY <3>1 DEF Entry
      <3> QED BY <1>1, <1>2, <3>1, <3>2 DEF Rests
    <2> QED BY <2>1, <2>2
  <1> QED BY <1>1, <1>3 DEF CopyInv, Undisturbed

LEMMA CrashesCopy ==
    ASSUME TaskInv, CopyInv, Crashes
    PROVE  CopyInv'
  <1>1. /\ UNCHANGED <<plan, copying, log, context, canceled, reuse, answers, work, stageErr,
                       verdict, disturbed, first>>
        /\ phase' = "down" /\ ~copying
    BY DEF Crashes, stored, collector, history
  <1>2. Rests'
    BY <1>1, SamePlan DEF CopyInv, Rests
  <1>3. Undisturbed => WorkCopy'
    BY <1>1, WorkSame
  <1> QED BY <1>1, <1>2, <1>3, CopyNext

LEMMA CopyStarts ==
    ASSUME ~CopyAll, TaskInv, PolicyInv, CopyInv, ReExecutes
    PROVE  CopyInv'
  <1>1. /\ ~copying /\ copying' /\ phase = "over" /\ verdict # "paused" /\ ~disturbed /\ ~Starved
        /\ Distinct /\ plan.gates = {} /\ UNCHANGED <<plan, log, disturbed>> /\ Fresh
        /\ answers' = [k \in Keys |-> Recorded(k)] /\ reuse' = None
        /\ first' = [verdict |-> verdict, outs |-> Outs] /\ plan \in Plans
    BY DEF ReExecutes, TaskInv, TypeOK
  <1>2. /\ Steps' = Steps /\ Children' = Children /\ Workers' = Workers /\ Distinct' = Distinct
        /\ \A w : Key(w)' = Key(w) /\ Parent(w)' = Parent(w)
    BY <1>1, SamePlan DEF Children
  <1>3. Undisturbed /\ WorkCopy
    BY <1>1, LiveFacts DEF Undisturbed
  <1>4. /\ verdict = "ok" <=> LogMet
        /\ verdict = "ok" => Outs = GoodOuts
    BY <1>1, <1>3, RunEnded
  <1>5. (LogMet' <=> LogMet) /\ GoodOuts' = GoodOuts
    BY <1>1, LogSame
  <1>6. /\ context' = "live" /\ stageErr' = "none" /\ verdict' = "none" /\ phase' = "starting"
        /\ work' = [w \in Workers |-> Off]
    BY <1>1 DEF Fresh, Entry
  <1>7. \A i \in Steps : work[i].pc \in {"off", "done"}
    BY <1>1 DEF CopyInv, Rests
  <1>8. ASSUME NEW w \in Steps
        PROVE  StepOK(w)'
    <2>1. PICK k : k = Key(w)
      OBVIOUS
    <2>2. PICK l : l = log[k]
      OBVIOUS
    <2>3. PICK m : m = plan.attempts
      OBVIOUS
    <2>4. PICK r : r = work[w]
      OBVIOUS
    <2>5. w \in Workers /\ k \in Keys /\ StepOK(w)
      BY <1>1, <1>3, <2>1, WorkersAre DEF WorkCopy
    <2>6. r \in Worker /\ m \in Nat /\ l \in Seq(Responses) /\ Len(l) \in Nat
      BY <2>1, <2>2, <2>3, <2>4, <2>5, StepFacts
    <2>7. RunStep(r, l, m)
      BY <1>1, <2>1, <2>2, <2>3, <2>4, <2>5, Zenon DEF StepOK
    <2>8. CopyStep(Off, l, 0, m) /\ FailsRight(Off, l, 0)
      BY <2>6, <2>7, Copied
    <2>9. answers'[k] = [i \in DOMAIN l |-> i]
      BY <1>1, <2>2, <2>5 DEF Recorded
    <2>10. Len(answers'[k]) = Len(l)
      BY <2>6, <2>9
    <2>11. Used(Key(w))' = 0 /\ log'[Key(w)'] = l /\ work'[w] = Off /\ plan'.attempts = m
      BY <1>1, <1>2, <1>6, <2>1, <2>2, <2>3, <2>5, <2>6, <2>10 DEF Used
    <2> QED BY <1>1, <2>8, <2>11, Zenon DEF StepOK
  <1>9. ASSUME NEW w \in Children
        PROVE  ChildOK(w)'
    <2>1. PICK p : p = Parent(w)
      OBVIOUS
    <2>2. /\ w \in Workers /\ w \notin Steps /\ p \in Steps /\ p \in Workers /\ Key(p) \in Keys
          /\ ChildOK(w) /\ WorkerOK(w) /\ StepOK(p)
      BY <1>1, <1>3, <2>1, WorkersAre DEF Children, WorkCopy, TaskInv
    <2>3. work'[w] = Off
      BY <1>6, <2>2
    <2>4. work[p].pc \in {"off", "done"}
      BY <1>7, <2>2
    <2>5. work[w].pc \in {"off", "done"}
      BY <2>1, <2>2, <2>4 DEF WorkerOK
    <2>6. LoopIn(log[Key(w)]) => Paused(work[p])
      BY <1>1, <2>1, <2>2, <2>5 DEF ChildOK
    <2>7. RunStep(work[p], log[Key(p)], plan.attempts)
      BY <1>1, <2>2, Zenon DEF StepOK
    <2>8. Paused(work[p]) => ~Has(work[p])
      BY DEF Paused, Has
    <2>9. ~Has(work[p]) => ~GoodIn(log[Key(p)])
      BY <2>7, Zenon DEF RunStep, Uses, GoodIn
    <2>10. LoopIn(log[Key(w)]) => ~GoodIn(log[Key(p)])
      BY <2>6, <2>8, <2>9
    <2>11. work'[w].pc # "failing"
      BY <2>3, OffIs
    <2> QED BY <1>1, <1>2, <2>1, <2>10, <2>11 DEF ChildOK
  <1>10. WorkCopy'
    BY <1>2, <1>8, <1>9 DEF WorkCopy
  <1>11. Rests'
    BY <1>6 DEF Rests
  <1>12. CopyGaveUp'
    BY <1>6 DEF CopyGaveUp
  <1>13. (first'.verdict = "ok" <=> LogMet') /\ (first'.verdict = "ok" => first'.outs = GoodOuts')
    BY <1>1, <1>4, <1>5
  <1>14. Undisturbed' /\ plan'.gates = {} /\ None' = None
    BY <1>1, <1>2 DEF Undisturbed, None
  <1> QED BY <1>1, <1>6, <1>10, <1>11, <1>12, <1>13, <1>14 DEF CopyInv

LEMMA InitCopy ==
    ASSUME Init
    PROVE  CopyInv
  <1>1. /\ plan \in Plans /\ ~copying /\ phase = Entry /\ context = "live" /\ reuse = None
        /\ verdict = "none" /\ work = [w \in Workers |-> Off] /\ log = Nothing
    BY DEF Init
  <1>2. Rests
    BY <1>1 DEF Rests, Entry
  <1>3. \A k \in Keys : log[k] = <<>>
    BY <1>1 DEF Nothing
  <1>4. ASSUME NEW w \in Steps
        PROVE  StepOK(w)
    <2>1. work[w] = Off /\ log[Key(w)] = <<>>
      BY <1>1, <1>3, WorkersAre
    <2>2. Off.attempt = 1 /\ Off.pc = "off"
      BY OffIs
    <2>3. RunStep(Off, <<>>, plan.attempts)
      BY <2>2 DEF RunStep, Uses, Has, Tries
    <2> QED BY <1>1, <2>1, <2>3 DEF StepOK
  <1>5. ASSUME NEW w \in Children
        PROVE  ChildOK(w)
    <2>1. log[Key(w)] = <<>>
      BY <1>1, <1>3, WorkersAre DEF Children
    <2>2. ~LoopIn(<<>>)
      BY DEF LoopIn
    <2> QED BY <1>1, <2>1, <2>2 DEF ChildOK
  <1> QED BY <1>1, <1>2, <1>4, <1>5 DEF CopyInv, WorkCopy

LEMMA CopyStutters ==
    ASSUME TaskInv, CopyInv, UNCHANGED vars
    PROVE  CopyInv'
  <1>1. /\ UNCHANGED <<plan, copying, phase, log, context, canceled, reuse, answers, work,
                       stageErr, verdict, disturbed, first>>
        /\ plan \in Plans
    BY DEF vars, stored, collector, history, TaskInv, TypeOK
  <1>2. Rests'
    BY <1>1, SamePlan DEF CopyInv, Rests
  <1>3. Undisturbed => WorkCopy'
    BY <1>1, WorkSame
  <1>4. copying => CopyGaveUp'
    BY <1>1, GaveUpKept
  <1> QED BY <1>1, <1>2, <1>3, <1>4, CopyNext

(* A copy ends as its run did, and with the run's outputs, if only runs    *)
(* are copied that were not disturbed, whose tasks all ask differently and *)
(* that asked no human (ReExecute, Replayer.Chat): whatever failed, was    *)
(* retried or ran into a loop, and in whatever order the results came.     *)
THEOREM CopiesEndAlike ==
    ASSUME ~CopyAll
    PROVE  Spec => []CopyEndsAlike
  <1>1. Init => StageInv /\ CopyInv
    BY InitTasks, InitPolicy, InitCounted, InitCopy, FS_EmptySet DEF StageInv
  <1>2. StageInv /\ CopyInv /\ [Next]_vars => StageInv' /\ CopyInv'
    <2>1. ASSUME StageInv, CopyInv, [Next]_vars
          PROVE  StageInv' /\ CopyInv'
      <3>1. TaskInv /\ PolicyInv /\ StageInv'
        BY <2>1, TasksStep, PolicyStep, FiniteStep, Stutters DEF StageInv, PolicyInv
      <3>2. PolicyInv'
        BY <3>1 DEF StageInv
      <3>3. CopyInv'
        BY <2>1, <3>1, <3>2, GateCopy, StartsCopy, WorksCopies, CollectsCopy, FinishesCopy,
           DisturbsCopy, CrashesCopy, CopyStarts, CopyStutters DEF Next, Stage
      <3> QED BY <3>1, <3>3
    <2> QED BY <2>1
  <1>3. StageInv /\ CopyInv => CopyEndsAlike
    <2>1. ASSUME StageInv, CopyInv, copying, phase = "over", ~Starved
          PROVE  /\ first.verdict = "ok" <=> verdict = "ok"
                 /\ verdict = "ok" => Outs = first.outs
      <3>1. /\ verdict = "ok" <=> LogMet
            /\ verdict = "ok" => Outs = GoodOuts
        BY <2>1, CopyEnded DEF StageInv
      <3>2. /\ first.verdict = "ok" <=> LogMet
            /\ first.verdict = "ok" => first.outs = GoodOuts
        BY <2>1 DEF CopyInv
      <3> QED BY <3>1, <3>2
    <2> QED BY <2>1 DEF CopyEndsAlike
  <1> QED BY <1>1, <1>2, <1>3, PTL DEF Spec

=============================================================================
