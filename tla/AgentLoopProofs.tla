-------------------------- MODULE AgentLoopProofs ---------------------------
(***************************************************************************)
(* Proofs about AgentLoop, for any tasks, tools, limits, budgets and       *)
(* groups of calls.                                                        *)
(***************************************************************************)
EXTENDS AgentLoop, FiniteSetTheorems, NaturalsInduction, WellFoundedInduction, TLAPS

-----------------------------------------------------------------------------
(* The inductive invariant.                                                *)

TaskRecord == [pc : Places, err : Errors, loops : Nat, attempt : Nat, idx : Nat]

TaskTypes ==
    /\ task \in [Tasks -> TaskRecord]
    /\ \A t \in Tasks : task[t].loops <= MaxToolLoops[t] /\ task[t].attempt <= MaxAttempts[t]

CallTypes == calls \in [Tasks -> Seq(Call)]

HistoryTypes ==
    history \in [spawned : Nat, executed : Nat, ran : [Tools -> Nat], over : [Tasks -> Nat]]

DetectorTypes ==
    /\ ended \in [Tasks -> {"live", "timedOut", "canceled"}]
    /\ seen \in [Kinds -> Nat] /\ retries \in Nat /\ faults \in 0 .. MaxFaults

GateTypes == gate \in [asking : Tasks \cup {Nobody}, answer : {"none", "approved", "denied"}]

Types == BudgetTypeOK /\ TaskTypes /\ CallTypes /\ HistoryTypes /\ DetectorTypes /\ GateTypes

(* Where a task is in runToolCalls' preflight, and in its later part.      *)
Preflight == {"observe", "loopAsk", "plan"}
Dispatch == {"dispatch", "inline"}

Running == {"start", "executing", "storm", "retry", "backoff", "returned", "commit"}
Ready == {"planned", "refused"}

(* Where call j of a group may be, when its task is at place and has come  *)
(* to call i.                                                              *)
Expected(place, i, j) ==
    IF place = "tools" THEN {"called"}
    ELSE IF place \in Preflight THEN (IF j < i THEN Ready ELSE {"called"})
    ELSE IF place = "approve" THEN Ready
    ELSE IF place \in Dispatch
         THEN (IF j < i \/ (j = i /\ place = "inline") THEN Running \cup {"result"} ELSE Ready)
    ELSE CallStates \ Running

(* Calls are dispatched in order.  A serial one is done before the next    *)
(* is, and is dispatched when those before it are done; one that needs an  *)
(* approval is behind the approvals only with it.                          *)
CallOK(t, j) ==
    LET p == task[t].pc
        i == task[t].idx
        c == calls[t][j]
    IN  /\ c.st \in Expected(p, i, j)
        /\ p \in Dispatch /\ j < i => c.st = "result" \/ (p = "dispatch" /\ Kind[c.kind].parallel)
        /\ p = "inline" /\ j = i => ~Kind[c.kind].parallel
        /\ /\ p \in Dispatch \/ (p = "approve" /\ j < i)
           /\ c.st \in Running \cup {"planned"}
           /\ Kind[c.kind].approve /\ ~Kind[c.kind].builtin
           => c.approved
        /\ c.st = "result" => c.err \in Errors

TaskOK(t) ==
    LET p == task[t].pc
        n == Len(calls[t])
    IN  /\ \A j \in 1 .. n : CallOK(t, j)
        /\ p = "tools" => n > 0
        /\ p \in Preflight \cup {"inline"} => task[t].idx \in 1 .. n
        /\ p \in {"approve", "dispatch"} => task[t].idx \in 1 .. n + 1
        /\ InAttempt(t) /\ p # "loop" => task[t].loops > 0
        /\ p \in {"stormAsk", "again", "backoff"} => task[t].attempt < MaxAttempts[t]

(* The tool calls that are reserved and not executed yet.                  *)
Open(t) ==
    {j \in 1 .. Len(calls[t]) :
        \/ task[t].pc \in Preflight
        \/ /\ task[t].pc \in Dispatch \cup {"approve"}
           /\ calls[t][j].st \in Ready \cup {"start", "backoff"}}

(* Those of a tool that are reserved against its budgets.                  *)
Booked(t, n) ==
    {j \in 1 .. Len(calls[t]) :
        /\ task[t].pc \in Preflight \cup Dispatch \cup {"approve"}
        /\ calls[t][j].st \in {"planned", "start"}
        /\ ToolOf(calls[t][j]) = n /\ ~Kind[calls[t][j].kind].builtin}

(* As many as there are in all of the sets of a family.                    *)
Pairs(F) == {x \in Tasks \X Nat : x[2] \in F[x[1]]}

Total(F) == Cardinality(Pairs(F))

AllOpen == [t \in Tasks |-> Open(t)]
AllBooked(n) == [t \in Tasks |-> Booked(t, n)]

Starting == {t \in Tasks : task[t].pc \in {"create", "backoff"}}

(* The run's budget.                                                       *)
Reserved ==
    /\ history.executed + Total(AllOpen) <= usage["toolCalls"]
    /\ usage["subAgents"] = history.spawned + Cardinality(Starting)
    /\ \A r \in Resources \ {"cost"} : Limits[r] > 0 => usage[r] <= Limits[r]

(* The tools' budgets.                                                     *)
ToolsReserved ==
    \A n \in Tools : ToolBudgets[n] # {} =>
        /\ history.ran[n] + Total(AllBooked(n)) <= tools[n].calls
        /\ \A b \in ToolBudgets[n] : b.calls > 0 => tools[n].calls <= b.calls

(* The cost gate: a task that passed the threshold once comes back to its  *)
(* reservation only with an approval.                                      *)
Gated ==
    /\ HumanAskedFirst
    /\ \A t \in Tasks :
          history.over[t] > 0 => PastThreshold /\ (At(t, "reserve") => gate.answer = "approved")

LoopInv == Types /\ (\A t \in Tasks : TaskOK(t)) /\ Reserved /\ ToolsReserved /\ Gated

-----------------------------------------------------------------------------
(* What an update of the task's record leaves.                             *)

TaskIs(t, p, e, l, a, i) ==
    /\ task'[t].pc = p /\ task'[t].err = e /\ task'[t].loops = l
    /\ task'[t].attempt = a /\ task'[t].idx = i
    /\ \A q \in Tasks : q # t => task'[q] = task[q]
    /\ task' \in [Tasks -> TaskRecord]

(* One field of a record, and the record one field later.                  *)
LEMMA TaskField ==
    ASSUME NEW r \in TaskRecord
    PROVE  /\ \A x \in Places :
                 LET s == [r EXCEPT !.pc = x]
                 IN  /\ s \in TaskRecord /\ s.pc = x /\ s.err = r.err
                     /\ s.loops = r.loops /\ s.attempt = r.attempt /\ s.idx = r.idx
           /\ \A x \in Errors :
                 LET s == [r EXCEPT !.err = x]
                 IN  /\ s \in TaskRecord /\ s.pc = r.pc /\ s.err = x
                     /\ s.loops = r.loops /\ s.attempt = r.attempt /\ s.idx = r.idx
           /\ \A x \in Nat :
                 LET s == [r EXCEPT !.loops = x]
                 IN  /\ s \in TaskRecord /\ s.pc = r.pc /\ s.err = r.err
                     /\ s.loops = x /\ s.attempt = r.attempt /\ s.idx = r.idx
           /\ \A x \in Nat :
                 LET s == [r EXCEPT !.attempt = x]
                 IN  /\ s \in TaskRecord /\ s.pc = r.pc /\ s.err = r.err
                     /\ s.loops = r.loops /\ s.attempt = x /\ s.idx = r.idx
           /\ \A x \in Nat :
                 LET s == [r EXCEPT !.idx = x]
                 IN  /\ s \in TaskRecord /\ s.pc = r.pc /\ s.err = r.err
                     /\ s.loops = r.loops /\ s.attempt = r.attempt /\ s.idx = x
  <1>1. ASSUME NEW x \in Places
        PROVE  LET s == [r EXCEPT !.pc = x]
               IN  /\ s \in TaskRecord /\ s.pc = x /\ s.err = r.err
                   /\ s.loops = r.loops /\ s.attempt = r.attempt /\ s.idx = r.idx
    BY <1>1, Zenon DEF TaskRecord
  <1>2. ASSUME NEW x \in Errors
        PROVE  LET s == [r EXCEPT !.err = x]
               IN  /\ s \in TaskRecord /\ s.pc = r.pc /\ s.err = x
                   /\ s.loops = r.loops /\ s.attempt = r.attempt /\ s.idx = r.idx
    BY <1>2, Zenon DEF TaskRecord
  <1>3. ASSUME NEW x \in Nat
        PROVE  LET s == [r EXCEPT !.loops = x]
               IN  /\ s \in TaskRecord /\ s.pc = r.pc /\ s.err = r.err
                   /\ s.loops = x /\ s.attempt = r.attempt /\ s.idx = r.idx
    BY <1>3, Zenon DEF TaskRecord
  <1>4. ASSUME NEW x \in Nat
        PROVE  LET s == [r EXCEPT !.attempt = x]
               IN  /\ s \in TaskRecord /\ s.pc = r.pc /\ s.err = r.err
                   /\ s.loops = r.loops /\ s.attempt = x /\ s.idx = r.idx
    BY <1>4, Zenon DEF TaskRecord
  <1>5. ASSUME NEW x \in Nat
        PROVE  LET s == [r EXCEPT !.idx = x]
               IN  /\ s \in TaskRecord /\ s.pc = r.pc /\ s.err = r.err
                   /\ s.loops = r.loops /\ s.attempt = r.attempt /\ s.idx = x
    BY <1>5, Zenon DEF TaskRecord
  <1> QED BY <1>1, <1>2, <1>3, <1>4, <1>5, Zenon

LEMMA TaskSet ==
    ASSUME task \in [Tasks -> TaskRecord], NEW t \in Tasks, NEW r \in TaskRecord,
           task' = [task EXCEPT ![t] = r]
    PROVE  TaskIs(t, r.pc, r.err, r.loops, r.attempt, r.idx)
  <1>1. task'[t] = r /\ (\A q \in Tasks : q # t => task'[q] = task[q])
        /\ task' \in [Tasks -> TaskRecord]
    OBVIOUS
  <1> QED BY <1>1, Zenon DEF TaskIs

LEMMA GoIs ==
    ASSUME task \in [Tasks -> TaskRecord], NEW t \in Tasks, NEW p \in Places, Go(t, p)
    PROVE  TaskIs(t, p, task[t].err, task[t].loops, task[t].attempt, task[t].idx)
  <1> DEFINE r == [task[t] EXCEPT !.pc = p]
  <1>1. task[t] \in TaskRecord
    OBVIOUS
  <1>2. task' = [task EXCEPT ![t] = r]
    BY Zenon DEF Go
  <1>3. /\ r \in TaskRecord /\ r.pc = p /\ r.err = task[t].err
        /\ r.loops = task[t].loops /\ r.attempt = task[t].attempt /\ r.idx = task[t].idx
    BY <1>1, TaskField, ZenonT(60)
  <1> HIDE DEF r
  <1>4. TaskIs(t, r.pc, r.err, r.loops, r.attempt, r.idx)
    BY <1>2, <1>3, TaskSet
  <1> QED BY <1>3, <1>4, Zenon

(* Where two fields change.                                                *)
LEMMA PcIdxIs ==
    ASSUME task \in [Tasks -> TaskRecord], NEW t \in Tasks, NEW p \in Places, NEW i \in Nat,
           task' = [task EXCEPT ![t].pc = p, ![t].idx = i]
    PROVE  TaskIs(t, p, task[t].err, task[t].loops, task[t].attempt, i)
  <1> DEFINE s == [task[t] EXCEPT !.pc = p]
             r == [s EXCEPT !.idx = i]
  <1>1. task[t] \in TaskRecord
    OBVIOUS
  <1>2. task' = [task EXCEPT ![t] = r]
    BY Zenon
  <1>3. /\ s \in TaskRecord /\ s.pc = p /\ s.err = task[t].err
        /\ s.loops = task[t].loops /\ s.attempt = task[t].attempt
    BY <1>1, TaskField, ZenonT(60)
  <1> HIDE DEF s
  <1>4. /\ r \in TaskRecord /\ r.pc = s.pc /\ r.err = s.err
        /\ r.loops = s.loops /\ r.attempt = s.attempt /\ r.idx = i
    BY <1>3, TaskField, ZenonT(60)
  <1> HIDE DEF r
  <1>5. TaskIs(t, r.pc, r.err, r.loops, r.attempt, r.idx)
    BY <1>2, <1>4, TaskSet
  <1> QED BY <1>3, <1>4, <1>5, Zenon

LEMMA StepIs ==
    ASSUME task \in [Tasks -> TaskRecord], NEW t \in Tasks, NEW p \in Places, Step(t, p)
    PROVE  TaskIs(t, p, task[t].err, task[t].loops, task[t].attempt, task[t].idx + 1)
  <1> DEFINE i == task[t].idx + 1
  <1>1. task[t].idx \in Nat
    BY DEF TaskRecord
  <1>2. i \in Nat
    BY <1>1
  <1>3. task' = [task EXCEPT ![t].pc = p, ![t].idx = i]
    BY Zenon DEF Step
  <1> HIDE DEF i
  <1>4. TaskIs(t, p, task[t].err, task[t].loops, task[t].attempt, i)
    BY <1>2, <1>3, PcIdxIs
  <1> QED BY <1>4 DEF i

LEMMA StopIs ==
    ASSUME task \in [Tasks -> TaskRecord], NEW t \in Tasks, NEW p \in Places, Stop(t, p)
    PROVE  TaskIs(t, p, "none", task[t].loops, task[t].attempt, task[t].idx)
  <1> DEFINE s == [task[t] EXCEPT !.pc = p]
             r == [s EXCEPT !.err = "none"]
  <1>1. task[t] \in TaskRecord /\ "none" \in Errors
    BY DEF Errors
  <1>2. task' = [task EXCEPT ![t] = r]
    BY Zenon DEF Stop
  <1>3. /\ s \in TaskRecord /\ s.pc = p /\ s.idx = task[t].idx
        /\ s.loops = task[t].loops /\ s.attempt = task[t].attempt
    BY <1>1, TaskField, ZenonT(60)
  <1> HIDE DEF s
  <1>4. /\ r \in TaskRecord /\ r.pc = s.pc /\ r.err = "none"
        /\ r.loops = s.loops /\ r.attempt = s.attempt /\ r.idx = s.idx
    BY <1>1, <1>3, TaskField, ZenonT(60)
  <1> HIDE DEF r
  <1>5. TaskIs(t, r.pc, r.err, r.loops, r.attempt, r.idx)
    BY <1>2, <1>4, TaskSet
  <1> QED BY <1>3, <1>4, <1>5, Zenon

LEMMA FailIs ==
    ASSUME task \in [Tasks -> TaskRecord], NEW t \in Tasks, NEW e \in Errors, Fail(t, e)
    PROVE  TaskIs(t, "failed", e, 0, task[t].attempt, 1)
  <1> DEFINE s == [task[t] EXCEPT !.pc = "failed"]
             u == [s EXCEPT !.err = e]
             v == [u EXCEPT !.loops = 0]
             r == [v EXCEPT !.idx = 1]
  <1>1. task[t] \in TaskRecord /\ "failed" \in Places /\ 0 \in Nat /\ 1 \in Nat
    BY DEF Places
  <1>2. task' = [task EXCEPT ![t] = r]
    BY Zenon DEF Fail
  <1>3. s \in TaskRecord /\ s.pc = "failed" /\ s.attempt = task[t].attempt
    BY <1>1, TaskField, ZenonT(60)
  <1> HIDE DEF s
  <1>4. u \in TaskRecord /\ u.pc = s.pc /\ u.err = e /\ u.attempt = s.attempt
    BY <1>3, TaskField, ZenonT(60)
  <1> HIDE DEF u
  <1>5. v \in TaskRecord /\ v.pc = u.pc /\ v.err = u.err /\ v.loops = 0 /\ v.attempt = u.attempt
    BY <1>1, <1>4, TaskField, ZenonT(60)
  <1> HIDE DEF v
  <1>6. /\ r \in TaskRecord /\ r.pc = v.pc /\ r.err = v.err
        /\ r.loops = v.loops /\ r.attempt = v.attempt /\ r.idx = 1
    BY <1>1, <1>5, TaskField, ZenonT(60)
  <1> HIDE DEF r
  <1>7. TaskIs(t, r.pc, r.err, r.loops, r.attempt, r.idx)
    BY <1>2, <1>6, TaskSet
  <1> QED BY <1>3, <1>4, <1>5, <1>6, <1>7, Zenon

LEMMA LoopIs ==
    ASSUME task \in [Tasks -> TaskRecord], NEW t \in Tasks, task[t].loops > 0,
           task' = [task EXCEPT ![t] = AtLoop(t)]
    PROVE  TaskIs(t, "loop", task[t].err, task[t].loops - 1, task[t].attempt, 1)
  <1> DEFINE l == task[t].loops - 1
             s == [task[t] EXCEPT !.pc = "loop"]
             v == [s EXCEPT !.loops = l]
             r == [v EXCEPT !.idx = 1]
  <1>1. task[t] \in TaskRecord /\ "loop" \in Places /\ 1 \in Nat
    BY DEF Places
  <1>2. task' = [task EXCEPT ![t] = r]
    BY Zenon DEF AtLoop
  <1>3. l \in Nat
    BY <1>1 DEF TaskRecord
  <1> HIDE DEF l
  <1>4. s \in TaskRecord /\ s.pc = "loop" /\ s.err = task[t].err /\ s.attempt = task[t].attempt
    BY <1>1, TaskField, ZenonT(60)
  <1> HIDE DEF s
  <1>5. v \in TaskRecord /\ v.pc = s.pc /\ v.err = s.err /\ v.loops = l /\ v.attempt = s.attempt
    BY <1>3, <1>4, TaskField, ZenonT(60)
  <1> HIDE DEF v
  <1>6. /\ r \in TaskRecord /\ r.pc = v.pc /\ r.err = v.err
        /\ r.loops = v.loops /\ r.attempt = v.attempt /\ r.idx = 1
    BY <1>1, <1>5, TaskField, ZenonT(60)
  <1> HIDE DEF r
  <1>7. TaskIs(t, r.pc, r.err, r.loops, r.attempt, r.idx)
    BY <1>2, <1>6, TaskSet
  <1>8. TaskIs(t, "loop", task[t].err, l, task[t].attempt, 1)
    BY <1>4, <1>5, <1>6, <1>7, Zenon
  <1> QED BY <1>8 DEF l

(* Where the attempt begins, and the one after it.                         *)
LEMMA CreateIs ==
    ASSUME task \in [Tasks -> TaskRecord], NEW t \in Tasks, NEW l \in Nat,
           task' = [task EXCEPT ![t].pc = "loop", ![t].loops = l]
    PROVE  TaskIs(t, "loop", task[t].err, l, task[t].attempt, task[t].idx)
  <1> DEFINE s == [task[t] EXCEPT !.pc = "loop"]
             r == [s EXCEPT !.loops = l]
  <1>1. task[t] \in TaskRecord /\ "loop" \in Places
    BY DEF Places
  <1>2. task' = [task EXCEPT ![t] = r]
    BY Zenon
  <1>3. /\ s \in TaskRecord /\ s.pc = "loop" /\ s.err = task[t].err
        /\ s.attempt = task[t].attempt /\ s.idx = task[t].idx
    BY <1>1, TaskField, ZenonT(60)
  <1> HIDE DEF s
  <1>4. /\ r \in TaskRecord /\ r.pc = s.pc /\ r.err = s.err
        /\ r.loops = l /\ r.attempt = s.attempt /\ r.idx = s.idx
    BY <1>3, TaskField, ZenonT(60)
  <1> HIDE DEF r
  <1>5. TaskIs(t, r.pc, r.err, r.loops, r.attempt, r.idx)
    BY <1>2, <1>4, TaskSet
  <1> QED BY <1>3, <1>4, <1>5, Zenon

LEMMA AgainIs ==
    ASSUME task \in [Tasks -> TaskRecord], NEW t \in Tasks,
           task' = [task EXCEPT ![t].pc = "create", ![t].attempt = @ + 1]
    PROVE  TaskIs(t, "create", task[t].err, task[t].loops, task[t].attempt + 1, task[t].idx)
  <1> DEFINE a == task[t].attempt + 1
             s == [task[t] EXCEPT !.pc = "create"]
             r == [s EXCEPT !.attempt = a]
  <1>1. task[t] \in TaskRecord /\ "create" \in Places
    BY DEF Places
  <1>2. task' = [task EXCEPT ![t] = r]
    BY Zenon
  <1>3. a \in Nat
    BY <1>1 DEF TaskRecord
  <1> HIDE DEF a
  <1>4. /\ s \in TaskRecord /\ s.pc = "create" /\ s.err = task[t].err
        /\ s.loops = task[t].loops /\ s.idx = task[t].idx
    BY <1>1, TaskField, ZenonT(60)
  <1> HIDE DEF s
  <1>5. /\ r \in TaskRecord /\ r.pc = s.pc /\ r.err = s.err
        /\ r.loops = s.loops /\ r.attempt = a /\ r.idx = s.idx
    BY <1>3, <1>4, TaskField, ZenonT(60)
  <1> HIDE DEF r
  <1>6. TaskIs(t, r.pc, r.err, r.loops, r.attempt, r.idx)
    BY <1>2, <1>5, TaskSet
  <1>7. TaskIs(t, "create", task[t].err, task[t].loops, a, task[t].idx)
    BY <1>4, <1>5, <1>6, Zenon
  <1> QED BY <1>7 DEF a

-----------------------------------------------------------------------------
(* What an update of a call leaves.                                        *)

Becomes(t, i, st, e, ok) ==
    /\ CallTypes'
    /\ Len(calls'[t]) = Len(calls[t])
    /\ calls'[t][i].kind = calls[t][i].kind /\ calls'[t][i].st = st
    /\ calls'[t][i].err = e /\ calls'[t][i].approved = ok
    /\ \A j \in 1 .. Len(calls[t]) : j # i => calls'[t][j] = calls[t][j]
    /\ \A q \in Tasks : q # t => calls'[q] = calls[q]

CallErrors == {"none", "transient", "other", "final", "retryable"}

(* One field of a call, and the call one field later.                      *)
LEMMA CallField ==
    ASSUME NEW c \in Call
    PROVE  /\ \A x \in CallStates :
                 LET d == [c EXCEPT !.st = x]
                 IN  /\ d \in Call /\ d.kind = c.kind /\ d.st = x
                     /\ d.err = c.err /\ d.approved = c.approved
           /\ \A x \in CallErrors :
                 LET d == [c EXCEPT !.err = x]
                 IN  /\ d \in Call /\ d.kind = c.kind /\ d.st = c.st
                     /\ d.err = x /\ d.approved = c.approved
           /\ LET d == [c EXCEPT !.approved = TRUE]
              IN  /\ d \in Call /\ d.kind = c.kind /\ d.st = c.st
                  /\ d.err = c.err /\ d.approved = TRUE
           /\ \A x \in Nat :
                 LET d == [c EXCEPT !.tries = x]
                 IN  /\ d \in Call /\ d.kind = c.kind /\ d.st = c.st
                     /\ d.err = c.err /\ d.approved = c.approved
           /\ \A x \in Nat :
                 LET d == [c EXCEPT !.took = x]
                 IN  /\ d \in Call /\ d.kind = c.kind /\ d.st = c.st
                     /\ d.err = c.err /\ d.approved = c.approved
           /\ \A x \in Nat :
                 LET d == [c EXCEPT !.cost = x]
                 IN  /\ d \in Call /\ d.kind = c.kind /\ d.st = c.st
                     /\ d.err = c.err /\ d.approved = c.approved
           /\ \A x \in Nat :
                 LET d == [c EXCEPT !.left = x]
                 IN  /\ d \in Call /\ d.kind = c.kind /\ d.st = c.st
                     /\ d.err = c.err /\ d.approved = c.approved
  <1>1. ASSUME NEW x \in CallStates
        PROVE  LET d == [c EXCEPT !.st = x]
               IN  /\ d \in Call /\ d.kind = c.kind /\ d.st = x
                   /\ d.err = c.err /\ d.approved = c.approved
    BY <1>1, Zenon DEF Call
  <1>2. ASSUME NEW x \in CallErrors
        PROVE  LET d == [c EXCEPT !.err = x]
               IN  /\ d \in Call /\ d.kind = c.kind /\ d.st = c.st
                   /\ d.err = x /\ d.approved = c.approved
    BY <1>2, Zenon DEF Call, CallErrors
  <1>3. LET d == [c EXCEPT !.approved = TRUE]
        IN  /\ d \in Call /\ d.kind = c.kind /\ d.st = c.st
            /\ d.err = c.err /\ d.approved = TRUE
    BY Zenon DEF Call
  <1>4. ASSUME NEW x \in Nat
        PROVE  LET d == [c EXCEPT !.tries = x]
               IN  /\ d \in Call /\ d.kind = c.kind /\ d.st = c.st
                   /\ d.err = c.err /\ d.approved = c.approved
    BY <1>4, Zenon DEF Call
  <1>5. ASSUME NEW x \in Nat
        PROVE  LET d == [c EXCEPT !.took = x]
               IN  /\ d \in Call /\ d.kind = c.kind /\ d.st = c.st
                   /\ d.err = c.err /\ d.approved = c.approved
    BY <1>5, Zenon DEF Call
  <1>6. ASSUME NEW x \in Nat
        PROVE  LET d == [c EXCEPT !.cost = x]
               IN  /\ d \in Call /\ d.kind = c.kind /\ d.st = c.st
                   /\ d.err = c.err /\ d.approved = c.approved
    BY <1>6, Zenon DEF Call
  <1>7. ASSUME NEW x \in Nat
        PROVE  LET d == [c EXCEPT !.left = x]
               IN  /\ d \in Call /\ d.kind = c.kind /\ d.st = c.st
                   /\ d.err = c.err /\ d.approved = c.approved
    BY <1>7, Zenon DEF Call
  <1> QED BY <1>1, <1>2, <1>3, <1>4, <1>5, <1>6, <1>7, Zenon

LEMMA CallSet ==
    ASSUME CallTypes, NEW t \in Tasks, NEW i \in 1 .. Len(calls[t]), NEW c \in Call,
           c.kind = calls[t][i].kind,
           calls' = [calls EXCEPT ![t] = [calls[t] EXCEPT ![i] = c]]
    PROVE  Becomes(t, i, c.st, c.err, c.approved)
  <1> DEFINE s == calls[t]
             r == [s EXCEPT ![i] = c]
  <1>1. s \in Seq(Call)
    BY DEF CallTypes
  <1>2. /\ r \in Seq(Call) /\ Len(r) = Len(s) /\ r[i] = c
        /\ \A j \in 1 .. Len(s) : j # i => r[j] = s[j]
    BY <1>1
  <1> HIDE DEF r
  <1>3. /\ calls'[t] = r /\ CallTypes' /\ \A q \in Tasks : q # t => calls'[q] = calls[q]
    BY <1>2 DEF CallTypes, r
  <1> QED BY <1>2, <1>3, Zenon DEF Becomes

(* The call i of a task that has it.                                       *)
LEMMA TheCall ==
    ASSUME CallTypes, NEW t \in Tasks, NEW i \in 1 .. Len(calls[t])
    PROVE  /\ calls[t] \in Seq(Call) /\ calls[t][i] \in Call /\ calls[t][i].kind \in Kinds
           /\ calls[t][i].tries \in Nat /\ calls[t][i].took \in Nat /\ calls[t][i].cost \in Nat
           /\ calls[t][i].st \in CallStates /\ calls[t][i].err \in CallErrors
           /\ calls[t][i].approved \in BOOLEAN
  <1>1. calls[t] \in Seq(Call)
    BY DEF CallTypes
  <1>2. calls[t][i] \in Call
    BY <1>1
  <1> QED BY <1>1, <1>2 DEF Call, CallErrors

LEMMA MarkIs ==
    ASSUME CallTypes, NEW t \in Tasks, NEW i \in 1 .. Len(calls[t]), NEW st \in CallStates,
           Mark(t, i, st)
    PROVE  Becomes(t, i, st, calls[t][i].err, calls[t][i].approved)
  <1> DEFINE d == [calls[t][i] EXCEPT !.st = st]
  <1>1. calls[t][i] \in Call
    BY TheCall
  <1>2. calls' = [calls EXCEPT ![t] = [calls[t] EXCEPT ![i] = d]]
    BY Zenon DEF Mark
  <1>3. /\ d \in Call /\ d.kind = calls[t][i].kind /\ d.st = st
        /\ d.err = calls[t][i].err /\ d.approved = calls[t][i].approved
    BY <1>1, CallField, Zenon
  <1> HIDE DEF d
  <1>4. Becomes(t, i, d.st, d.err, d.approved)
    BY <1>2, <1>3, CallSet
  <1> QED BY <1>3, <1>4, Zenon

LEMMA ReturnsIs ==
    ASSUME CallTypes, NEW t \in Tasks, NEW i \in 1 .. Len(calls[t]), NEW e \in CallErrors,
           Returns(t, i, e)
    PROVE  Becomes(t, i, "returned", e, calls[t][i].approved)
  <1> DEFINE c == [calls[t][i] EXCEPT !.st = "returned"]
             d == [c EXCEPT !.err = e]
  <1>1. calls[t][i] \in Call /\ "returned" \in CallStates
    BY TheCall DEF CallStates
  <1>2. calls' = [calls EXCEPT ![t] = [calls[t] EXCEPT ![i] = d]]
    BY Zenon DEF Returns
  <1>3. /\ c \in Call /\ c.kind = calls[t][i].kind /\ c.st = "returned"
        /\ c.approved = calls[t][i].approved
    BY <1>1, CallField, Zenon
  <1> HIDE DEF c
  <1>4. d \in Call /\ d.kind = c.kind /\ d.st = c.st /\ d.err = e /\ d.approved = c.approved
    BY <1>3, CallField, Zenon
  <1> HIDE DEF d
  <1>5. Becomes(t, i, d.st, d.err, d.approved)
    BY <1>2, <1>3, <1>4, CallSet
  <1> QED BY <1>3, <1>4, <1>5, Zenon

LEMMA ApprovedIs ==
    ASSUME CallTypes, NEW t \in Tasks, NEW i \in 1 .. Len(calls[t]),
           calls' = [calls EXCEPT ![t][i].approved = TRUE]
    PROVE  Becomes(t, i, calls[t][i].st, calls[t][i].err, TRUE)
  <1> DEFINE d == [calls[t][i] EXCEPT !.approved = TRUE]
  <1>1. calls[t][i] \in Call
    BY TheCall
  <1>2. calls' = [calls EXCEPT ![t] = [calls[t] EXCEPT ![i] = d]]
    BY Zenon
  <1>3. /\ d \in Call /\ d.kind = calls[t][i].kind /\ d.st = calls[t][i].st
        /\ d.err = calls[t][i].err /\ d.approved = TRUE
    BY <1>1, CallField, Zenon
  <1> HIDE DEF d
  <1>4. Becomes(t, i, d.st, d.err, d.approved)
    BY <1>2, <1>3, CallSet
  <1> QED BY <1>3, <1>4, Zenon

LEMMA FreshIs ==
    ASSUME NEW k \in Kinds
    PROVE  /\ Fresh(k) \in Call /\ Fresh(k).kind = k /\ Fresh(k).st = "called"
           /\ Fresh(k).err = "none" /\ Fresh(k).approved = FALSE
  <1>1. "called" \in CallStates
    BY DEF CallStates
  <1> QED BY <1>1 DEF Fresh, Call

LEMMA AnswerIs ==
    ASSUME CallTypes, NEW t \in Tasks, NEW i \in 1 .. Len(calls[t]), NEW e \in Errors,
           Answer(t, i, e)
    PROVE  Becomes(t, i, "result", e, FALSE)
  <1> DEFINE b == Fresh(calls[t][i].kind)
             c == [b EXCEPT !.st = "result"]
             d == [c EXCEPT !.err = e]
  <1>1. calls[t][i].kind \in Kinds /\ "result" \in CallStates /\ e \in CallErrors
    BY TheCall DEF CallStates, CallErrors, Errors
  <1>2. calls' = [calls EXCEPT ![t] = [calls[t] EXCEPT ![i] = d]]
    BY Zenon DEF Answer
  <1>3. b \in Call /\ b.kind = calls[t][i].kind /\ b.approved = FALSE
    BY <1>1, FreshIs
  <1> HIDE DEF b
  <1>4. c \in Call /\ c.kind = b.kind /\ c.st = "result" /\ c.approved = b.approved
    BY <1>1, <1>3, CallField, Zenon
  <1> HIDE DEF c
  <1>5. d \in Call /\ d.kind = c.kind /\ d.st = c.st /\ d.err = e /\ d.approved = c.approved
    BY <1>1, <1>4, CallField, Zenon
  <1> HIDE DEF d
  <1>6. d.kind = calls[t][i].kind
    BY <1>3, <1>4, <1>5, Zenon
  <1>7. Becomes(t, i, d.st, d.err, d.approved)
    BY <1>2, <1>5, <1>6, CallSet
  <1> QED BY <1>3, <1>4, <1>5, <1>7, Zenon

(* A first execution, which takes a deadline along, and a later one.       *)
LEMMA ExecutesIs ==
    ASSUME CallTypes, NEW t \in Tasks, NEW i \in 1 .. Len(calls[t]), NEW l \in Nat,
           \/ calls' = [calls EXCEPT ![t][i] = [Executes(t, i) EXCEPT !.left = l]]
           \/ calls' = [calls EXCEPT ![t][i] = Executes(t, i)]
    PROVE  Becomes(t, i, "executing", calls[t][i].err, calls[t][i].approved)
  <1> DEFINE n == calls[t][i].tries + 1
             b == [calls[t][i] EXCEPT !.st = "executing"]
             c == [b EXCEPT !.tries = n]
             d == [c EXCEPT !.left = l]
  <1>1. calls[t][i] \in Call /\ "executing" \in CallStates /\ n \in Nat
    BY TheCall DEF CallStates
  <1>2. \/ calls' = [calls EXCEPT ![t] = [calls[t] EXCEPT ![i] = d]]
        \/ calls' = [calls EXCEPT ![t] = [calls[t] EXCEPT ![i] = c]]
    <2>1. Executes(t, i) = c
      BY Zenon DEF Executes
    <2> HIDE DEF c
    <2> QED BY <2>1, Zenon
  <1> HIDE DEF n
  <1>3. /\ b \in Call /\ b.kind = calls[t][i].kind /\ b.st = "executing"
        /\ b.err = calls[t][i].err /\ b.approved = calls[t][i].approved
    BY <1>1, CallField, Zenon
  <1> HIDE DEF b
  <1>4. /\ c \in Call /\ c.kind = b.kind /\ c.st = b.st /\ c.err = b.err
        /\ c.approved = b.approved
    BY <1>1, <1>3, CallField, Zenon
  <1> HIDE DEF c
  <1>5. /\ d \in Call /\ d.kind = c.kind /\ d.st = c.st /\ d.err = c.err
        /\ d.approved = c.approved
    BY <1>4, CallField, Zenon
  <1> HIDE DEF d
  <1>6. c.kind = calls[t][i].kind /\ d.kind = calls[t][i].kind
    BY <1>3, <1>4, <1>5, Zenon
  <1>7. Becomes(t, i, d.st, d.err, d.approved) \/ Becomes(t, i, c.st, c.err, c.approved)
    BY <1>2, <1>4, <1>5, <1>6, CallSet
  <1> QED BY <1>3, <1>4, <1>5, <1>7, Zenon

(* What an execution that returns leaves of its call.                      *)
LEMMA ExecutedIs ==
    ASSUME CallTypes, NEW t \in Tasks, NEW i \in 1 .. Len(calls[t]),
           ExecuteReturns(t, i)
    PROVE  \E st \in {"retry", "storm", "returned"} : \E e \in CallErrors :
               Becomes(t, i, st, e, calls[t][i].approved)
  <1>1. PICK r \in Results :
            \E c, st, e :
               /\ c = [calls[t][i] EXCEPT !.took = @ + r.took, !.cost = @ + r.cost]
               /\ \/ /\ st \in {"retry", "storm"} /\ e = calls[t][i].err
                     /\ calls' = [calls EXCEPT ![t][i] = [c EXCEPT !.st = st]]
                  \/ /\ st = "returned" /\ e \in {"final", "other", r.err}
                     /\ calls' = [calls EXCEPT ![t][i] = [c EXCEPT !.st = st, !.err = e]]
    <2>1. PICK r \in Results :
            LET c == [calls[t][i] EXCEPT !.took = @ + r.took, !.cost = @ + r.cost]
                again == ~OutOfTime(t, calls[t][i], r) /\ retriesTool(t, c, r.err)
            IN  \/ /\ again
                   /\ calls' = [calls EXCEPT ![t][i] =
                     IF ~Storm THEN [c EXCEPT !.st = "retry"]
                     ELSE IF LoopResponse = "approve" THEN [c EXCEPT !.st = "storm"]
                     ELSE [c EXCEPT !.st = "returned", !.err = "final"]]
                \/ /\ ~again
                   /\ calls' = [calls EXCEPT ![t][i] =
                     [c EXCEPT !.st = "returned",
                               !.err = IF OutOfTime(t, calls[t][i], r) THEN "other" ELSE r.err]]
      BY Zenon DEF ExecuteReturns
    <2> DEFINE c == [calls[t][i] EXCEPT !.took = @ + r.took, !.cost = @ + r.cost]
               o == OutOfTime(t, calls[t][i], r)
               again == ~o /\ retriesTool(t, c, r.err)
    <2>2. \/ /\ again
             /\ calls' = [calls EXCEPT ![t][i] =
                     IF ~Storm THEN [c EXCEPT !.st = "retry"]
                     ELSE IF LoopResponse = "approve" THEN [c EXCEPT !.st = "storm"]
                     ELSE [c EXCEPT !.st = "returned", !.err = "final"]]
          \/ /\ ~again
             /\ calls' = [calls EXCEPT ![t][i] =
                     [c EXCEPT !.st = "returned", !.err = IF o THEN "other" ELSE r.err]]
      BY <2>1, Zenon
    <2> DEFINE Goal == \E x, st, e :
               /\ x = c
               /\ \/ /\ st \in {"retry", "storm"} /\ e = calls[t][i].err
                     /\ calls' = [calls EXCEPT ![t][i] = [x EXCEPT !.st = st]]
                  \/ /\ st = "returned" /\ e \in {"final", "other", r.err}
                     /\ calls' = [calls EXCEPT ![t][i] = [x EXCEPT !.st = st, !.err = e]]
    <2> SUFFICES Goal
      BY Zenon
    <2> HIDE DEF c, o
    <2>3. CASE again /\ ~Storm
      <3>1. calls' = [calls EXCEPT ![t][i] = [c EXCEPT !.st = "retry"]]
        BY <2>2, <2>3, Zenon
      <3> QED BY <3>1, Zenon
    <2>4. CASE again /\ Storm /\ LoopResponse = "approve"
      <3>1. calls' = [calls EXCEPT ![t][i] = [c EXCEPT !.st = "storm"]]
        BY <2>2, <2>4, Zenon
      <3> QED BY <3>1, Zenon
    <2>5. CASE again /\ Storm /\ LoopResponse # "approve"
      <3>1. calls' = [calls EXCEPT ![t][i] = [c EXCEPT !.st = "returned", !.err = "final"]]
        BY <2>2, <2>5, Zenon
      <3> QED BY <3>1, Zenon
    <2>6. CASE ~again /\ o
      <3>1. calls' = [calls EXCEPT ![t][i] = [c EXCEPT !.st = "returned", !.err = "other"]]
        BY <2>2, <2>6, Zenon
      <3> QED BY <3>1, Zenon
    <2>7. CASE ~again /\ ~o
      <3>1. calls' = [calls EXCEPT ![t][i] = [c EXCEPT !.st = "returned", !.err = r.err]]
        BY <2>2, <2>7, Zenon
      <3> QED BY <3>1, Zenon
    <2> HIDE DEF Goal, again
    <2> QED BY <2>3, <2>4, <2>5, <2>6, <2>7, Zenon
  <1> DEFINE x == calls[t][i].took + r.took
             y == calls[t][i].cost + r.cost
             b == [calls[t][i] EXCEPT !.took = x]
             c == [b EXCEPT !.cost = y]
  <1>2. PICK st, e :
           \/ /\ st \in {"retry", "storm"} /\ e = calls[t][i].err
              /\ calls' = [calls EXCEPT ![t][i] = [c EXCEPT !.st = st]]
           \/ /\ st = "returned" /\ e \in {"final", "other", r.err}
              /\ calls' = [calls EXCEPT ![t][i] = [c EXCEPT !.st = st, !.err = e]]
    <2>1. PICK k, st, e :
               /\ k = [calls[t][i] EXCEPT !.took = @ + r.took, !.cost = @ + r.cost]
               /\ \/ /\ st \in {"retry", "storm"} /\ e = calls[t][i].err
                     /\ calls' = [calls EXCEPT ![t][i] = [k EXCEPT !.st = st]]
                  \/ /\ st = "returned" /\ e \in {"final", "other", r.err}
                     /\ calls' = [calls EXCEPT ![t][i] = [k EXCEPT !.st = st, !.err = e]]
      BY <1>1, Zenon
    <2>2. k = c
      BY <2>1, Zenon
    <2> HIDE DEF c
    <2> QED BY <2>1, <2>2, ZenonT(60)
  <1>3. calls[t][i] \in Call /\ x \in Nat /\ y \in Nat /\ r.err \in CallErrors
    <2>1. r \in [err : {"none", "transient", "other", "final"}, cost : Nat, took : Nat]
      BY AgentLoopAssumption
    <2> QED BY <2>1, TheCall DEF CallErrors
  <1> HIDE DEF x, y
  <1>4. /\ b \in Call /\ b.kind = calls[t][i].kind
        /\ b.err = calls[t][i].err /\ b.approved = calls[t][i].approved
    BY <1>3, CallField, Zenon
  <1> HIDE DEF b
  <1>5. /\ c \in Call /\ c.kind = b.kind /\ c.err = b.err /\ c.approved = b.approved
    BY <1>3, <1>4, CallField, Zenon
  <1> HIDE DEF c
  <1>6. /\ c.kind = calls[t][i].kind /\ c.err = calls[t][i].err
        /\ c.approved = calls[t][i].approved
    BY <1>4, <1>5, Zenon
  <1> DEFINE d == [c EXCEPT !.st = st]
             f == [d EXCEPT !.err = e]
  <1>7. /\ st \in CallStates /\ st \in {"retry", "storm", "returned"} /\ e \in CallErrors
    <2>1. calls[t][i].err \in CallErrors
      BY TheCall
    <2> QED BY <1>2, <1>3, <2>1 DEF CallStates, CallErrors
  <1>8. d \in Call /\ d.kind = c.kind /\ d.st = st /\ d.err = c.err /\ d.approved = c.approved
    BY <1>5, <1>7, CallField, Zenon
  <1>9. \/ e = calls[t][i].err /\ calls' = [calls EXCEPT ![t] = [calls[t] EXCEPT ![i] = d]]
        \/ calls' = [calls EXCEPT ![t] = [calls[t] EXCEPT ![i] = f]]
    BY <1>2, Zenon
  <1> HIDE DEF d
  <1>10. f \in Call /\ f.kind = d.kind /\ f.st = d.st /\ f.err = e /\ f.approved = d.approved
    BY <1>7, <1>8, CallField, Zenon
  <1> HIDE DEF f
  <1>11. /\ d.kind = calls[t][i].kind /\ f.kind = calls[t][i].kind /\ f.st = st
         /\ f.approved = calls[t][i].approved /\ d.approved = calls[t][i].approved
         /\ d.err = calls[t][i].err
    BY <1>6, <1>8, <1>10, Zenon
  <1>12. \/ e = calls[t][i].err /\ Becomes(t, i, d.st, d.err, d.approved)
         \/ Becomes(t, i, f.st, f.err, f.approved)
    BY <1>8, <1>9, <1>10, <1>11, CallSet
  <1>13. Becomes(t, i, st, e, calls[t][i].approved)
    BY <1>8, <1>10, <1>11, <1>12, Zenon
  <1> QED BY <1>7, <1>13, Zenon

-----------------------------------------------------------------------------
(* The greatest and the least.                                             *)

LEMMA MaxZero ==
    ASSUME NEW x \in Int
    PROVE  Max({0, x}) \in Nat /\ (x >= 0 => Max({0, x}) = x) /\ (x <= 0 => Max({0, x}) = 0)
  <1> DEFINE S == {0, x}
             P(m) == m \in S /\ \A y \in S : m >= y
  <1>1. \E m : P(m)
    <2>1. CASE x >= 0
      BY <2>1
    <2>2. CASE x <= 0
      BY <2>2
    <2> QED BY <2>1, <2>2
  <1>2. Max(S) = CHOOSE m : P(m)
    BY Zenon DEF Max
  <1>3. P(Max(S))
    BY <1>1, <1>2, Zenon
  <1> HIDE DEF P
  <1> DEFINE g == Max(S)
  <1>4. P(g)
    BY <1>3
  <1> HIDE DEF g
  <1>5. (g = 0 \/ g = x) /\ g >= 0 /\ g >= x
    BY <1>4 DEF P
  <1>6. g \in Nat /\ (x >= 0 => g = x) /\ (x <= 0 => g = 0)
    BY <1>5
  <1> QED BY <1>6 DEF g

LEMMA MinIn ==
    ASSUME NEW T \in SUBSET Nat, T # {}
    PROVE  Min(T) \in T
  <1> DEFINE R == {ss \in Nat \X Nat : ss[1] < ss[2]}
  <1>1. PICK n \in T : \A k \in T : ~(<<k, n>> \in R)
    <2>1. R = OpToRel(<, Nat)
      BY Zenon DEF OpToRel
    <2>2. IsWellFoundedOn(R, Nat)
      BY <2>1, NatLessThanWellFounded, Zenon
    <2> HIDE DEF R
    <2> QED BY <2>2, WFMin, Zenon
  <1>2. \A k \in T : ~(k < n)
    BY <1>1
  <1>3. \A k \in T : n <= k
    BY <1>2
  <1> QED BY <1>3, Zenon DEF Min

LEMMA TimeLeftType ==
    ASSUME BudgetTypeOK, NEW n \in Tools
    PROVE  ToolTimeLeft(n) \in Nat
  <1>1. TimeLimits(n) \in SUBSET Nat
    BY BudgetAssumption DEF TimeLimits, ToolBudget
  <1>2. CASE TimeLimits(n) = {}
    BY <1>2 DEF ToolTimeLeft
  <1>3. CASE TimeLimits(n) # {}
    <2> DEFINE m == Min(TimeLimits(n))
               x == m - tools[n].time
    <2>1. m \in Nat
      BY <1>1, <1>3, MinIn
    <2>2. tools[n].time \in Nat
      BY DEF BudgetTypeOK, ToolBudget
    <2> HIDE DEF m
    <2>3. x \in Int
      BY <2>1, <2>2
    <2> HIDE DEF x
    <2>4. Max({0, x}) \in Nat
      BY <2>3, MaxZero
    <2>5. ToolTimeLeft(n) = Max({0, x})
      BY <1>3, Zenon DEF ToolTimeLeft, x, m
    <2> QED BY <2>4, <2>5
  <1> QED BY <1>2, <1>3

-----------------------------------------------------------------------------
(* Counting.                                                               *)

Families == {F \in [Tasks -> SUBSET Nat] : \A q \in Tasks : IsFiniteSet(F[q])}

LEMMA PairsFinite ==
    ASSUME NEW F \in Families
    PROVE  IsFiniteSet(Pairs(F)) /\ Total(F) \in Nat
  <1> DEFINE R == {F[q] : q \in Tasks}
             U == UNION R
  <1>1. F \in [Tasks -> SUBSET Nat] /\ \A q \in Tasks : IsFiniteSet(F[q])
    BY DEF Families
  <1>2. IsFiniteSet(Tasks)
    BY AgentLoopAssumption
  <1>3. F \in Surjection(Tasks, R)
    BY <1>1, Zenon DEF Surjection
  <1>4. \A T \in R : IsFiniteSet(T)
    BY <1>1
  <1> HIDE DEF R
  <1>5. IsFiniteSet(R)
    BY <1>2, <1>3, FS_Surjection
  <1>6. IsFiniteSet(U)
    BY <1>4, <1>5, FS_UNION
  <1>7. \A q \in Tasks : F[q] \in SUBSET U
    BY DEF R
  <1> HIDE DEF U
  <1>8. IsFiniteSet(Tasks \X U)
    BY <1>2, <1>6, FS_Product
  <1>9. Pairs(F) \in SUBSET (Tasks \X U)
    BY <1>1, <1>7 DEF Pairs
  <1>10. IsFiniteSet(Pairs(F))
    BY <1>8, <1>9, FS_Subset
  <1> QED BY <1>10, FS_CardinalityType DEF Total

(* Families that differ only at t differ in number by what they have there.*)
LEMMA TotalChange ==
    ASSUME NEW F \in Families, NEW G \in Families, NEW t \in Tasks,
           \A q \in Tasks : q # t => G[q] = F[q]
    PROVE  /\ Total(F) \in Nat /\ Total(G) \in Nat
           /\ Cardinality(F[t]) \in Nat /\ Cardinality(G[t]) \in Nat
           /\ Total(G) + Cardinality(F[t]) = Total(F) + Cardinality(G[t])
  <1> DEFINE A == {x \in Tasks \X Nat : x[1] # t /\ x[2] \in F[x[1]]}
             P(H) == {t} \X H[t]
  <1>1. ASSUME NEW H \in Families, \A q \in Tasks : q # t => H[q] = F[q]
        PROVE  /\ Cardinality(H[t]) \in Nat /\ Cardinality(A) \in Nat
               /\ Total(H) = Cardinality(A) + Cardinality(H[t])
    <2>1. H \in [Tasks -> SUBSET Nat] /\ IsFiniteSet(H[t])
      BY <1>1 DEF Families
    <2>2. Pairs(H) = A \cup P(H) /\ A \cap P(H) = {}
      <3>1. \A x : x \in Pairs(H) <=> x \in A \/ x \in P(H)
        BY <1>1, <2>1 DEF Pairs
      <3>2. \A x : ~(x \in A /\ x \in P(H))
        OBVIOUS
      <3> HIDE DEF A, P
      <3> QED BY <3>1, <3>2
    <2>3. IsFiniteSet({t}) /\ Cardinality({t}) = 1
      BY FS_Singleton
    <2>4. Cardinality(H[t]) \in Nat
      BY <2>1, FS_CardinalityType
    <2> DEFINE S == {t}
               B == H[t]
    <2>5. IsFiniteSet(S \X B) /\ Cardinality(S \X B) = Cardinality(S) * Cardinality(B)
      <3>1. IsFiniteSet(S) /\ IsFiniteSet(B)
        BY <2>1, <2>3
      <3> HIDE DEF S, B
      <3> QED BY <3>1, FS_Product
    <2>6. IsFiniteSet(P(H)) /\ Cardinality(P(H)) = Cardinality(H[t])
      BY <2>3, <2>4, <2>5
    <2>7. IsFiniteSet(Pairs(H))
      BY PairsFinite
    <2> HIDE DEF P
    <2>8. IsFiniteSet(A)
      <3>1. A \in SUBSET Pairs(H)
        BY <2>2
      <3> HIDE DEF A
      <3> QED BY <2>7, <3>1, FS_Subset
    <2> HIDE DEF A
    <2>9. Cardinality(A \cup P(H)) = Cardinality(A) + Cardinality(P(H)) - Cardinality(A \cap P(H))
      BY <2>6, <2>8, FS_Union
    <2>10. Cardinality(A \cap P(H)) = 0
      BY <2>2, FS_EmptySet
    <2>11. Cardinality(A) \in Nat
      BY <2>8, FS_CardinalityType
    <2> DEFINE u == Cardinality(A \cup P(H))
               a == Cardinality(A)
               b == Cardinality(P(H))
               h == Cardinality(H[t])
               z == Cardinality(A \cap P(H))
    <2>12. u = a + b - z /\ z = 0 /\ a \in Nat /\ b = h /\ h \in Nat
      BY <2>4, <2>6, <2>9, <2>10, <2>11
    <2>13. Total(H) = u
      BY <2>2 DEF Total
    <2> HIDE DEF u, a, b, z, h
    <2>14. Total(H) = a + h
      BY <2>12, <2>13
    <2> QED BY <2>4, <2>11, <2>14 DEF a, h
  <1>2. /\ Cardinality(F[t]) \in Nat /\ Cardinality(A) \in Nat
        /\ Total(F) = Cardinality(A) + Cardinality(F[t])
    BY <1>1
  <1>3. /\ Cardinality(G[t]) \in Nat
        /\ Total(G) = Cardinality(A) + Cardinality(G[t])
    BY <1>1
  <1> DEFINE a == Cardinality(A)
             f == Cardinality(F[t])
             g == Cardinality(G[t])
  <1>4. a \in Nat /\ f \in Nat /\ g \in Nat /\ Total(F) = a + f /\ Total(G) = a + g
    BY <1>2, <1>3
  <1> HIDE DEF a, f, g
  <1>5. Total(F) \in Nat /\ Total(G) \in Nat /\ Total(G) + f = Total(F) + g
    BY <1>4
  <1> QED BY <1>4, <1>5 DEF f, g

LEMMA FamilyIs ==
    ASSUME NEW c \in [Tasks -> Seq(Call)], NEW F \in [Tasks -> SUBSET Nat],
           \A t \in Tasks : F[t] \in SUBSET (1 .. Len(c[t]))
    PROVE  F \in Families
  <1>1. ASSUME NEW t \in Tasks PROVE IsFiniteSet(F[t])
    <2> DEFINE D == 1 .. Len(c[t])
    <2>1. Len(c[t]) \in Nat
      OBVIOUS
    <2>2. IsFiniteSet(D)
      BY <2>1, FS_Interval
    <2>3. F[t] \in SUBSET D
      OBVIOUS
    <2> HIDE DEF D
    <2> QED BY <2>2, <2>3, FS_Subset
  <1> QED BY <1>1, Zenon DEF Families

(* The sets that are counted, before and after a step.                     *)
LEMMA OpenFamily ==
    ASSUME CallTypes, CallTypes'
    PROVE  /\ AllOpen \in Families /\ AllOpen' \in Families
           /\ \A n : AllBooked(n) \in Families /\ AllBooked(n)' \in Families
  <1>1. \A t \in Tasks : Open(t) \in SUBSET (1 .. Len(calls[t]))
    BY Zenon DEF Open
  <1>2. \A t \in Tasks : Open(t)' \in SUBSET (1 .. Len(calls'[t]))
    BY Zenon DEF Open
  <1>3. \A t \in Tasks : \A n : Booked(t, n) \in SUBSET (1 .. Len(calls[t]))
    BY Zenon DEF Booked
  <1>4. \A t \in Tasks : \A n : Booked(t, n)' \in SUBSET (1 .. Len(calls'[t]))
    BY Zenon DEF Booked
  <1>5. ASSUME NEW c \in [Tasks -> Seq(Call)] PROVE \A t \in Tasks : (1 .. Len(c[t])) \in SUBSET Nat
    OBVIOUS
  <1>6. calls \in [Tasks -> Seq(Call)] /\ calls' \in [Tasks -> Seq(Call)]
    BY DEF CallTypes
  <1>7. \A t \in Tasks : (1 .. Len(calls[t])) \in SUBSET Nat /\ (1 .. Len(calls'[t])) \in SUBSET Nat
    BY <1>5, <1>6
  <1>8. AllOpen \in Families
    <2>1. AllOpen \in [Tasks -> SUBSET Nat] /\ \A q \in Tasks : AllOpen[q] = Open(q)
      BY <1>1, <1>7, Zenon DEF AllOpen
    <2> QED BY <1>1, <1>6, <2>1, FamilyIs
  <1>9. AllOpen' \in Families
    <2>1. AllOpen' \in [Tasks -> SUBSET Nat] /\ \A q \in Tasks : AllOpen'[q] = Open(q)'
      BY <1>2, <1>7, Zenon DEF AllOpen
    <2> QED BY <1>2, <1>6, <2>1, FamilyIs
  <1>10. ASSUME NEW n PROVE AllBooked(n) \in Families
    <2>1. AllBooked(n) \in [Tasks -> SUBSET Nat] /\ \A q \in Tasks : AllBooked(n)[q] = Booked(q, n)
      BY <1>3, <1>7, Zenon DEF AllBooked
    <2> QED BY <1>3, <1>6, <2>1, FamilyIs, ZenonT(60)
  <1>11. ASSUME NEW n PROVE AllBooked(n)' \in Families
    <2> DEFINE G == AllBooked(n)'
    <2>1. G \in [Tasks -> SUBSET Nat] /\ \A q \in Tasks : G[q] = Booked(q, n)'
      BY <1>4, <1>7, Zenon DEF AllBooked
    <2>2. \A q \in Tasks : G[q] \in SUBSET (1 .. Len(calls'[q]))
      BY <1>4, <2>1, Zenon
    <2> HIDE DEF G
    <2>3. G \in Families
      BY <1>6, <2>1, <2>2, FamilyIs
    <2> QED BY <2>3 DEF G
  <1> QED BY <1>8, <1>9, <1>10, <1>11, Zenon

(* A step of one task.                                                     *)
Others(t) == \A q \in Tasks : q # t => task'[q] = task[q] /\ calls'[q] = calls[q]

LEMMA Counts ==
    ASSUME CallTypes, CallTypes', NEW t \in Tasks, Others(t)
    PROVE  /\ Total(AllOpen) \in Nat /\ Total(AllOpen)' \in Nat
           /\ Cardinality(Open(t)) \in Nat /\ Cardinality(Open(t)') \in Nat
           /\ Total(AllOpen)' + Cardinality(Open(t)) = Total(AllOpen) + Cardinality(Open(t)')
           /\ \A n : /\ Total(AllBooked(n)) \in Nat /\ Total(AllBooked(n))' \in Nat
                     /\ Cardinality(Booked(t, n)) \in Nat /\ Cardinality(Booked(t, n)') \in Nat
                     /\ Total(AllBooked(n))' + Cardinality(Booked(t, n))
                            = Total(AllBooked(n)) + Cardinality(Booked(t, n)')
  <1>1. /\ AllOpen[t] = Open(t) /\ AllOpen'[t] = Open(t)'
        /\ \A q \in Tasks : q # t => AllOpen'[q] = AllOpen[q]
    BY Zenon DEF AllOpen, Open, Others
  <1>2. ASSUME NEW n
        PROVE  /\ AllBooked(n)[t] = Booked(t, n) /\ AllBooked(n)'[t] = Booked(t, n)'
               /\ \A q \in Tasks : q # t => AllBooked(n)'[q] = AllBooked(n)[q]
    BY Zenon DEF AllBooked, Booked, Others, ToolOf
  <1>3. ASSUME NEW F \in Families, NEW G \in Families, \A q \in Tasks : q # t => G[q] = F[q]
        PROVE  /\ Total(F) \in Nat /\ Total(G) \in Nat
               /\ Cardinality(F[t]) \in Nat /\ Cardinality(G[t]) \in Nat
               /\ Total(G) + Cardinality(F[t]) = Total(F) + Cardinality(G[t])
    BY <1>3, TotalChange
  <1>4. /\ Total(AllOpen) \in Nat /\ Total(AllOpen)' \in Nat
        /\ Cardinality(Open(t)) \in Nat /\ Cardinality(Open(t)') \in Nat
        /\ Total(AllOpen)' + Cardinality(Open(t)) = Total(AllOpen) + Cardinality(Open(t)')
    BY <1>1, <1>3, OpenFamily, Zenon DEF Total, Pairs
  <1>5. ASSUME NEW n
        PROVE  /\ Total(AllBooked(n)) \in Nat /\ Total(AllBooked(n))' \in Nat
               /\ Cardinality(Booked(t, n)) \in Nat /\ Cardinality(Booked(t, n)') \in Nat
               /\ Total(AllBooked(n))' + Cardinality(Booked(t, n))
                            = Total(AllBooked(n)) + Cardinality(Booked(t, n)')
    <2> DEFINE F == AllBooked(n)
               G == AllBooked(n)'
    <2>1. F \in Families /\ G \in Families
      BY OpenFamily, Zenon
    <2>2. /\ \A q \in Tasks : q # t => G[q] = F[q]
          /\ F[t] = Booked(t, n) /\ G[t] = Booked(t, n)'
      BY <1>2, Zenon
    <2>3. Total(AllBooked(n)) = Total(F) /\ Total(AllBooked(n))' = Total(G)
      BY Zenon DEF Total, Pairs
    <2> HIDE DEF F, G
    <2>4. /\ Total(F) \in Nat /\ Total(G) \in Nat
          /\ Cardinality(F[t]) \in Nat /\ Cardinality(G[t]) \in Nat
          /\ Total(G) + Cardinality(F[t]) = Total(F) + Cardinality(G[t])
      BY <1>3, <2>1, <2>2, Zenon
    <2> QED BY <2>2, <2>3, <2>4, Zenon
  <1> QED BY <1>4, <1>5, Zenon

-----------------------------------------------------------------------------
(* What a step of one task has to show of each part of the invariant.      *)

Beginning(t) == task[t].pc \in {"create", "backoff"}

LEMMA StartingStep ==
    ASSUME NEW t \in Tasks, Others(t)
    PROVE  /\ Cardinality(Starting) \in Nat /\ Cardinality(Starting') \in Nat
           /\ (Beginning(t)' <=> Beginning(t)) => Cardinality(Starting') = Cardinality(Starting)
           /\ ~Beginning(t) /\ Beginning(t)' => Cardinality(Starting') = Cardinality(Starting) + 1
           /\ Beginning(t) /\ ~Beginning(t)' => Cardinality(Starting) = Cardinality(Starting') + 1
  <1> DEFINE A == Starting
             B == Starting'
  <1>1. IsFiniteSet(A) /\ IsFiniteSet(B)
    <2>1. A \in SUBSET Tasks /\ B \in SUBSET Tasks
      BY Zenon DEF Starting
    <2>2. IsFiniteSet(Tasks)
      BY AgentLoopAssumption
    <2> HIDE DEF A, B
    <2> QED BY <2>1, <2>2, FS_Subset
  <1>2. /\ t \in A <=> Beginning(t)
        /\ t \in B <=> Beginning(t)'
        /\ \A q \in Tasks : q # t => (q \in B <=> q \in A)
        /\ A \in SUBSET Tasks /\ B \in SUBSET Tasks
    BY Zenon DEF Starting, Beginning, Others
  <1> HIDE DEF A, B
  <1>3. (Beginning(t)' <=> Beginning(t)) => B = A
    BY <1>2
  <1>4. ~Beginning(t) /\ Beginning(t)' => B = A \cup {t} /\ t \notin A
    BY <1>2
  <1>5. Beginning(t) /\ ~Beginning(t)' => A = B \cup {t} /\ t \notin B
    BY <1>2
  <1>6. Cardinality(A) \in Nat /\ Cardinality(B) \in Nat
    BY <1>1, FS_CardinalityType
  <1>7. /\ t \notin A => Cardinality(A \cup {t}) = Cardinality(A) + 1
        /\ t \notin B => Cardinality(B \cup {t}) = Cardinality(B) + 1
    BY <1>1, FS_AddElement
  <1>8. (Beginning(t)' <=> Beginning(t)) => Cardinality(B) = Cardinality(A)
    BY <1>3
  <1>9. ~Beginning(t) /\ Beginning(t)' => Cardinality(B) = Cardinality(A) + 1
    BY <1>4, <1>7
  <1>10. Beginning(t) /\ ~Beginning(t)' => Cardinality(A) = Cardinality(B) + 1
    BY <1>5, <1>7
  <1> QED BY <1>6, <1>8, <1>9, <1>10 DEF A, B

LEMMA NumberTypes ==
    ASSUME BudgetTypeOK, HistoryTypes
    PROVE  /\ \A r \in Resources : usage[r] \in Nat /\ Limits[r] \in Nat
           /\ \A n \in Tools : tools[n].calls \in Nat
           /\ history.executed \in Nat /\ history.spawned \in Nat
           /\ \A n \in Tools : history.ran[n] \in Nat
           /\ \A q \in Tasks : history.over[q] \in Nat
  BY BudgetAssumption DEF BudgetTypeOK, HistoryTypes, ToolBudget

LEMMA NumberTypesNext ==
    ASSUME BudgetTypeOK', HistoryTypes'
    PROVE  /\ \A r \in Resources : usage'[r] \in Nat
           /\ \A n \in Tools : tools'[n].calls \in Nat
           /\ history'.executed \in Nat /\ history'.spawned \in Nat
           /\ \A n \in Tools : history'.ran[n] \in Nat
           /\ \A q \in Tasks : history'.over[q] \in Nat
  BY DEF BudgetTypeOK, HistoryTypes, ToolBudget

Numbers == BudgetTypeOK /\ HistoryTypes /\ CallTypes

LEMMA ReservedStep ==
    ASSUME Numbers, Numbers', NEW t \in Tasks, Others(t), Reserved,
           history'.executed + Cardinality(Open(t)') + usage["toolCalls"]
               <= history.executed + Cardinality(Open(t)) + usage'["toolCalls"],
           usage'["subAgents"] + history.spawned + Cardinality(Starting)
               = usage["subAgents"] + history'.spawned + Cardinality(Starting'),
           \A r \in Resources \ {"cost"} :
               usage'[r] <= usage[r] \/ (Limits[r] > 0 => usage'[r] <= Limits[r])
    PROVE  Reserved'
  <1> DEFINE o == Total(AllOpen)
             oo == Total(AllOpen)'
             c == Cardinality(Open(t))
             cc == Cardinality(Open(t)')
             x == history.executed
             xx == history'.executed
             u == usage["toolCalls"]
             uu == usage'["toolCalls"]
             s == Cardinality(Starting)
             ss == Cardinality(Starting')
  <1>1. "toolCalls" \in Resources /\ "subAgents" \in Resources
    BY DEF Resources
  <1>2. /\ x \in Nat /\ xx \in Nat /\ u \in Nat /\ uu \in Nat
        /\ usage["subAgents"] \in Nat /\ usage'["subAgents"] \in Nat
        /\ history.spawned \in Nat /\ history'.spawned \in Nat
    BY <1>1, NumberTypes, NumberTypesNext DEF Numbers
  <1>3. o \in Nat /\ oo \in Nat /\ c \in Nat /\ cc \in Nat /\ oo + c = o + cc
    BY Counts DEF Numbers
  <1>4. s \in Nat /\ ss \in Nat
    BY StartingStep
  <1>5. x + o <= u /\ usage["subAgents"] = history.spawned + s
    BY DEF Reserved
  <1>6. xx + cc + u <= x + c + uu
    OBVIOUS
  <1>7. usage'["subAgents"] + history.spawned + s = usage["subAgents"] + history'.spawned + ss
    OBVIOUS
  <1> HIDE DEF o, oo, c, cc, x, xx, u, uu, s, ss
  <1>8. xx + oo <= uu
    BY <1>2, <1>3, <1>5, <1>6
  <1>9. usage'["subAgents"] = history'.spawned + ss
    BY <1>2, <1>4, <1>5, <1>7
  <1>10. ASSUME NEW r \in Resources \ {"cost"}, Limits[r] > 0
         PROVE  usage'[r] <= Limits[r]
    <2>1. usage[r] <= Limits[r]
      BY <1>10 DEF Reserved
    <2>2. usage[r] \in Nat /\ usage'[r] \in Nat /\ Limits[r] \in Nat
      BY NumberTypes, NumberTypesNext DEF Numbers
    <2> QED BY <1>10, <2>1, <2>2
  <1> QED BY <1>8, <1>9, <1>10 DEF Reserved, oo, xx, uu, ss

LEMMA ToolsStep ==
    ASSUME Numbers, Numbers', NEW t \in Tasks, Others(t), ToolsReserved,
           \A n \in Tools : ToolBudgets[n] # {} =>
               /\ history'.ran[n] + Cardinality(Booked(t, n)') + tools[n].calls
                      <= history.ran[n] + Cardinality(Booked(t, n)) + tools'[n].calls
               /\ \/ tools'[n].calls <= tools[n].calls
                  \/ \A b \in ToolBudgets[n] : b.calls > 0 => tools'[n].calls <= b.calls
    PROVE  ToolsReserved'
  <1> SUFFICES ASSUME NEW n \in Tools, ToolBudgets[n] # {}
               PROVE  /\ history'.ran[n] + Total(AllBooked(n))' <= tools'[n].calls
                      /\ \A b \in ToolBudgets[n] : b.calls > 0 => tools'[n].calls <= b.calls
    BY Zenon DEF ToolsReserved
  <1> DEFINE o == Total(AllBooked(n))
             oo == Total(AllBooked(n))'
             c == Cardinality(Booked(t, n))
             cc == Cardinality(Booked(t, n)')
             x == history.ran[n]
             xx == history'.ran[n]
             u == tools[n].calls
             uu == tools'[n].calls
  <1>1. x \in Nat /\ xx \in Nat /\ u \in Nat /\ uu \in Nat
    BY NumberTypes, NumberTypesNext DEF Numbers
  <1>2. o \in Nat /\ oo \in Nat /\ c \in Nat /\ cc \in Nat /\ oo + c = o + cc
    BY Counts, Zenon DEF Numbers
  <1>3. x + o <= u /\ \A b \in ToolBudgets[n] : b.calls > 0 => u <= b.calls
    BY Zenon DEF ToolsReserved
  <1>4. /\ xx + cc + u <= x + c + uu
        /\ uu <= u \/ \A b \in ToolBudgets[n] : b.calls > 0 => uu <= b.calls
    BY Zenon
  <1>5. \A b \in ToolBudgets[n] : b.calls \in Nat
    BY BudgetAssumption DEF ToolBudget
  <1> HIDE DEF o, oo, c, cc, x, xx, u, uu
  <1>6. xx + oo <= uu
    BY <1>1, <1>2, <1>3, <1>4
  <1>7. \A b \in ToolBudgets[n] : b.calls > 0 => uu <= b.calls
    BY <1>1, <1>3, <1>4, <1>5
  <1> QED BY <1>6, <1>7 DEF oo, xx, uu

LEMMA OpenFinite ==
    ASSUME CallTypes, NEW t \in Tasks
    PROVE  /\ IsFiniteSet(Open(t)) /\ Cardinality(Open(t)) \in Nat
           /\ \A n : IsFiniteSet(Booked(t, n)) /\ Cardinality(Booked(t, n)) \in Nat
           /\ IsFiniteSet(1 .. Len(calls[t]))
           /\ Cardinality(1 .. Len(calls[t])) = Len(calls[t]) /\ Len(calls[t]) \in Nat
  <1> DEFINE D == 1 .. Len(calls[t])
  <1>1. Len(calls[t]) \in Nat
    BY DEF CallTypes
  <1>2. IsFiniteSet(D) /\ Cardinality(D) = Len(calls[t])
    BY <1>1, FS_Interval
  <1>3. Open(t) \in SUBSET D
    BY Zenon DEF Open
  <1>4. \A n : Booked(t, n) \in SUBSET D
    BY Zenon DEF Booked
  <1> HIDE DEF D
  <1>5. \A T \in SUBSET D : IsFiniteSet(T) /\ Cardinality(T) \in Nat
    BY <1>2, FS_Subset, FS_CardinalityType
  <1>6. IsFiniteSet(Open(t)) /\ Cardinality(Open(t)) \in Nat
    BY <1>3, <1>5, Zenon
  <1>7. \A n : IsFiniteSet(Booked(t, n)) /\ Cardinality(Booked(t, n)) \in Nat
    BY <1>4, <1>5, Zenon
  <1> QED BY <1>1, <1>2, <1>6, <1>7, Zenon DEF D

LEMMA OpenShrinks ==
    ASSUME CallTypes, NEW t \in Tasks
    PROVE  /\ \A T : T \subseteq Open(t) =>
                  Cardinality(T) \in Nat /\ Cardinality(T) <= Cardinality(Open(t))
           /\ \A n : \A T : T \subseteq Booked(t, n) =>
                  Cardinality(T) \in Nat /\ Cardinality(T) <= Cardinality(Booked(t, n))
  <1>1. ASSUME NEW T, NEW S, IsFiniteSet(S), T \subseteq S
        PROVE  Cardinality(T) \in Nat /\ Cardinality(T) <= Cardinality(S)
    <2>1. IsFiniteSet(T) /\ Cardinality(T) <= Cardinality(S)
      BY <1>1, FS_Subset
    <2> QED BY <2>1, FS_CardinalityType
  <1> QED BY <1>1, OpenFinite, Zenon

(* A step that counts nothing and opens nothing.                           *)
Uncounted ==
    /\ \A r \in Resources \ {"cost"} : usage'[r] = usage[r]
    /\ \A n \in Tools : tools'[n].calls = tools[n].calls
    /\ history'.executed = history.executed /\ history'.spawned = history.spawned
    /\ history'.ran = history.ran

LEMMA CalmStep ==
    ASSUME Numbers, Numbers', NEW t \in Tasks, Others(t), Reserved, ToolsReserved,
           Uncounted, Beginning(t)' <=> Beginning(t), Open(t)' \subseteq Open(t),
           \A n \in Tools : ToolBudgets[n] # {} => Booked(t, n)' \subseteq Booked(t, n)
    PROVE  Reserved' /\ ToolsReserved'
  <1>1. Cardinality(Open(t)') \in Nat /\ Cardinality(Open(t)') <= Cardinality(Open(t))
        /\ Cardinality(Open(t)) \in Nat
    BY OpenShrinks, OpenFinite DEF Numbers
  <1>2. \A r \in Resources : usage[r] \in Nat /\ usage'[r] \in Nat
    BY NumberTypes, NumberTypesNext DEF Numbers
  <1>3. history.executed \in Nat /\ history.spawned \in Nat
    BY NumberTypes DEF Numbers
  <1>4. Cardinality(Starting') = Cardinality(Starting) /\ Cardinality(Starting) \in Nat
    BY StartingStep
  <1>5. "toolCalls" \in Resources \ {"cost"} /\ "subAgents" \in Resources \ {"cost"}
    BY DEF Resources
  <1> DEFINE c == Cardinality(Open(t))
             cc == Cardinality(Open(t)')
             s == Cardinality(Starting)
             ss == Cardinality(Starting')
  <1>6. c \in Nat /\ cc \in Nat /\ cc <= c /\ s \in Nat /\ ss = s
    BY <1>1, <1>4
  <1> HIDE DEF c, cc, s, ss
  <1>7. history'.executed + cc + usage["toolCalls"] <= history.executed + c + usage'["toolCalls"]
    BY <1>2, <1>3, <1>5, <1>6 DEF Uncounted
  <1>8. usage'["subAgents"] + history.spawned + s = usage["subAgents"] + history'.spawned + ss
    BY <1>2, <1>3, <1>5, <1>6 DEF Uncounted
  <1>9. \A r \in Resources \ {"cost"} : usage'[r] <= usage[r]
    BY <1>2 DEF Uncounted
  <1>10. Reserved'
    BY <1>7, <1>8, <1>9, ReservedStep DEF c, cc, s, ss
  <1>11. ASSUME NEW n \in Tools, ToolBudgets[n] # {}
         PROVE  /\ history'.ran[n] + Cardinality(Booked(t, n)') + tools[n].calls
                      <= history.ran[n] + Cardinality(Booked(t, n)) + tools'[n].calls
                /\ tools'[n].calls <= tools[n].calls
    <2> DEFINE d == Cardinality(Booked(t, n))
               dd == Cardinality(Booked(t, n)')
               x == tools[n].calls
               y == tools'[n].calls
               z == history.ran[n]
               zz == history'.ran[n]
    <2>1. d \in Nat /\ dd \in Nat /\ dd <= d
      <3>1. Booked(t, n)' \subseteq Booked(t, n)
        BY <1>11
      <3> QED BY <3>1, OpenShrinks, OpenFinite, Zenon DEF Numbers
    <2>2. x \in Nat /\ z \in Nat /\ y = x /\ zz = z
      BY NumberTypes DEF Numbers, Uncounted
    <2> HIDE DEF d, dd, x, y, z, zz
    <2>3. zz + dd + x <= z + d + y /\ y <= x
      BY <2>1, <2>2
    <2> QED BY <2>3 DEF d, dd, x, y, z, zz
  <1>12. ToolsReserved'
    BY <1>11, ToolsStep
  <1> QED BY <1>10, <1>12

LEMMA OthersOK ==
    ASSUME \A q \in Tasks : TaskOK(q), NEW t \in Tasks, Others(t), TaskOK(t)'
    PROVE  \A q \in Tasks : TaskOK(q)'
  <1> SUFFICES ASSUME NEW q \in Tasks, q # t PROVE TaskOK(q)'
    BY Zenon
  <1>1. task'[q] = task[q] /\ calls'[q] = calls[q] /\ TaskOK(q)
    BY Zenon DEF Others
  <1>2. InAttempt(q)' <=> InAttempt(q)
    BY <1>1, Zenon DEF InAttempt
  <1>3. ASSUME NEW j PROVE CallOK(q, j)' <=> CallOK(q, j)
    BY <1>1, Zenon DEF CallOK
  <1>4. /\ Len(calls'[q]) = Len(calls[q]) /\ task'[q].pc = task[q].pc
        /\ task'[q].idx = task[q].idx /\ task'[q].loops = task[q].loops
        /\ task'[q].attempt = task[q].attempt
    BY <1>1, Zenon
  <1> QED BY <1>1, <1>2, <1>3, <1>4 DEF TaskOK

LEMMA GatedStep ==
    ASSUME Gated, BudgetTypeOK, BudgetTypeOK', NEW t \in Tasks, Others(t),
           history'.over = history.over, gate' = gate, usage'["cost"] >= usage["cost"],
           task'[t].pc = "asking" <=> task[t].pc = "asking",
           task'[t].pc = "reserve" => task[t].pc = "reserve"
    PROVE  Gated'
  <1>1. PastThreshold => PastThreshold'
    <2>1. usage["cost"] \in Nat /\ usage'["cost"] \in Nat /\ ApproveAbove \in Nat
      BY AgentLoopAssumption DEF BudgetTypeOK, Resources
    <2> QED BY <2>1 DEF PastThreshold
  <1>2. \A q \in Tasks : (At(q, "asking")' <=> At(q, "asking")) /\ (At(q, "reserve")' => At(q, "reserve"))
    BY Zenon DEF At, Others
  <1>3. HumanAskedFirst'
    BY <1>2, Zenon DEF Gated, HumanAskedFirst
  <1> QED BY <1>1, <1>2, <1>3, Zenon DEF Gated

LEMMA TaskTypesStep ==
    ASSUME TaskTypes, NEW t \in Tasks, NEW p, NEW e, NEW l, NEW a, NEW i,
           TaskIs(t, p, e, l, a, i), l <= MaxToolLoops[t], a <= MaxAttempts[t]
    PROVE  TaskTypes'
  <1>1. ASSUME NEW q \in Tasks
        PROVE  task'[q].loops <= MaxToolLoops[q] /\ task'[q].attempt <= MaxAttempts[q]
    BY Zenon DEF TaskTypes, TaskIs
  <1>2. task' \in [Tasks -> TaskRecord]
    BY DEF TaskIs
  <1> QED BY <1>1, <1>2 DEF TaskTypes

LEMMA TheTask ==
    ASSUME TaskTypes, NEW t \in Tasks
    PROVE  /\ task \in [Tasks -> TaskRecord] /\ task[t].pc \in Places /\ task[t].err \in Errors
           /\ task[t].loops \in Nat /\ task[t].attempt \in Nat /\ task[t].idx \in Nat
           /\ task[t].loops <= MaxToolLoops[t] /\ task[t].attempt <= MaxAttempts[t]
           /\ MaxToolLoops[t] \in Nat \ {0} /\ MaxAttempts[t] \in Nat \ {0}
  BY AgentLoopAssumption DEF TaskTypes, TaskRecord

(* The loop detector, the gate and the contexts.                           *)
LEMMA DetectorStep ==
    ASSUME DetectorTypes, UNCHANGED <<ended, seen>>,
           UNCHANGED retries \/ ObserveRetry \/ retries' = 0, UNCHANGED faults \/ Fault
    PROVE  DetectorTypes'
  <1>1. retries' \in Nat
    BY DEF DetectorTypes, ObserveRetry
  <1>2. faults' \in 0 .. MaxFaults
    BY AgentLoopAssumption DEF DetectorTypes, Fault
  <1> QED BY <1>1, <1>2 DEF DetectorTypes

-----------------------------------------------------------------------------
(* Steps to a place where no group of calls is open.                       *)

Grouped == Preflight \cup Dispatch \cup {"approve"}
Away == Places \ (Grouped \cup {"tools"})

(* What a task has to be, to be at place p.                                *)
Fits(t, p, l, a) ==
    /\ p \in {"gate", "asking", "reserve", "chat", "replyAsk"} => l > 0
    /\ p \in {"stormAsk", "again", "backoff"} => a < MaxAttempts[t]

LEMMA NotRunning ==
    ASSUME NEW t \in Tasks, NEW j \in 1 .. Len(calls[t]), CallOK(t, j),
           task[t].pc \notin Dispatch
    PROVE  calls[t][j].st \in CallStates \ Running
  <1>1. calls[t][j].st \in Expected(task[t].pc, task[t].idx, j)
    BY Zenon DEF CallOK
  <1>2. Expected(task[t].pc, task[t].idx, j) \subseteq CallStates \ Running
    BY DEF Expected, Ready, CallStates, Running
  <1> QED BY <1>1, <1>2

LEMMA AwayStep ==
    ASSUME CallTypes, \A q \in Tasks : TaskOK(q), NEW t \in Tasks,
           NEW p \in Away, NEW e, NEW l, NEW a, NEW i,
           TaskIs(t, p, e, l, a, i), Fits(t, p, l, a),
           \A q \in Tasks : q # t => calls'[q] = calls[q],
           calls'[t] = <<>> \/ (calls'[t] = calls[t] /\ task[t].pc \notin Dispatch)
    PROVE  /\ Others(t) /\ \A q \in Tasks : TaskOK(q)'
           /\ Open(t)' = {} /\ \A n : Booked(t, n)' = {}
  <1>1. Others(t) /\ task'[t].pc = p /\ task'[t].loops = l /\ task'[t].attempt = a
    BY Zenon DEF Others, TaskIs
  <1>2. /\ p \notin Preflight /\ p \notin Dispatch /\ p # "approve" /\ p # "tools"
        /\ p # "dispatch" /\ p # "inline"
    BY DEF Away, Grouped, Dispatch
  <1>3. Open(t)' = {} /\ \A n : Booked(t, n)' = {}
    BY <1>1, <1>2 DEF Open, Booked
  <1>4. ASSUME NEW j \in 1 .. Len(calls'[t]) PROVE CallOK(t, j)'
    <2>1. CASE calls'[t] = <<>>
      BY <2>1
    <2>2. CASE calls'[t] = calls[t] /\ task[t].pc \notin Dispatch
      <3>1. CallOK(t, j)
        BY <2>2, Zenon DEF TaskOK
      <3>2. calls[t][j].st \in CallStates \ Running
        BY <2>2, <3>1, NotRunning
      <3>3. calls[t][j].st = "result" => calls[t][j].err \in Errors
        BY <3>1, Zenon DEF CallOK
      <3>4. calls'[t][j].st \in Expected(p, i, j)
        BY <1>2, <2>2, <3>2 DEF Expected
      <3>5. task'[t].idx = i
        BY Zenon DEF TaskIs
      <3> QED BY <1>1, <1>2, <2>2, <3>3, <3>4, <3>5, Zenon DEF CallOK
    <2> QED BY <2>1, <2>2
  <1>5. InAttempt(t)' /\ p # "loop" => l > 0
    <2>1. InAttempt(t)' => p \notin {"new", "create", "failed", "stormAsk", "again", "backoff", "done", "error"}
      BY <1>1 DEF InAttempt
    <2>2. p \in Places
      BY DEF Away
    <2> QED BY <1>2, <2>1, <2>2 DEF Places, Fits, Preflight
  <1>6. p \notin Preflight \cup {"inline"} /\ p \notin {"approve", "dispatch"}
    BY <1>2
  <1>7. TaskOK(t)'
    BY <1>1, <1>2, <1>4, <1>5, <1>6, Zenon DEF TaskOK, Fits
  <1>8. \A q \in Tasks : TaskOK(q)'
    BY <1>1, <1>7, OthersOK
  <1> QED BY <1>1, <1>3, <1>8

(* The usual one: no reservation, nothing about the gate.                  *)
LEMMA AwayKeeps ==
    ASSUME LoopInv, NEW t \in Tasks,
           NEW p \in Away \ {"asking", "reserve"}, NEW e, NEW l, NEW a, NEW i,
           TaskIs(t, p, e, l, a, i), Fits(t, p, l, a),
           l <= MaxToolLoops[t], a <= MaxAttempts[t],
           task[t].pc # "asking", p \in {"create", "backoff"} <=> Beginning(t),
           \A q \in Tasks : q # t => calls'[q] = calls[q],
           calls'[t] = <<>> \/ (calls'[t] = calls[t] /\ task[t].pc \notin Dispatch),
           CallTypes', DetectorTypes', BudgetTypeOK', UNCHANGED <<tools, gate, history>>,
           \A r \in Resources \ {"cost"} : usage'[r] = usage[r], usage'["cost"] >= usage["cost"]
    PROVE  LoopInv'
  <1>1. /\ Types /\ BudgetTypeOK /\ TaskTypes /\ CallTypes /\ HistoryTypes /\ GateTypes
        /\ (\A q \in Tasks : TaskOK(q)) /\ Reserved /\ ToolsReserved /\ Gated
    BY DEF LoopInv, Types
  <1>2. p \in Away /\ p # "asking" /\ p # "reserve"
    OBVIOUS
  <1>3. /\ Others(t) /\ \A q \in Tasks : TaskOK(q)'
        /\ Open(t)' = {} /\ \A n : Booked(t, n)' = {}
    BY <1>1, <1>2, AwayStep
  <1>4. task'[t].pc = p
    BY DEF TaskIs
  <1>5. HistoryTypes' /\ GateTypes' /\ TaskTypes'
    <2>1. TaskTypes'
      BY <1>1, TaskTypesStep
    <2> QED BY <1>1, <2>1 DEF HistoryTypes, GateTypes
  <1>6. Types'
    BY <1>5 DEF Types
  <1>7. Reserved' /\ ToolsReserved'
    <2>1. Beginning(t)' <=> Beginning(t)
      BY <1>4 DEF Beginning
    <2>2. Uncounted
      BY DEF Uncounted
    <2>3. Open(t)' \subseteq Open(t) /\ \A n \in Tools : Booked(t, n)' \subseteq Booked(t, n)
      BY <1>3
    <2>4. Numbers /\ Numbers'
      BY <1>1, <1>5 DEF Numbers
    <2> QED BY <1>1, <1>3, <2>1, <2>2, <2>3, <2>4, CalmStep
  <1>8. Gated'
    BY <1>1, <1>2, <1>3, <1>4, GatedStep
  <1> QED BY <1>3, <1>6, <1>7, <1>8 DEF LoopInv

(* Where the usage only grows in cost.                                     *)
CostOnly ==
    /\ BudgetTypeOK' /\ \A r \in Resources \ {"cost"} : usage'[r] = usage[r]
    /\ usage'["cost"] >= usage["cost"]

LEMMA SameUsage ==
    ASSUME BudgetTypeOK, UNCHANGED <<usage, tools>>
    PROVE  CostOnly
  <1>1. usage["cost"] \in Nat
    BY DEF BudgetTypeOK, Resources
  <1> QED BY <1>1 DEF CostOnly, BudgetTypeOK

LEMMA MoreCost ==
    ASSUME BudgetTypeOK, NEW c \in Nat, Commit(Amount("cost", c)), UNCHANGED tools
    PROVE  CostOnly
  <1>1. \A r \in Resources : usage[r] \in Nat
    BY DEF BudgetTypeOK
  <1>2. "cost" \in Resources
    BY DEF Resources
  <1>3. \A r \in Resources : usage'[r] = usage[r] + (IF r = "cost" THEN c ELSE 0)
    BY DEF Commit, Add, Amount
  <1>4. usage' \in [Resources -> Nat]
    BY <1>1 DEF Commit, Add, Amount
  <1>5. \A r \in Resources \ {"cost"} : usage'[r] = usage[r]
    BY <1>1, <1>3
  <1>6. usage'["cost"] >= usage["cost"]
    BY <1>1, <1>2, <1>3
  <1> QED BY <1>4, <1>5, <1>6 DEF CostOnly, BudgetTypeOK

LEMMA FailKeeps ==
    ASSUME LoopInv, NEW t \in Tasks, NEW e \in Errors, Fail(t, e),
           task[t].pc \notin Dispatch \cup {"asking", "create", "backoff"},
           UNCHANGED <<calls, tools, gate, history>>, DetectorTypes', CostOnly
    PROVE  LoopInv'
  <1>1. TaskTypes /\ CallTypes
    BY DEF LoopInv, Types
  <1>2. TaskIs(t, "failed", e, 0, task[t].attempt, 1)
    BY <1>1, TheTask, FailIs
  <1>3. /\ 0 <= MaxToolLoops[t] /\ task[t].attempt <= MaxAttempts[t]
    BY <1>1, TheTask
  <1>4. "failed" \in Away \ {"asking", "reserve"} /\ Fits(t, "failed", 0, task[t].attempt)
    BY DEF Away, Places, Grouped, Preflight, Dispatch, Fits
  <1>5. "failed" \in {"create", "backoff"} <=> Beginning(t)
    BY DEF Beginning
  <1>6. CallTypes'
    BY <1>1 DEF CallTypes
  <1>7. task[t].pc # "asking" /\ task[t].pc \notin Dispatch
    OBVIOUS
  <1> QED BY <1>2, <1>3, <1>4, <1>5, <1>6, <1>7, AwayKeeps DEF CostOnly

LEMMA GoKeeps ==
    ASSUME LoopInv, NEW t \in Tasks, NEW p \in Away \ {"asking", "reserve", "create", "backoff"},
           Go(t, p), Fits(t, p, task[t].loops, task[t].attempt),
           task[t].pc \notin Dispatch \cup {"asking", "create", "backoff"},
           UNCHANGED <<calls, tools, gate, history>>, DetectorTypes', CostOnly
    PROVE  LoopInv'
  <1>1. TaskTypes /\ CallTypes
    BY DEF LoopInv, Types
  <1>2. TaskIs(t, p, task[t].err, task[t].loops, task[t].attempt, task[t].idx)
    <2>1. p \in Places
      BY DEF Away
    <2> QED BY <1>1, <2>1, TheTask, GoIs
  <1>3. task[t].loops <= MaxToolLoops[t] /\ task[t].attempt <= MaxAttempts[t]
    BY <1>1, TheTask
  <1>4. p \in Away \ {"asking", "reserve"}
    OBVIOUS
  <1>5. p \in {"create", "backoff"} <=> Beginning(t)
    BY DEF Beginning
  <1>6. CallTypes'
    BY <1>1 DEF CallTypes
  <1>7. task[t].pc # "asking" /\ task[t].pc \notin Dispatch
    OBVIOUS
  <1> QED BY <1>2, <1>3, <1>4, <1>5, <1>6, <1>7, AwayKeeps DEF CostOnly

LEMMA ClearedTypes ==
    ASSUME CallTypes, NEW t \in Tasks, calls' = [calls EXCEPT ![t] = <<>>]
    PROVE  /\ CallTypes' /\ calls'[t] = <<>>
           /\ \A q \in Tasks : q # t => calls'[q] = calls[q]
  <1> DEFINE s == <<>>
  <1>1. s \in Seq(Call)
    OBVIOUS
  <1> HIDE DEF s
  <1>2. calls' = [calls EXCEPT ![t] = s]
    BY DEF s
  <1>3. CallTypes' /\ calls'[t] = s /\ \A q \in Tasks : q # t => calls'[q] = calls[q]
    BY <1>1, <1>2 DEF CallTypes
  <1> QED BY <1>3 DEF s

(* To the next round of the loop, with or without the group.               *)
LEMMA LoopKeeps ==
    ASSUME LoopInv, NEW t \in Tasks, task' = [task EXCEPT ![t] = AtLoop(t)],
           task[t].pc \in Dispatch \cup {"chat", "replyAsk"},
           \/ calls' = [calls EXCEPT ![t] = <<>>]
           \/ UNCHANGED calls /\ task[t].pc \notin Dispatch,
           UNCHANGED <<tools, gate, history>>, DetectorTypes', CostOnly
    PROVE  LoopInv'
  <1>1. TaskTypes /\ CallTypes /\ TaskOK(t)
    BY DEF LoopInv, Types
  <1>2. task[t].loops > 0
    <2>1. InAttempt(t) /\ task[t].pc # "loop"
      BY DEF InAttempt, Dispatch
    <2> QED BY <1>1, <2>1, Zenon DEF TaskOK
  <1>3. TaskIs(t, "loop", task[t].err, task[t].loops - 1, task[t].attempt, 1)
    BY <1>1, <1>2, TheTask, LoopIs
  <1>4. task[t].loops - 1 <= MaxToolLoops[t] /\ task[t].attempt <= MaxAttempts[t]
    BY <1>1, TheTask
  <1>5. /\ "loop" \in Away \ {"asking", "reserve"}
        /\ Fits(t, "loop", task[t].loops - 1, task[t].attempt)
    BY DEF Away, Places, Grouped, Preflight, Dispatch, Fits
  <1>6. "loop" \in {"create", "backoff"} <=> Beginning(t)
    BY DEF Beginning, Dispatch
  <1>7. CallTypes'
    BY <1>1, ClearedTypes DEF CallTypes
  <1>8. /\ \A q \in Tasks : q # t => calls'[q] = calls[q]
        /\ calls'[t] = <<>> \/ (calls'[t] = calls[t] /\ task[t].pc \notin Dispatch)
    BY <1>1 DEF CallTypes
  <1>9. task[t].pc # "asking"
    BY DEF Dispatch
  <1> QED BY <1>3, <1>4, <1>5, <1>6, <1>7, <1>8, <1>9, AwayKeeps DEF CostOnly

-----------------------------------------------------------------------------
(* runTask and agentLoop, the steps without a reservation.                 *)

LEMMA AttemptFailsKeeps ==
    ASSUME LoopInv, NEW t \in Tasks, AttemptFails(t)
    PROVE  LoopInv'
  <1>1. TaskTypes /\ CallTypes /\ DetectorTypes /\ BudgetTypeOK
    BY DEF LoopInv, Types
  <1>2. /\ task[t].pc = "failed" /\ UNCHANGED <<bvars, ended, gate, seen, faults, history>>
        /\ calls' = [calls EXCEPT ![t] = <<>>]
        /\ UNCHANGED retries \/ ObserveRetry
    BY Zenon DEF AttemptFails, At
  <1>3. PICK p \in {"error", "again", "stormAsk"} :
            Stop(t, p) /\ (p # "error" => task[t].attempt < MaxAttempts[t])
    <2>1. CASE ~retriesTask(t)
      BY <2>1, Zenon DEF AttemptFails
    <2>2. CASE retriesTask(t)
      <3>1. task[t].attempt < MaxAttempts[t]
        BY <2>2, Zenon DEF retriesTask
      <3>2. Stop(t, IF ~Storm THEN "again" ELSE IF LoopResponse = "approve" THEN "stormAsk" ELSE "error")
        BY <2>2, Zenon DEF AttemptFails
      <3>3. Stop(t, "again") \/ Stop(t, "stormAsk") \/ Stop(t, "error")
        BY <3>2, Zenon
      <3> QED BY <3>1, <3>3, Zenon
    <2> QED BY <2>1, <2>2
  <1>4. p \in Away \ {"asking", "reserve"} /\ p \in Places /\ p \notin {"create", "backoff"}
    BY DEF Away, Places, Grouped, Preflight, Dispatch
  <1>5. TaskIs(t, p, "none", task[t].loops, task[t].attempt, task[t].idx)
    BY <1>1, <1>3, <1>4, TheTask, StopIs
  <1>6. Fits(t, p, task[t].loops, task[t].attempt)
    BY <1>3 DEF Fits
  <1>7. task[t].loops <= MaxToolLoops[t] /\ task[t].attempt <= MaxAttempts[t]
    BY <1>1, TheTask
  <1>8. DetectorTypes' /\ CostOnly
    <2>1. UNCHANGED <<usage, tools>> /\ UNCHANGED <<ended, seen>> /\ UNCHANGED faults
      BY <1>2 DEF bvars
    <2> QED BY <1>1, <1>2, <2>1, DetectorStep, SameUsage
  <1>9. UNCHANGED <<tools, gate, history>>
    BY <1>2 DEF bvars
  <1>10. CallTypes' /\ calls'[t] = <<>> /\ \A q \in Tasks : q # t => calls'[q] = calls[q]
    BY <1>1, <1>2, ClearedTypes
  <1>11. task[t].pc # "asking" /\ (p \in {"create", "backoff"} <=> Beginning(t))
    BY <1>2, <1>4 DEF Beginning
  <1> QED BY <1>4, <1>5, <1>6, <1>7, <1>8, <1>9, <1>10, <1>11, AwayKeeps DEF CostOnly

LEMMA StormAnsweredKeeps ==
    ASSUME LoopInv, NEW t \in Tasks, StormAnswered(t)
    PROVE  LoopInv'
  <1>1. TaskTypes /\ CallTypes /\ DetectorTypes /\ BudgetTypeOK /\ TaskOK(t)
    BY DEF LoopInv, Types
  <1>2. /\ task[t].pc = "stormAsk" /\ UNCHANGED <<bvars, ended, calls, gate, seen, history>>
        /\ retries' = 0 \/ UNCHANGED retries
        /\ Go(t, "again") \/ Go(t, "error")
    BY Zenon DEF StormAnswered, At
  <1>3. UNCHANGED faults \/ Fault
    BY Zenon DEF StormAnswered, Awaited
  <1>4. task[t].attempt < MaxAttempts[t]
    BY <1>1, <1>2 DEF TaskOK
  <1>5. PICK p \in {"again", "error"} : Go(t, p)
    BY <1>2
  <1>6. p \in Away \ {"asking", "reserve", "create", "backoff"}
    BY DEF Away, Places, Grouped, Preflight, Dispatch
  <1>7. Fits(t, p, task[t].loops, task[t].attempt)
    BY <1>4 DEF Fits
  <1>8. UNCHANGED <<usage, tools>> /\ UNCHANGED <<ended, seen>> /\ UNCHANGED <<calls, tools, gate, history>>
    BY <1>2 DEF bvars
  <1>9. DetectorTypes' /\ CostOnly
    BY <1>1, <1>2, <1>3, <1>8, DetectorStep, SameUsage
  <1>10. task[t].pc \notin Dispatch \cup {"asking", "create", "backoff"}
    BY <1>2 DEF Dispatch
  <1> QED BY <1>5, <1>6, <1>7, <1>8, <1>9, <1>10, GoKeeps

(* A failure of a task that is neither at the gate nor in a group.         *)
LEMMA QuietFail ==
    ASSUME LoopInv, NEW t \in Tasks, NEW e \in Errors, Fail(t, e),
           task[t].pc \in {"loop", "gate", "chat", "replyAsk", "tools", "reserve", "approve"},
           UNCHANGED <<calls, tools, gate, history, ended, seen, retries>>,
           UNCHANGED faults \/ Fault,
           UNCHANGED usage \/ \E c \in Nat : Commit(Amount("cost", c))
    PROVE  LoopInv'
  <1>1. DetectorTypes /\ BudgetTypeOK
    BY DEF LoopInv, Types
  <1>2. task[t].pc \notin Dispatch \cup {"asking", "create", "backoff"}
    BY DEF Dispatch
  <1>3. UNCHANGED <<usage, tools>> \/ (UNCHANGED tools /\ \E c \in Nat : Commit(Amount("cost", c)))
    OBVIOUS
  <1>4. CostOnly
    BY <1>1, <1>3, SameUsage, MoreCost
  <1>5. UNCHANGED <<ended, seen>> /\ UNCHANGED <<calls, tools, gate, history>> /\ UNCHANGED retries
    OBVIOUS
  <1>6. DetectorTypes'
    BY <1>1, <1>5, DetectorStep
  <1> QED BY <1>2, <1>4, <1>5, <1>6, FailKeeps

LEMMA FailuresKeep ==
    ASSUME LoopInv, NEW t \in Tasks,
           Capabilities(t) \/ LoopsUsedUp(t) \/ GateContextEnds(t) \/ ChatFails(t)
    PROVE  LoopInv'
  <1>1. CASE Capabilities(t)
    <2>1. PICK e \in {"retryable", "final"} : Fail(t, e)
      BY <1>1, Zenon DEF Capabilities
    <2>2. e \in Errors /\ task[t].pc = "loop" /\ Fault /\ UNCHANGED usage
          /\ UNCHANGED <<calls, tools, gate, history, ended, seen, retries>>
      BY <1>1 DEF Capabilities, At, Errors, bvars
    <2> QED BY <2>1, <2>2, QuietFail
  <1>2. CASE LoopsUsedUp(t)
    <2>1. /\ Fail(t, "retryable") /\ "retryable" \in Errors /\ task[t].pc = "loop"
          /\ UNCHANGED faults /\ UNCHANGED usage
          /\ UNCHANGED <<calls, tools, gate, history, ended, seen, retries>>
      BY <1>2 DEF LoopsUsedUp, At, Errors, shared
    <2> QED BY <2>1, QuietFail
  <1>3. CASE GateContextEnds(t)
    <2>1. /\ Fail(t, "retryable") /\ "retryable" \in Errors /\ task[t].pc = "gate"
          /\ UNCHANGED faults /\ UNCHANGED usage
          /\ UNCHANGED <<calls, tools, gate, history, ended, seen, retries>>
      BY <1>3 DEF GateContextEnds, At, Errors, shared
    <2> QED BY <2>1, QuietFail
  <1>4. CASE ChatFails(t)
    <2>1. /\ Fail(t, "retryable") /\ "retryable" \in Errors /\ task[t].pc = "chat"
          /\ UNCHANGED faults \/ Fault
          /\ UNCHANGED usage
          /\ UNCHANGED <<calls, tools, gate, history, ended, seen, retries>>
      BY <1>4 DEF ChatFails, At, Errors, bvars
    <2> QED BY <2>1, QuietFail
  <1> QED BY <1>1, <1>2, <1>3, <1>4

LEMMA CommittedIs ==
    ASSUME LoopInv, NEW t \in Tasks, NEW c \in ModelCosts, Committed(t, c)
    PROVE  /\ task[t].pc = "chat" /\ c \in Nat /\ Commit(Amount("cost", c)) /\ CostOnly
           /\ UNCHANGED <<tools, gate, history, ended, seen, retries>> /\ UNCHANGED faults
           /\ DetectorTypes' /\ task[t].loops > 0
  <1>1. DetectorTypes /\ BudgetTypeOK /\ TaskOK(t)
    BY DEF LoopInv, Types
  <1>2. c \in Nat
    BY AgentLoopAssumption
  <1>3. /\ task[t].pc = "chat" /\ Commit(Amount("cost", c)) /\ UNCHANGED faults
        /\ UNCHANGED <<tools, gate, history, ended, seen, retries>>
    BY DEF Committed, At
  <1>4. CostOnly
    BY <1>1, <1>2, <1>3, MoreCost
  <1>5. DetectorTypes'
    BY <1>1, <1>3, DetectorStep
  <1>6. InAttempt(t) /\ task[t].pc # "loop"
    BY <1>3 DEF InAttempt
  <1>7. task[t].loops > 0
    BY <1>1, <1>6, Zenon DEF TaskOK
  <1> QED BY <1>2, <1>3, <1>4, <1>5, <1>7

LEMMA ChatKeeps ==
    ASSUME LoopInv, NEW t \in Tasks, ChatPastLimit(t) \/ ChatAnswers(t) \/ AnswerRejected(t)
    PROVE  LoopInv'
  <1>1. PICK c \in ModelCosts :
            /\ Committed(t, c) /\ UNCHANGED calls
            /\ \/ Fail(t, "final")
               \/ Go(t, "done")
               \/ Go(t, "replyAsk")
               \/ task' = [task EXCEPT ![t] = AtLoop(t)]
    <2>1. CASE ChatPastLimit(t)
      BY <2>1, Zenon DEF ChatPastLimit
    <2>2. CASE ChatAnswers(t)
      BY <2>2, Zenon DEF ChatAnswers
    <2>3. CASE AnswerRejected(t)
      BY <2>3, Zenon DEF AnswerRejected
    <2> QED BY <2>1, <2>2, <2>3
  <1>2. /\ task[t].pc = "chat" /\ CostOnly
        /\ UNCHANGED <<tools, gate, history>>
        /\ DetectorTypes' /\ task[t].loops > 0
    BY <1>1, CommittedIs
  <1>3. /\ task[t].pc \notin Dispatch \cup {"asking", "create", "backoff"}
        /\ task[t].pc \in Dispatch \cup {"chat", "replyAsk"} /\ task[t].pc \notin Dispatch
        /\ UNCHANGED <<calls, tools, gate, history>> /\ "final" \in Errors
    BY <1>1, <1>2 DEF Dispatch, Errors
  <1>4. \A p \in {"done", "replyAsk"} :
            /\ p \in Away \ {"asking", "reserve", "create", "backoff"}
            /\ Fits(t, p, task[t].loops, task[t].attempt)
    BY <1>2 DEF Away, Places, Grouped, Preflight, Dispatch, Fits
  <1>5. CASE Fail(t, "final")
    BY <1>2, <1>3, <1>5, FailKeeps
  <1>6. CASE Go(t, "done")
    BY <1>2, <1>3, <1>4, <1>6, GoKeeps
  <1>7. CASE Go(t, "replyAsk")
    BY <1>2, <1>3, <1>4, <1>7, GoKeeps
  <1>8. CASE task' = [task EXCEPT ![t] = AtLoop(t)]
    BY <1>1, <1>2, <1>3, <1>8, LoopKeeps
  <1> QED BY <1>1, <1>5, <1>6, <1>7, <1>8

LEMMA ReplyAnsweredKeeps ==
    ASSUME LoopInv, NEW t \in Tasks, ReplyLoopAnswered(t)
    PROVE  LoopInv'
  <1>1. DetectorTypes /\ BudgetTypeOK
    BY DEF LoopInv, Types
  <1>2. /\ task[t].pc = "replyAsk" /\ UNCHANGED usage
        /\ UNCHANGED <<calls, tools, gate, history, ended, seen, retries>>
    BY DEF ReplyLoopAnswered, At, bvars
  <1>3. PICK outcome \in Outcomes :
           /\ Answered(t, outcome)
           /\ CASE outcome = "approved" -> task' = [task EXCEPT ![t] = AtLoop(t)]
                [] outcome = "denied" -> Fail(t, "final")
                [] outcome = "error" -> Fail(t, "retryable")
    BY Zenon DEF ReplyLoopAnswered
  <1>4. UNCHANGED faults \/ Fault
    BY <1>3, Zenon DEF Answered, Awaited
  <1>5. "final" \in Errors /\ "retryable" \in Errors
    BY DEF Errors
  <1>6. CASE outcome = "approved"
    <2>1. task' = [task EXCEPT ![t] = AtLoop(t)]
      BY <1>3, <1>6
    <2>2. UNCHANGED <<usage, tools>> /\ UNCHANGED <<ended, seen>> /\ UNCHANGED retries /\ UNCHANGED <<tools, gate, history>>
      BY <1>2
    <2>3. DetectorTypes' /\ CostOnly
      BY <1>1, <1>4, <2>2, DetectorStep, SameUsage
    <2>4. task[t].pc \in Dispatch \cup {"chat", "replyAsk"} /\ task[t].pc \notin Dispatch /\ UNCHANGED calls
      BY <1>2 DEF Dispatch
    <2> QED BY <2>1, <2>2, <2>3, <2>4, LoopKeeps
  <1>7. CASE outcome = "denied"
    <2>1. Fail(t, "final")
      BY <1>3, <1>7
    <2> QED BY <1>2, <1>4, <1>5, <2>1, QuietFail
  <1>8. CASE outcome = "error"
    <2>1. Fail(t, "retryable")
      BY <1>3, <1>8
    <2> QED BY <1>2, <1>4, <1>5, <2>1, QuietFail
  <1> QED BY <1>3, <1>6, <1>7, <1>8 DEF Outcomes

-----------------------------------------------------------------------------
(* Reservations of the run's budget.                                       *)

LEMMA ReserveIs ==
    ASSUME BudgetTypeOK, UNCHANGED tools, NEW s \in Resources, NEW n \in Nat,
           Reserve(Amount(s, n))
    PROVE  /\ BudgetTypeOK' /\ usage'[s] = usage[s] + n
           /\ \A r \in Resources : r # s => usage'[r] = usage[r]
           /\ \A r \in Resources : Limits[r] > 0 => usage'[r] <= Limits[r]
  <1>1. \A r \in Resources : usage[r] \in Nat
    BY DEF BudgetTypeOK
  <1>2. /\ usage' = [r \in Resources |-> usage[r] + (IF r = s THEN n ELSE 0)]
        /\ \A r \in Resources : Limits[r] > 0 => usage'[r] <= Limits[r]
    BY DEF Reserve, CanReserve, checkLimits, Add, Amount
  <1>3. usage' \in [Resources -> Nat]
    BY <1>1, <1>2
  <1>4. usage'[s] = usage[s] + n /\ \A r \in Resources : r # s => usage'[r] = usage[r]
    BY <1>1, <1>2
  <1> QED BY <1>2, <1>3, <1>4 DEF BudgetTypeOK

LEMMA ReleaseIs ==
    ASSUME BudgetTypeOK, UNCHANGED tools, NEW s \in Resources, NEW n \in Nat,
           n <= usage[s], Release(Amount(s, n))
    PROVE  /\ BudgetTypeOK' /\ usage[s] = usage'[s] + n
           /\ \A r \in Resources : r # s => usage'[r] = usage[r]
  <1>1. \A r \in Resources : usage[r] \in Nat
    BY DEF BudgetTypeOK
  <1> DEFINE m(r) == IF r = s THEN n ELSE 0
             left(r) == usage[r] - m(r)
  <1>2. \A r \in Resources : left(r) \in Int /\ left(r) >= 0
    BY <1>1
  <1>3. \A r \in Resources : usage'[r] = Max({0, left(r)})
    BY Zenon DEF Release, Amount
  <1>4. usage' = [r \in Resources |-> Max({0, left(r)})]
    BY Zenon DEF Release, Amount
  <1>5. left(s) = usage[s] - n /\ \A r \in Resources : r # s => left(r) = usage[r]
    BY <1>1
  <1> HIDE DEF left
  <1>6. \A r \in Resources : Max({0, left(r)}) \in Nat /\ Max({0, left(r)}) = left(r)
    BY <1>2, MaxZero
  <1>7. usage' \in [Resources -> Nat]
    BY <1>4, <1>6
  <1>8. usage'[s] = left(s) /\ \A r \in Resources : r # s => usage'[r] = left(r)
    BY <1>3, <1>6, Zenon
  <1>9. usage[s] = usage'[s] + n
    BY <1>1, <1>5, <1>8
  <1>10. \A r \in Resources : r # s => usage'[r] = usage[r]
    BY <1>5, <1>8
  <1> QED BY <1>7, <1>9, <1>10 DEF BudgetTypeOK

LEMMA SpawnedIs ==
    ASSUME HistoryTypes, history' = [history EXCEPT !.spawned = @ + 1]
    PROVE  /\ HistoryTypes' /\ history'.spawned = history.spawned + 1
           /\ history'.executed = history.executed /\ history'.ran = history.ran
           /\ history'.over = history.over
  <1> DEFINE n == history.spawned + 1
  <1>1. n \in Nat
    BY DEF HistoryTypes
  <1>2. history' = [history EXCEPT !.spawned = n]
    BY Zenon
  <1> HIDE DEF n
  <1>3. /\ HistoryTypes' /\ history'.spawned = n
        /\ history'.executed = history.executed /\ history'.ran = history.ran
        /\ history'.over = history.over
    BY <1>1, <1>2, Zenon DEF HistoryTypes
  <1> QED BY <1>3 DEF n

(* A step that may reserve or release a sub-agent, and nothing else.       *)
LEMMA SubAgentKeeps ==
    ASSUME LoopInv, NEW t \in Tasks,
           NEW p \in Away \ {"asking", "reserve"}, NEW e, NEW l, NEW a, NEW i,
           TaskIs(t, p, e, l, a, i), Fits(t, p, l, a),
           l <= MaxToolLoops[t], a <= MaxAttempts[t],
           task[t].pc \notin Dispatch \cup {"asking"}, UNCHANGED <<calls, tools, gate>>,
           BudgetTypeOK', HistoryTypes', DetectorTypes',
           \A r \in Resources : r # "subAgents" => usage'[r] = usage[r],
           \/ usage'["subAgents"] <= usage["subAgents"]
           \/ Limits["subAgents"] > 0 => usage'["subAgents"] <= Limits["subAgents"],
           usage'["subAgents"] + history.spawned + Cardinality(Starting)
               = usage["subAgents"] + history'.spawned + Cardinality(Starting'),
           history'.executed = history.executed, history'.ran = history.ran,
           history'.over = history.over
    PROVE  LoopInv'
  <1>1. /\ Types /\ BudgetTypeOK /\ TaskTypes /\ CallTypes /\ HistoryTypes /\ GateTypes
        /\ (\A q \in Tasks : TaskOK(q)) /\ Reserved /\ ToolsReserved /\ Gated
    BY DEF LoopInv, Types
  <1>2. p \in Away /\ p # "asking" /\ p # "reserve"
    OBVIOUS
  <1>3. /\ Others(t) /\ \A q \in Tasks : TaskOK(q)'
        /\ Open(t)' = {} /\ \A n : Booked(t, n)' = {}
    BY <1>1, <1>2, AwayStep
  <1>4. task'[t].pc = p
    BY DEF TaskIs
  <1>5. TaskTypes' /\ CallTypes' /\ GateTypes'
    <2>1. TaskTypes'
      BY <1>1, TaskTypesStep
    <2> QED BY <1>1, <2>1 DEF CallTypes, GateTypes
  <1>6. Types'
    BY <1>5 DEF Types
  <1>7. Numbers /\ Numbers'
    BY <1>1, <1>5 DEF Numbers
  <1>8. Cardinality(Open(t)') = 0 /\ Cardinality(Open(t)) \in Nat
    BY <1>1, <1>3, FS_EmptySet, OpenFinite
  <1>9. Reserved'
    <2>1. usage'["toolCalls"] = usage["toolCalls"] /\ usage["toolCalls"] \in Nat
      BY <1>7, NumberTypes DEF Numbers, Resources
    <2>2. history.executed \in Nat
      BY <1>7, NumberTypes DEF Numbers
    <2> DEFINE c == Cardinality(Open(t))
               cc == Cardinality(Open(t)')
    <2>3. c \in Nat /\ cc = 0
      BY <1>8
    <2> HIDE DEF c, cc
    <2>4. history'.executed + cc + usage["toolCalls"] <= history.executed + c + usage'["toolCalls"]
      BY <2>1, <2>2, <2>3
    <2>5. \A r \in Resources \ {"cost"} :
               usage'[r] <= usage[r] \/ (Limits[r] > 0 => usage'[r] <= Limits[r])
      BY <1>7, NumberTypes DEF Numbers
    <2> QED BY <1>1, <1>3, <1>7, <2>4, <2>5, ReservedStep DEF c, cc
  <1>10. ToolsReserved'
    <2>1. ASSUME NEW n \in Tools
          PROVE  /\ history'.ran[n] + Cardinality(Booked(t, n)') + tools[n].calls
                      <= history.ran[n] + Cardinality(Booked(t, n)) + tools'[n].calls
                 /\ tools'[n].calls <= tools[n].calls
      <3> DEFINE d == Cardinality(Booked(t, n))
                 dd == Cardinality(Booked(t, n)')
      <3>1. d \in Nat /\ dd = 0
        BY <1>1, <1>3, FS_EmptySet, OpenFinite
      <3>2. history.ran[n] \in Nat /\ tools[n].calls \in Nat
        BY <1>7, NumberTypes DEF Numbers
      <3> HIDE DEF d, dd
      <3>3. history'.ran[n] + dd + tools[n].calls <= history.ran[n] + d + tools'[n].calls
        BY <3>1, <3>2
      <3>4. tools'[n].calls <= tools[n].calls
        BY <3>2
      <3> QED BY <3>3, <3>4 DEF d, dd
    <2> QED BY <1>1, <1>3, <1>7, <2>1, ToolsStep
  <1>11. Gated'
    <2>1. usage'["cost"] = usage["cost"] /\ usage["cost"] \in Nat
      BY <1>7, NumberTypes DEF Numbers, Resources
    <2>2. usage'["cost"] >= usage["cost"]
      BY <2>1
    <2>3. (task'[t].pc = "asking" <=> task[t].pc = "asking") /\ task'[t].pc # "reserve"
      BY <1>2, <1>4
    <2> QED BY <1>1, <1>3, <2>2, <2>3, GatedStep
  <1> QED BY <1>3, <1>6, <1>9, <1>10, <1>11 DEF LoopInv

(* The sum a sub-agent step has to keep.                                   *)
LEMMA SubAgentSum ==
    ASSUME BudgetTypeOK, HistoryTypes, BudgetTypeOK', HistoryTypes', NEW t \in Tasks, Others(t),
           \/ /\ Beginning(t)' <=> Beginning(t)
              /\ usage'["subAgents"] = usage["subAgents"] /\ history'.spawned = history.spawned
           \/ /\ ~Beginning(t) /\ Beginning(t)'
              /\ usage'["subAgents"] = usage["subAgents"] + 1 /\ history'.spawned = history.spawned
           \/ /\ Beginning(t) /\ ~Beginning(t)'
              /\ usage["subAgents"] = usage'["subAgents"] + 1 /\ history'.spawned = history.spawned
           \/ /\ Beginning(t) /\ ~Beginning(t)'
              /\ usage'["subAgents"] = usage["subAgents"] /\ history'.spawned = history.spawned + 1
    PROVE  usage'["subAgents"] + history.spawned + Cardinality(Starting)
               = usage["subAgents"] + history'.spawned + Cardinality(Starting')
  <1> DEFINE s == Cardinality(Starting)
             ss == Cardinality(Starting')
             u == usage["subAgents"]
             uu == usage'["subAgents"]
             h == history.spawned
             hh == history'.spawned
             b == Beginning(t)
             bb == Beginning(t)'
  <1>1. /\ s \in Nat /\ ss \in Nat
        /\ (bb <=> b) => ss = s
        /\ ~b /\ bb => ss = s + 1
        /\ b /\ ~bb => s = ss + 1
    BY StartingStep
  <1>2. u \in Nat /\ uu \in Nat /\ h \in Nat /\ hh \in Nat
    BY NumberTypes, NumberTypesNext DEF Resources
  <1>3. \/ (bb <=> b) /\ uu = u /\ hh = h
        \/ ~b /\ bb /\ uu = u + 1 /\ hh = h
        \/ b /\ ~bb /\ u = uu + 1 /\ hh = h
        \/ b /\ ~bb /\ uu = u /\ hh = h + 1
    BY Zenon
  <1> HIDE DEF s, ss, u, uu, h, hh, b, bb
  <1>4. uu + h + s = u + hh + ss
    BY <1>1, <1>2, <1>3
  <1> QED BY <1>4 DEF s, ss, u, uu, h, hh

LEMMA BegunIsCounted ==
    ASSUME LoopInv, NEW t \in Tasks, Beginning(t)
    PROVE  1 <= usage["subAgents"]
  <1>1. BudgetTypeOK /\ HistoryTypes /\ usage["subAgents"] = history.spawned + Cardinality(Starting)
    BY DEF LoopInv, Types, Reserved
  <1>2. history.spawned \in Nat
    BY <1>1, NumberTypes
  <1>3. IsFiniteSet(Starting) /\ t \in Starting
    <2>1. Starting \in SUBSET Tasks /\ IsFiniteSet(Tasks)
      BY AgentLoopAssumption DEF Starting
    <2> QED BY <2>1, FS_Subset DEF Starting, Beginning
  <1>4. Cardinality(Starting) \in Nat /\ Cardinality(Starting) # 0
    BY <1>3, FS_CardinalityType, FS_EmptySet
  <1> DEFINE s == Cardinality(Starting)
  <1>5. s \in Nat /\ s # 0 /\ usage["subAgents"] = history.spawned + s
    BY <1>1, <1>4
  <1> HIDE DEF s
  <1> QED BY <1>2, <1>5

LEMMA SameCalls ==
    ASSUME NEW t \in Tasks, NEW p, NEW e, NEW l, NEW a, NEW i,
           TaskIs(t, p, e, l, a, i), UNCHANGED calls
    PROVE  Others(t) /\ task'[t].pc = p /\ (Beginning(t)' <=> p \in {"create", "backoff"})
  BY Zenon DEF TaskIs, Others, Beginning

(* Reserving one for the first attempt and for the next one.               *)
LEMMA SubAgentReserved ==
    ASSUME LoopInv, NEW t \in Tasks, NEW p \in {"create", "backoff"},
           p = "backoff" => task[t].attempt < MaxAttempts[t],
           task[t].pc \in {"new", "again"},
           \/ Reserve(Amount("subAgents", 1)) /\ Go(t, p)
           \/ Go(t, "error") /\ UNCHANGED usage,
           UNCHANGED <<tools, ended, calls, gate, seen, retries, faults, history>>
    PROVE  LoopInv'
  <1>1. BudgetTypeOK /\ TaskTypes /\ HistoryTypes /\ DetectorTypes
    BY DEF LoopInv, Types
  <1>2. /\ p \in Places /\ "error" \in Places
        /\ p \in Away \ {"asking", "reserve"} /\ "error" \in Away \ {"asking", "reserve", "create", "backoff"}
    BY DEF Away, Places, Grouped, Preflight, Dispatch
  <1>3. /\ Fits(t, p, task[t].loops, task[t].attempt)
        /\ Fits(t, "error", task[t].loops, task[t].attempt)
    BY DEF Fits
  <1>4. /\ task[t].pc \notin Dispatch \cup {"asking", "create", "backoff"} /\ ~Beginning(t)
        /\ task[t].pc \notin Dispatch \cup {"asking"}
    BY DEF Dispatch, Beginning
  <1>5. HistoryTypes' /\ DetectorTypes'
    BY <1>1 DEF HistoryTypes, DetectorTypes
  <1>6. CASE Reserve(Amount("subAgents", 1)) /\ Go(t, p)
    <2>1. TaskIs(t, p, task[t].err, task[t].loops, task[t].attempt, task[t].idx)
      BY <1>1, <1>2, <1>6, TheTask, GoIs
    <2>2. /\ BudgetTypeOK' /\ usage'["subAgents"] = usage["subAgents"] + 1
          /\ \A r \in Resources : r # "subAgents" => usage'[r] = usage[r]
          /\ Limits["subAgents"] > 0 => usage'["subAgents"] <= Limits["subAgents"]
      <3>1. "subAgents" \in Resources /\ 1 \in Nat
        BY DEF Resources
      <3> QED BY <1>1, <1>6, <3>1, ReserveIs
    <2>3. Others(t) /\ Beginning(t)'
      BY <2>1, SameCalls
    <2>4. usage'["subAgents"] + history.spawned + Cardinality(Starting)
               = usage["subAgents"] + history'.spawned + Cardinality(Starting')
      BY <1>1, <1>4, <1>5, <2>2, <2>3, SubAgentSum
    <2>5. task[t].loops <= MaxToolLoops[t] /\ task[t].attempt <= MaxAttempts[t]
      BY <1>1, TheTask
    <2> QED BY <1>2, <1>3, <1>4, <1>5, <2>1, <2>2, <2>4, <2>5, SubAgentKeeps
  <1>7. CASE Go(t, "error") /\ UNCHANGED usage
    <2>1. CostOnly
      BY <1>1, <1>7, SameUsage
    <2> QED BY <1>2, <1>3, <1>4, <1>5, <1>7, <2>1, GoKeeps
  <1> QED BY <1>6, <1>7

LEMMA RunTaskKeeps ==
    ASSUME LoopInv, NEW t \in Tasks, runTask(t) \/ ReserveAttempt(t)
    PROVE  LoopInv'
  <1>1. CASE runTask(t)
    <2>1. /\ task[t].pc \in {"new", "again"}
          /\ \/ Reserve(Amount("subAgents", 1)) /\ Go(t, "create")
             \/ Go(t, "error") /\ UNCHANGED usage
          /\ UNCHANGED <<tools, ended, calls, gate, seen, retries, faults, history>>
      BY <1>1, Zenon DEF runTask, At
    <2> QED BY <2>1, SubAgentReserved
  <1>2. CASE ReserveAttempt(t)
    <2>1. /\ task[t].pc = "again"
          /\ \/ Reserve(Amount("subAgents", 1)) /\ Go(t, "backoff")
             \/ Go(t, "error") /\ UNCHANGED usage
          /\ UNCHANGED <<tools, ended, calls, gate, seen, retries, faults, history>>
      BY <1>2, Zenon DEF ReserveAttempt, At
    <2>2. task[t].attempt < MaxAttempts[t]
      BY <2>1 DEF LoopInv, TaskOK
    <2> QED BY <2>1, <2>2, SubAgentReserved
  <1> QED BY <1>1, <1>2

LEMMA CreateTaskKeeps ==
    ASSUME LoopInv, NEW t \in Tasks, CreateTask(t)
    PROVE  LoopInv'
  <1>1. BudgetTypeOK /\ TaskTypes /\ HistoryTypes /\ DetectorTypes
    BY DEF LoopInv, Types
  <1>2. /\ task[t].pc = "create" /\ Beginning(t)
        /\ task' = [task EXCEPT ![t].pc = "loop", ![t].loops = MaxToolLoops[t]]
        /\ history' = [history EXCEPT !.spawned = @ + 1]
        /\ UNCHANGED <<usage, tools, ended, calls, gate, seen, retries, faults>>
    BY DEF CreateTask, At, bvars, Beginning
  <1>3. /\ MaxToolLoops[t] \in Nat /\ MaxToolLoops[t] <= MaxToolLoops[t]
        /\ task[t].attempt <= MaxAttempts[t] /\ task \in [Tasks -> TaskRecord]
    BY <1>1, TheTask
  <1>4. TaskIs(t, "loop", task[t].err, MaxToolLoops[t], task[t].attempt, task[t].idx)
    BY <1>2, <1>3, CreateIs
  <1>5. /\ HistoryTypes' /\ history'.spawned = history.spawned + 1
        /\ history'.executed = history.executed /\ history'.ran = history.ran
        /\ history'.over = history.over
    BY <1>1, <1>2, SpawnedIs
  <1>6. BudgetTypeOK' /\ DetectorTypes'
    BY <1>1, <1>2 DEF BudgetTypeOK, DetectorTypes
  <1>7. Others(t) /\ ~Beginning(t)'
    BY <1>2, <1>4, SameCalls
  <1>8. usage'["subAgents"] + history.spawned + Cardinality(Starting)
               = usage["subAgents"] + history'.spawned + Cardinality(Starting')
    BY <1>1, <1>2, <1>5, <1>6, <1>7, SubAgentSum
  <1>9. /\ "loop" \in Away \ {"asking", "reserve"}
        /\ Fits(t, "loop", MaxToolLoops[t], task[t].attempt)
        /\ task[t].pc \notin Dispatch \cup {"asking"}
    BY <1>2 DEF Away, Places, Grouped, Preflight, Dispatch, Fits
  <1>10. usage'["subAgents"] <= usage["subAgents"]
    BY <1>1, <1>2, NumberTypes DEF Resources
  <1>11. \A r \in Resources : r # "subAgents" => usage'[r] = usage[r]
    BY <1>2
  <1>12. UNCHANGED <<calls, tools, gate>>
    BY <1>2
  <1> QED BY <1>3, <1>4, <1>5, <1>6, <1>8, <1>9, <1>10, <1>11, <1>12, SubAgentKeeps

(* Giving one back.                                                        *)
LEMMA SubAgentReleased ==
    ASSUME LoopInv, NEW t \in Tasks, task[t].pc \in {"create", "backoff"},
           Release(Amount("subAgents", 1)), Go(t, "error") \/ Fail(t, "retryable"),
           UNCHANGED <<tools, calls, gate, history>>, DetectorTypes'
    PROVE  LoopInv'
  <1>1. BudgetTypeOK /\ TaskTypes /\ HistoryTypes
    BY DEF LoopInv, Types
  <1>2. Beginning(t) /\ task[t].pc \notin Dispatch \cup {"asking"}
    BY DEF Beginning, Dispatch
  <1>3. /\ BudgetTypeOK' /\ usage["subAgents"] = usage'["subAgents"] + 1
        /\ \A r \in Resources : r # "subAgents" => usage'[r] = usage[r]
    <2>1. "subAgents" \in Resources /\ 1 \in Nat /\ 1 <= usage["subAgents"]
      BY <1>2, BegunIsCounted DEF Resources
    <2> QED BY <1>1, <2>1, ReleaseIs
  <1>4. usage'["subAgents"] <= usage["subAgents"]
    <2>1. usage["subAgents"] \in Nat /\ usage'["subAgents"] \in Nat
      BY <1>1, <1>3 DEF BudgetTypeOK, Resources
    <2> QED BY <1>3, <2>1
  <1>5. HistoryTypes'
    BY <1>1 DEF HistoryTypes
  <1>6. \E p \in {"error", "failed"} : \E e, l, i :
           TaskIs(t, p, e, l, task[t].attempt, i) /\ l <= MaxToolLoops[t]
    <2>1. CASE Go(t, "error")
      <3>1. "error" \in Places
        BY DEF Places
      <3>2. TaskIs(t, "error", task[t].err, task[t].loops, task[t].attempt, task[t].idx)
        BY <1>1, <2>1, <3>1, TheTask, GoIs
      <3>3. task[t].loops <= MaxToolLoops[t]
        BY <1>1, TheTask
      <3> QED BY <3>2, <3>3, Zenon
    <2>2. CASE Fail(t, "retryable")
      <3>1. "retryable" \in Errors
        BY DEF Errors
      <3>2. TaskIs(t, "failed", "retryable", 0, task[t].attempt, 1)
        BY <1>1, <2>2, <3>1, TheTask, FailIs
      <3>3. 0 <= MaxToolLoops[t]
        BY <1>1, TheTask
      <3> QED BY <3>2, <3>3, Zenon
    <2> QED BY <2>1, <2>2
  <1>7. PICK p \in {"error", "failed"} : \E e, l, i :
           TaskIs(t, p, e, l, task[t].attempt, i) /\ l <= MaxToolLoops[t]
    BY <1>6
  <1>8. PICK e, l, i : TaskIs(t, p, e, l, task[t].attempt, i) /\ l <= MaxToolLoops[t]
    BY <1>7
  <1>9. p \in Away \ {"asking", "reserve"} /\ Fits(t, p, l, task[t].attempt)
    BY DEF Away, Places, Grouped, Preflight, Dispatch, Fits
  <1>10. Others(t) /\ ~Beginning(t)'
    BY <1>8, SameCalls
  <1>11. usage'["subAgents"] + history.spawned + Cardinality(Starting)
               = usage["subAgents"] + history'.spawned + Cardinality(Starting')
    BY <1>1, <1>2, <1>3, <1>5, <1>10, SubAgentSum
  <1>12. task[t].attempt <= MaxAttempts[t]
    BY <1>1, TheTask
  <1> QED BY <1>2, <1>3, <1>4, <1>5, <1>8, <1>9, <1>11, <1>12, SubAgentKeeps

LEMMA GivenBackKeeps ==
    ASSUME LoopInv, NEW t \in Tasks, CreateFails(t) \/ BackoffCanceled(t)
    PROVE  LoopInv'
  <1>1. DetectorTypes
    BY DEF LoopInv, Types
  <1>2. /\ task[t].pc \in {"create", "backoff"} /\ Release(Amount("subAgents", 1))
        /\ Go(t, "error") \/ Fail(t, "retryable")
        /\ UNCHANGED <<tools, calls, gate, history>> /\ UNCHANGED <<ended, seen>>
        /\ UNCHANGED retries /\ (UNCHANGED faults \/ Fault)
    <2>1. CASE CreateFails(t)
      BY <2>1, Zenon DEF CreateFails, At
    <2>2. CASE BackoffCanceled(t)
      BY <2>2, Zenon DEF BackoffCanceled, At
    <2> QED BY <2>1, <2>2
  <1>3. DetectorTypes'
    BY <1>1, <1>2, DetectorStep
  <1> QED BY <1>2, <1>3, SubAgentReleased

LEMMA NextAttemptKeeps ==
    ASSUME LoopInv, NEW t \in Tasks, NextAttempt(t)
    PROVE  LoopInv'
  <1>1. BudgetTypeOK /\ TaskTypes /\ CallTypes /\ DetectorTypes /\ TaskOK(t)
    BY DEF LoopInv, Types
  <1>2. /\ task[t].pc = "backoff" /\ UNCHANGED <<usage, tools>>
        /\ UNCHANGED <<tools, gate, history>> /\ UNCHANGED <<calls, seen, retries, faults>>
        /\ task' = [task EXCEPT ![t].pc = "create", ![t].attempt = @ + 1]
        /\ ended' = [ended EXCEPT ![t] = IF @ = "timedOut" THEN "live" ELSE @]
    BY DEF NextAttempt, At, shared
  <1>3. TaskIs(t, "create", task[t].err, task[t].loops, task[t].attempt + 1, task[t].idx)
    BY <1>1, <1>2, TheTask, AgainIs
  <1>4. task[t].loops <= MaxToolLoops[t] /\ task[t].attempt + 1 <= MaxAttempts[t]
    <2>1. task[t].attempt < MaxAttempts[t]
      BY <1>1, <1>2 DEF TaskOK
    <2> QED BY <1>1, <2>1, TheTask
  <1>5. DetectorTypes'
    <2>1. ended' \in [Tasks -> {"live", "timedOut", "canceled"}]
      BY <1>1, <1>2 DEF DetectorTypes
    <2> QED BY <1>1, <1>2, <2>1 DEF DetectorTypes
  <1>6. CostOnly
    BY <1>1, <1>2, SameUsage
  <1>7. /\ "create" \in Away \ {"asking", "reserve"}
        /\ Fits(t, "create", task[t].loops, task[t].attempt + 1)
        /\ task[t].pc # "asking" /\ task[t].pc \notin Dispatch
        /\ "create" \in {"create", "backoff"} <=> Beginning(t)
    BY <1>2 DEF Away, Places, Grouped, Preflight, Dispatch, Fits, Beginning
  <1>8. CallTypes' /\ calls' = calls
    BY <1>1, <1>2 DEF CallTypes
  <1> QED BY <1>2, <1>3, <1>4, <1>5, <1>6, <1>7, <1>8, AwayKeeps DEF CostOnly

-----------------------------------------------------------------------------
(* The cost gate and the model call behind it.                             *)

LEMMA GateKeeps ==
    ASSUME LoopInv, NEW t \in Tasks, NEW p \in Away \ {"create", "backoff"},
           NEW e, NEW l, NEW a, NEW i, TaskIs(t, p, e, l, a, i), Fits(t, p, l, a),
           l <= MaxToolLoops[t], a <= MaxAttempts[t],
           task[t].pc \notin Dispatch, ~Beginning(t),
           UNCHANGED <<calls, tools>>, BudgetTypeOK', HistoryTypes', DetectorTypes',
           \A r \in Resources : r # "modelCalls" => usage'[r] = usage[r],
           \/ usage'["modelCalls"] <= usage["modelCalls"]
           \/ Limits["modelCalls"] > 0 => usage'["modelCalls"] <= Limits["modelCalls"],
           history'.spawned = history.spawned,
           history'.executed = history.executed, history'.ran = history.ran,
           GateTypes', Gated'
    PROVE  LoopInv'
  <1>1. /\ Types /\ BudgetTypeOK /\ TaskTypes /\ CallTypes /\ HistoryTypes
        /\ (\A q \in Tasks : TaskOK(q)) /\ Reserved /\ ToolsReserved
    BY DEF LoopInv, Types
  <1>2. p \in Away
    OBVIOUS
  <1>3. /\ Others(t) /\ \A q \in Tasks : TaskOK(q)'
        /\ Open(t)' = {} /\ \A n : Booked(t, n)' = {}
    BY <1>1, <1>2, AwayStep
  <1>4. TaskTypes' /\ CallTypes'
    <2>1. TaskTypes'
      BY <1>1, TaskTypesStep
    <2> QED BY <1>1, <2>1 DEF CallTypes
  <1>5. Types'
    BY <1>4 DEF Types
  <1>6. Numbers /\ Numbers'
    BY <1>1, <1>4 DEF Numbers
  <1>7. ~Beginning(t)'
    BY SameCalls
  <1>8. Cardinality(Open(t)') = 0 /\ Cardinality(Open(t)) \in Nat
    BY <1>1, <1>3, FS_EmptySet, OpenFinite
  <1>9. Reserved'
    <2>1. /\ usage'["toolCalls"] = usage["toolCalls"] /\ usage["toolCalls"] \in Nat
          /\ usage'["subAgents"] = usage["subAgents"]
      BY <1>6, NumberTypes DEF Numbers, Resources
    <2>2. history.executed \in Nat
      BY <1>6, NumberTypes DEF Numbers
    <2> DEFINE c == Cardinality(Open(t))
               cc == Cardinality(Open(t)')
    <2>3. c \in Nat /\ cc = 0
      BY <1>8
    <2> HIDE DEF c, cc
    <2>4. history'.executed + cc + usage["toolCalls"] <= history.executed + c + usage'["toolCalls"]
      BY <2>1, <2>2, <2>3
    <2>5. \A r \in Resources \ {"cost"} :
               usage'[r] <= usage[r] \/ (Limits[r] > 0 => usage'[r] <= Limits[r])
      BY <1>6, NumberTypes DEF Numbers
    <2>6. usage'["subAgents"] + history.spawned + Cardinality(Starting)
               = usage["subAgents"] + history'.spawned + Cardinality(Starting')
      BY <1>3, <1>6, <1>7, <2>1, SubAgentSum DEF Numbers
    <2> QED BY <1>1, <1>3, <1>6, <2>4, <2>5, <2>6, ReservedStep DEF c, cc
  <1>10. ToolsReserved'
    <2>1. ASSUME NEW n \in Tools
          PROVE  /\ history'.ran[n] + Cardinality(Booked(t, n)') + tools[n].calls
                      <= history.ran[n] + Cardinality(Booked(t, n)) + tools'[n].calls
                 /\ tools'[n].calls <= tools[n].calls
      <3> DEFINE d == Cardinality(Booked(t, n))
                 dd == Cardinality(Booked(t, n)')
      <3>1. d \in Nat /\ dd = 0
        BY <1>1, <1>3, FS_EmptySet, OpenFinite
      <3>2. history.ran[n] \in Nat /\ tools[n].calls \in Nat
        BY <1>6, NumberTypes DEF Numbers
      <3> HIDE DEF d, dd
      <3>3. history'.ran[n] + dd + tools[n].calls <= history.ran[n] + d + tools'[n].calls
        BY <3>1, <3>2
      <3>4. tools'[n].calls <= tools[n].calls
        BY <3>2
      <3> QED BY <3>3, <3>4 DEF d, dd
    <2> QED BY <1>1, <1>3, <1>6, <2>1, ToolsStep
  <1> QED BY <1>3, <1>5, <1>9, <1>10 DEF LoopInv

LEMMA checkCostKeeps ==
    ASSUME LoopInv, NEW t \in Tasks, checkCost(t)
    PROVE  LoopInv'
  <1>1. /\ BudgetTypeOK /\ TaskTypes /\ CallTypes /\ HistoryTypes /\ GateTypes /\ DetectorTypes
        /\ TaskOK(t) /\ Gated /\ HumanAskedFirst
    BY DEF LoopInv, Types, Gated
  <1>2. /\ task[t].pc \in {"loop", "gate"}
        /\ UNCHANGED <<usage, tools>> /\ UNCHANGED <<calls, tools, history>>
        /\ UNCHANGED <<ended, seen, retries>> /\ UNCHANGED faults /\ UNCHANGED usage
    BY DEF checkCost, At, bvars
  <1>3. task[t].loops > 0
    <2>1. CASE task[t].pc = "loop"
      BY <2>1 DEF checkCost, At
    <2>2. CASE task[t].pc = "gate"
      BY <1>1, <2>2 DEF TaskOK, InAttempt
    <2> QED BY <1>2, <2>1, <2>2
  <1>4. HistoryTypes' /\ DetectorTypes' /\ CostOnly
    <2>1. HistoryTypes'
      BY <1>1, <1>2 DEF HistoryTypes
    <2>2. DetectorTypes'
      BY <1>1, <1>2, DetectorStep
    <2> QED BY <1>1, <1>2, <2>1, <2>2, SameUsage
  <1>5. /\ task[t].pc \notin Dispatch /\ ~Beginning(t) /\ task[t].pc # "asking"
        /\ task[t].pc \notin Dispatch \cup {"asking", "create", "backoff"}
    BY <1>2 DEF Dispatch, Beginning
  <1>6. \A p \in {"reserve", "asking", "gate"} :
            p \in Away \ {"create", "backoff"} /\ p \in Places
            /\ Fits(t, p, task[t].loops, task[t].attempt)
    BY <1>3 DEF Away, Places, Grouped, Preflight, Dispatch, Fits
  <1>7. task[t].loops <= MaxToolLoops[t] /\ task[t].attempt <= MaxAttempts[t]
    BY <1>1, TheTask
  <1>8. PastThreshold' <=> PastThreshold
    BY <1>2 DEF PastThreshold
  <1>9. ASSUME NEW p \in {"reserve", "asking"}, Go(t, p), GateTypes',
               Others(t) /\ task'[t].pc = p => Gated'
        PROVE  LoopInv'
    <2>1. TaskIs(t, p, task[t].err, task[t].loops, task[t].attempt, task[t].idx)
      BY <1>1, <1>6, <1>9, TheTask, GoIs
    <2>2. Others(t) /\ task'[t].pc = p
      BY <1>2, <2>1, SameCalls
    <2>3. Gated'
      BY <1>9, <2>2
    <2>4. usage'["modelCalls"] <= usage["modelCalls"]
      BY <1>1, <1>2 DEF BudgetTypeOK, Resources
    <2>5. /\ \A r \in Resources : r # "modelCalls" => usage'[r] = usage[r]
          /\ history'.spawned = history.spawned /\ BudgetTypeOK'
          /\ history'.executed = history.executed /\ history'.ran = history.ran
          /\ UNCHANGED <<calls, tools>>
      BY <1>2, <1>4 DEF CostOnly
    <2> QED BY <1>4, <1>5, <1>6, <1>7, <1>9, <2>1, <2>3, <2>4, <2>5, GateKeeps
  <1>10. CASE ~PastThreshold /\ Go(t, "reserve") /\ UNCHANGED gate
    <2>1. GateTypes'
      BY <1>1, <1>10 DEF GateTypes
    <2>2. ASSUME Others(t), task'[t].pc = "reserve" PROVE Gated'
      <3>1. \A q \in Tasks : ~(history'.over[q] > 0)
        BY <1>1, <1>2, <1>10, Zenon DEF Gated
      <3>2. \A q \in Tasks : At(q, "asking")' <=> At(q, "asking")
        BY <1>5, <2>2, Zenon DEF At, Others
      <3>3. HumanAskedFirst'
        BY <1>1, <1>2, <1>10, <3>2, Zenon DEF HumanAskedFirst
      <3> QED BY <3>1, <3>3, Zenon DEF Gated
    <2> QED BY <1>9, <1>10, <2>1, <2>2
  <1>11. CASE PastThreshold /\ gate.answer = "approved" /\ Go(t, "reserve") /\ UNCHANGED gate
    <2>1. GateTypes'
      BY <1>1, <1>11 DEF GateTypes
    <2>2. ASSUME Others(t), task'[t].pc = "reserve" PROVE Gated'
      <3>1. \A q \in Tasks : At(q, "asking")' <=> At(q, "asking")
        BY <1>5, <2>2, Zenon DEF At, Others
      <3>2. HumanAskedFirst'
        BY <1>1, <1>2, <1>11, <3>1, Zenon DEF HumanAskedFirst
      <3>3. PastThreshold' /\ gate'.answer = "approved"
        BY <1>8, <1>11, Zenon
      <3> QED BY <3>2, <3>3, Zenon DEF Gated
    <2> QED BY <1>9, <1>11, <2>1, <2>2
  <1>12. CASE PastThreshold /\ gate.answer = "denied" /\ Fail(t, "final") /\ UNCHANGED gate
    <2>1. "final" \in Errors /\ UNCHANGED <<calls, tools, gate, history>>
      BY <1>2, <1>12 DEF Errors
    <2> QED BY <1>4, <1>5, <1>12, <2>1, FailKeeps
  <1>13. CASE PastThreshold /\ gate.answer = "none" /\ gate.asking = Nobody
              /\ gate' = [gate EXCEPT !.asking = t] /\ Go(t, "asking")
    <2>1. GateTypes' /\ gate'.asking = t /\ gate'.answer = "none"
      <3>1. t \in Tasks \cup {Nobody}
        OBVIOUS
      <3> QED BY <1>1, <1>13, <3>1, Zenon DEF GateTypes
    <2>2. ASSUME Others(t), task'[t].pc = "asking" PROVE Gated'
      <3>1. Nobody \notin Tasks
        BY AgentLoopAssumption, Zenon
      <3>2. \A q \in Tasks : ~At(q, "asking")
        BY <1>1, <1>13, <3>1, Zenon DEF HumanAskedFirst
      <3>3. \A q \in Tasks : At(q, "asking")' <=> q = t
        BY <2>2, <3>2, Zenon DEF At, Others
      <3>4. HumanAskedFirst'
        BY <1>1, <1>2, <2>1, <3>3, Zenon DEF HumanAskedFirst
      <3>5. \A q \in Tasks : history'.over[q] > 0 => ~At(q, "reserve")
        <4>1. "none" # "approved"
          OBVIOUS
        <4> QED BY <1>1, <1>2, <1>13, <4>1, Zenon DEF Gated
      <3>6. \A q \in Tasks : At(q, "reserve")' => At(q, "reserve")
        <4>1. "asking" # "reserve"
          OBVIOUS
        <4> QED BY <2>2, <4>1, Zenon DEF At, Others
      <3>7. PastThreshold'
        BY <1>8, <1>13
      <3> QED BY <3>4, <3>5, <3>6, <3>7, Zenon DEF Gated
    <2> QED BY <1>9, <1>13, <2>1, <2>2
  <1>14. CASE Go(t, "gate") /\ UNCHANGED gate
    <2>1. "gate" \in Away \ {"asking", "reserve", "create", "backoff"} /\ UNCHANGED <<calls, tools, gate, history>>
      BY <1>2, <1>6, <1>14
    <2> QED BY <1>4, <1>5, <1>6, <1>14, <2>1, GoKeeps
  <1> QED BY <1>10, <1>11, <1>12, <1>13, <1>14, Zenon DEF checkCost

LEMMA CostAnsweredKeeps ==
    ASSUME LoopInv, NEW t \in Tasks, CostAnswered(t)
    PROVE  LoopInv'
  <1>1. /\ BudgetTypeOK /\ TaskTypes /\ CallTypes /\ HistoryTypes /\ DetectorTypes
        /\ TaskOK(t) /\ Gated /\ HumanAskedFirst
    BY DEF LoopInv, Types, Gated
  <1>2. /\ task[t].pc = "asking"
        /\ UNCHANGED <<usage, tools>> /\ UNCHANGED <<calls, tools, history>>
        /\ UNCHANGED <<ended, seen, retries>> /\ UNCHANGED usage
    BY DEF CostAnswered, At, bvars
  <1>3. PICK outcome \in Outcomes :
           /\ Answered(t, outcome)
           /\ gate' = [asking |-> Nobody,
                          answer |-> IF outcome = "error" THEN "none" ELSE outcome]
           /\ CASE outcome = "approved" -> Go(t, "reserve")
                   [] outcome = "denied" -> Fail(t, "final")
                   [] outcome = "error" -> Fail(t, "retryable")
    BY Zenon DEF CostAnswered
  <1>4. UNCHANGED faults \/ Fault
    BY <1>3, Zenon DEF Answered, Awaited
  <1>5. HistoryTypes' /\ DetectorTypes' /\ CostOnly
    <2>1. HistoryTypes'
      BY <1>1, <1>2 DEF HistoryTypes
    <2>2. UNCHANGED <<ended, seen>> /\ UNCHANGED retries
      BY <1>2
    <2>3. DetectorTypes'
      BY <1>1, <1>4, <2>2, DetectorStep
    <2> QED BY <1>1, <1>2, <2>1, <2>3, SameUsage
  <1>6. task[t].pc \notin Dispatch /\ ~Beginning(t) /\ task[t].loops > 0
    BY <1>1, <1>2 DEF Dispatch, Beginning, TaskOK, InAttempt
  <1>7. GateTypes' /\ gate'.asking = Nobody /\ (outcome = "approved" => gate'.answer = "approved")
    <2>1. outcome \in {"approved", "denied", "error"}
      BY DEF Outcomes
    <2> QED BY <1>3, <2>1 DEF GateTypes
  <1>8. ASSUME NEW p \in {"reserve", "failed"}, p = "reserve" => outcome = "approved",
               NEW e, NEW l, NEW i, TaskIs(t, p, e, l, task[t].attempt, i),
               l <= MaxToolLoops[t], p = "reserve" => l > 0
        PROVE  LoopInv'
    <2>1. Others(t) /\ task'[t].pc = p
      BY <1>2, <1>8, SameCalls
    <2>2. Nobody \notin Tasks
      BY AgentLoopAssumption, Zenon
    <2>3. gate.asking = t /\ gate.answer = "none"
      <3>1. gate.asking = t
        BY <1>1, <1>2, Zenon DEF HumanAskedFirst, At
      <3>2. t # Nobody
        BY <2>2
      <3> QED BY <1>1, <3>1, <3>2, Zenon DEF HumanAskedFirst
    <2>4. \A q \in Tasks : ~At(q, "asking")'
      <3>1. task'[t].pc # "asking"
        BY <1>8, <2>1
      <3>2. \A q \in Tasks : q # t => ~At(q, "asking")
        BY <1>1, <2>3, Zenon DEF HumanAskedFirst
      <3> QED BY <2>1, <3>1, <3>2, Zenon DEF At, Others
    <2>5. HumanAskedFirst'
      BY <1>1, <1>2, <1>7, <2>2, <2>4, Zenon DEF HumanAskedFirst
    <2>6. PastThreshold' <=> PastThreshold
      BY <1>2 DEF PastThreshold
    <2>7. ASSUME NEW q \in Tasks, history'.over[q] > 0
          PROVE  PastThreshold' /\ (At(q, "reserve")' => gate'.answer = "approved")
      <3>1. history.over[q] > 0
        BY <1>2, <2>7
      <3>2. PastThreshold'
        BY <1>1, <2>6, <3>1, Zenon DEF Gated
      <3>3. CASE q = t
        BY <1>7, <1>8, <2>1, <3>2, <3>3 DEF At
      <3>4. CASE q # t
        <4>1. "none" # "approved"
          OBVIOUS
        <4>2. ~At(q, "reserve")
          BY <1>1, <2>3, <3>1, <4>1, Zenon DEF Gated
        <4>3. ~At(q, "reserve")'
          BY <2>1, <3>4, <4>2, Zenon DEF At, Others
        <4> QED BY <3>2, <4>3
      <3> QED BY <3>3, <3>4
    <2>8. Gated'
      BY <2>5, <2>7, Zenon DEF Gated
    <2>9. p \in Away \ {"create", "backoff"} /\ Fits(t, p, l, task[t].attempt)
      BY <1>8 DEF Away, Places, Grouped, Preflight, Dispatch, Fits
    <2>10. usage'["modelCalls"] <= usage["modelCalls"] /\ task[t].attempt <= MaxAttempts[t]
      <3>1. usage'["modelCalls"] <= usage["modelCalls"]
        BY <1>1, <1>2 DEF BudgetTypeOK, Resources
      <3> QED BY <1>1, <3>1, TheTask
    <2>11. /\ \A r \in Resources : r # "modelCalls" => usage'[r] = usage[r]
           /\ history'.spawned = history.spawned /\ BudgetTypeOK'
           /\ history'.executed = history.executed /\ history'.ran = history.ran
           /\ UNCHANGED <<calls, tools>>
      BY <1>2, <1>5 DEF CostOnly
    <2> QED BY <1>5, <1>6, <1>7, <1>8, <2>8, <2>9, <2>10, <2>11, GateKeeps
  <1>9. CASE outcome = "approved"
    <2>1. Go(t, "reserve") /\ "reserve" \in Places
      BY <1>3, <1>9 DEF Places
    <2>2. TaskIs(t, "reserve", task[t].err, task[t].loops, task[t].attempt, task[t].idx)
      BY <1>1, <2>1, TheTask, GoIs
    <2>3. task[t].loops <= MaxToolLoops[t]
      BY <1>1, TheTask
    <2> QED BY <1>6, <1>8, <1>9, <2>2, <2>3
  <1>10. CASE outcome \in {"denied", "error"}
    <2>1. PICK e \in {"final", "retryable"} : Fail(t, e)
      BY <1>3, <1>10
    <2>2. e \in Errors
      BY DEF Errors
    <2>3. TaskIs(t, "failed", e, 0, task[t].attempt, 1)
      BY <1>1, <2>1, <2>2, TheTask, FailIs
    <2>4. 0 <= MaxToolLoops[t]
      BY <1>1, TheTask
    <2> QED BY <1>8, <2>3, <2>4
  <1> QED BY <1>9, <1>10 DEF Outcomes

LEMMA OverIs ==
    ASSUME HistoryTypes, NEW t \in Tasks, NEW x \in Nat,
           history' = [history EXCEPT !.over[t] = @ + x]
    PROVE  /\ HistoryTypes' /\ history'.spawned = history.spawned
           /\ history'.executed = history.executed /\ history'.ran = history.ran
           /\ history'.over[t] = history.over[t] + x
           /\ \A q \in Tasks : q # t => history'.over[q] = history.over[q]
  <1> DEFINE n == history.over[t] + x
             f == [history.over EXCEPT ![t] = n]
  <1>1. history.over \in [Tasks -> Nat]
    BY DEF HistoryTypes
  <1>2. n \in Nat
    BY <1>1
  <1>3. history' = [history EXCEPT !.over = f]
    BY Zenon
  <1> HIDE DEF n
  <1>4. f \in [Tasks -> Nat] /\ f[t] = n /\ \A q \in Tasks : q # t => f[q] = history.over[q]
    BY <1>1, <1>2
  <1> HIDE DEF f
  <1>5. /\ HistoryTypes' /\ history'.spawned = history.spawned
        /\ history'.executed = history.executed /\ history'.ran = history.ran
        /\ history'.over = f
    BY <1>3, <1>4, Zenon DEF HistoryTypes
  <1> QED BY <1>4, <1>5 DEF n

LEMMA ReserveModelCallKeeps ==
    ASSUME LoopInv, NEW t \in Tasks, ReserveModelCall(t)
    PROVE  LoopInv'
  <1>1. /\ BudgetTypeOK /\ TaskTypes /\ CallTypes /\ HistoryTypes /\ DetectorTypes /\ GateTypes
        /\ TaskOK(t) /\ Gated /\ HumanAskedFirst
    BY DEF LoopInv, Types, Gated
  <1>2. task[t].pc = "reserve" /\ UNCHANGED <<tools, ended, calls, gate, seen, retries, faults>>
    BY DEF ReserveModelCall, At
  <1>3. CASE Fail(t, "final") /\ UNCHANGED <<usage, history>>
    <2>1. /\ UNCHANGED <<calls, tools, gate, history, ended, seen, retries>> /\ UNCHANGED faults
          /\ UNCHANGED usage /\ "final" \in Errors
      BY <1>2, <1>3 DEF Errors
    <2> QED BY <1>2, <1>3, <2>1, QuietFail
  <1>4. CASE /\ Reserve(Amount("modelCalls", 1))
             /\ history' = [history EXCEPT !.over[t] =
                    @ + (IF PastThreshold /\ gate.answer # "approved" THEN 1 ELSE 0)]
             /\ Go(t, "chat")
    <2> DEFINE x == IF PastThreshold /\ gate.answer # "approved" THEN 1 ELSE 0
    <2>1. x \in Nat /\ (x = 0 \/ (x = 1 /\ PastThreshold /\ gate.answer # "approved"))
      OBVIOUS
    <2>2. history' = [history EXCEPT !.over[t] = @ + x]
      BY <1>4, Zenon
    <2> HIDE DEF x
    <2>3. /\ HistoryTypes' /\ history'.spawned = history.spawned
          /\ history'.executed = history.executed /\ history'.ran = history.ran
          /\ history'.over[t] = history.over[t] + x
          /\ \A q \in Tasks : q # t => history'.over[q] = history.over[q]
      BY <1>1, <2>1, <2>2, OverIs
    <2>4. "chat" \in Places
      BY DEF Places
    <2>5. TaskIs(t, "chat", task[t].err, task[t].loops, task[t].attempt, task[t].idx)
      BY <1>1, <1>4, <2>4, TheTask, GoIs
    <2>6. UNCHANGED calls /\ UNCHANGED tools /\ UNCHANGED gate
      BY <1>2
    <2>7. Others(t) /\ task'[t].pc = "chat"
      BY <2>5, <2>6, SameCalls
    <2>8. /\ BudgetTypeOK' /\ usage'["modelCalls"] = usage["modelCalls"] + 1
          /\ \A r \in Resources : r # "modelCalls" => usage'[r] = usage[r]
          /\ Limits["modelCalls"] > 0 => usage'["modelCalls"] <= Limits["modelCalls"]
      <3>1. "modelCalls" \in Resources /\ 1 \in Nat
        BY DEF Resources
      <3> QED BY <1>1, <1>4, <2>6, <3>1, ReserveIs
    <2>9. PastThreshold' <=> PastThreshold
      <3>1. usage'["cost"] = usage["cost"]
        BY <2>8 DEF Resources
      <3> QED BY <3>1 DEF PastThreshold
    <2>10. history.over[t] \in Nat
      BY <1>1, NumberTypes
    <2>11. history'.over[t] <= 1 /\ (history'.over[t] > 0 => PastThreshold)
      <3>1. CASE x = 0
        <4>1. history.over[t] <= 1 /\ (history.over[t] > 0 => PastThreshold)
          BY <1>1, Zenon DEF Gated, HumanAskedFirst
        <4> QED BY <2>3, <2>10, <3>1, <4>1
      <3>2. CASE x = 1 /\ PastThreshold /\ gate.answer # "approved"
        <4>1. ~(history.over[t] > 0)
          BY <1>1, <1>2, <3>2, Zenon DEF Gated, At
        <4> QED BY <2>3, <2>10, <3>2, <4>1
      <3> QED BY <2>1, <3>1, <3>2
    <2>12. \A q \in Tasks : At(q, "asking")' <=> At(q, "asking")
      <3>1. "chat" # "asking" /\ "reserve" # "asking"
        OBVIOUS
      <3> QED BY <1>2, <2>7, <3>1, Zenon DEF At, Others
    <2>13. HumanAskedFirst'
      <3>1. \A q \in Tasks : history'.over[q] <= 1
        BY <1>1, <2>3, <2>11, Zenon DEF HumanAskedFirst
      <3> QED BY <1>1, <2>6, <2>12, <3>1, Zenon DEF HumanAskedFirst
    <2>14. ASSUME NEW q \in Tasks, history'.over[q] > 0
           PROVE  PastThreshold' /\ (At(q, "reserve")' => gate'.answer = "approved")
      <3>1. CASE q = t
        BY <2>7, <2>9, <2>11, <2>14, <3>1 DEF At
      <3>2. CASE q # t
        BY <1>1, <2>3, <2>6, <2>7, <2>9, <2>14, <3>2, Zenon DEF At, Others, Gated
      <3> QED BY <3>1, <3>2
    <2>15. Gated'
      BY <2>13, <2>14, Zenon DEF Gated
    <2>16. task[t].pc \notin Dispatch /\ ~Beginning(t) /\ task[t].loops > 0
      BY <1>1, <1>2 DEF Dispatch, Beginning, TaskOK, InAttempt
    <2>17. "chat" \in Away \ {"create", "backoff"} /\ Fits(t, "chat", task[t].loops, task[t].attempt)
      BY <2>16 DEF Away, Places, Grouped, Preflight, Dispatch, Fits
    <2>18. DetectorTypes' /\ GateTypes' /\ UNCHANGED <<calls, tools>>
      BY <1>1, <1>2 DEF DetectorTypes, GateTypes
    <2>19. task[t].loops <= MaxToolLoops[t] /\ task[t].attempt <= MaxAttempts[t]
      BY <1>1, TheTask
    <2> QED BY <2>3, <2>5, <2>8, <2>15, <2>16, <2>17, <2>18, <2>19, GateKeeps
  <1> QED BY <1>3, <1>4, Zenon DEF ReserveModelCall

(* A step of a context, and one of nobody.                                 *)
LEMMA IdleKeeps ==
    ASSUME LoopInv, UNCHANGED <<task, calls, usage, tools, gate, history>>, DetectorTypes'
    PROVE  LoopInv'
  <1>1. /\ task' = task /\ calls' = calls /\ usage' = usage /\ tools' = tools
        /\ gate' = gate /\ history' = history
    OBVIOUS
  <1>2. Types'
    BY <1>1 DEF LoopInv, Types, BudgetTypeOK, TaskTypes, CallTypes, HistoryTypes, GateTypes
  <1>3. \A t \in Tasks : TaskOK(t)'
    <2> SUFFICES ASSUME NEW t \in Tasks PROVE TaskOK(t)'
      BY Zenon
    <2>1. task'[t] = task[t] /\ calls'[t] = calls[t] /\ TaskOK(t)
      BY <1>1 DEF LoopInv
    <2> QED BY <2>1, Zenon DEF TaskOK, CallOK, InAttempt
  <1>4. Reserved'
    <2>1. AllOpen' = AllOpen
      BY <1>1, Zenon DEF AllOpen, Open
    <2>2. Total(AllOpen)' = Total(AllOpen)
      BY <2>1, Zenon DEF Total, Pairs
    <2>3. Starting' = Starting
      BY <1>1, Zenon DEF Starting
    <2> QED BY <1>1, <2>2, <2>3, Zenon DEF LoopInv, Reserved
  <1>5. ToolsReserved'
    <2>1. \A n : AllBooked(n)' = AllBooked(n)
      BY <1>1, Zenon DEF AllBooked, Booked, ToolOf
    <2>2. \A n : Total(AllBooked(n))' = Total(AllBooked(n))
      BY <2>1, Zenon DEF Total, Pairs
    <2> QED BY <1>1, <2>2, Zenon DEF LoopInv, ToolsReserved
  <1>6. Gated'
    BY <1>1, Zenon DEF LoopInv, Gated, HumanAskedFirst, PastThreshold, At
  <1> QED BY <1>2, <1>3, <1>4, <1>5, <1>6 DEF LoopInv

LEMMA ContextKeeps ==
    ASSUME LoopInv, NEW t \in Tasks, Timeout(t) \/ Cancel(t)
    PROVE  LoopInv'
  <1>1. DetectorTypes
    BY DEF LoopInv, Types
  <1>2. PICK c \in {"timedOut", "canceled"} : ended' = [ended EXCEPT ![t] = c]
    BY Zenon DEF Timeout, Cancel
  <1>3. UNCHANGED <<task, calls, usage, tools, gate, history>> /\ UNCHANGED <<seen, retries, faults>>
    BY DEF Timeout, Cancel, shared
  <1>4. DetectorTypes'
    BY <1>1, <1>2, <1>3 DEF DetectorTypes
  <1> QED BY <1>3, <1>4, IdleKeeps

-----------------------------------------------------------------------------
(* Groups of calls.                                                        *)

(* What CallOK says of a call, by what it depends on.                      *)
CallFits(p, i, j, st, par, need, ok, err) ==
    /\ st \in Expected(p, i, j)
    /\ p \in Dispatch /\ j < i => st = "result" \/ (p = "dispatch" /\ par)
    /\ p = "inline" /\ j = i => ~par
    /\ (p \in Dispatch \/ (p = "approve" /\ j < i)) /\ st \in Running \cup {"planned"} /\ need => ok
    /\ st = "result" => err \in Errors

Parallel(c) == Kind[c.kind].parallel
Needs(c) == Kind[c.kind].approve /\ ~Kind[c.kind].builtin

LEMMA CallOKIs ==
    ASSUME NEW t, NEW j
    PROVE  /\ LET c == calls[t][j]
              IN  CallOK(t, j) <=> CallFits(task[t].pc, task[t].idx, j, c.st, Parallel(c),
                                            Needs(c), c.approved, c.err)
           /\ LET c == calls'[t][j]
              IN  CallOK(t, j)' <=> CallFits(task'[t].pc, task'[t].idx, j, c.st, Parallel(c),
                                             Needs(c), c.approved, c.err)
  <1>1. LET c == calls[t][j]
        IN  CallOK(t, j) <=> CallFits(task[t].pc, task[t].idx, j, c.st, Parallel(c),
                                      Needs(c), c.approved, c.err)
    BY Zenon DEF CallOK, CallFits, Parallel, Needs
  <1>2. LET c == calls'[t][j]
        IN  CallOK(t, j)' <=> CallFits(task'[t].pc, task'[t].idx, j, c.st, Parallel(c),
                                       Needs(c), c.approved, c.err)
    BY Zenon DEF CallOK, CallFits, Parallel, Needs
  <1> QED BY <1>1, <1>2

(* How a call's condition goes over to the next place of its task, in the  *)
(* preflight.                                                              *)
LEMMA PreflightFits ==
    ASSUME NEW i \in Nat, NEW j \in Nat, NEW st, NEW par, NEW need, NEW ok, NEW err
    PROVE  /\ 1 <= j /\ CallFits("tools", i, j, st, par, need, ok, err)
                  => CallFits("observe", 1, j, st, par, need, ok, err)
           /\ \A p \in Preflight : \A q \in Preflight :
                  CallFits(p, i, j, st, par, need, ok, err)
                      => CallFits(q, i, j, st, par, need, ok, err)
           /\ j # i /\ CallFits("plan", i, j, st, par, need, ok, err)
                  => CallFits("observe", i + 1, j, st, par, need, ok, err)
           /\ j = i /\ st \in Ready => CallFits("observe", i + 1, j, st, par, need, ok, err)
           /\ 1 <= j /\ j < i /\ CallFits("plan", i, j, st, par, need, ok, err)
                  => CallFits("approve", 1, j, st, par, need, ok, err)
           /\ 1 <= j /\ st \in Ready => CallFits("approve", 1, j, st, par, need, ok, err)
  <1>1. ASSUME 1 <= j, CallFits("tools", i, j, st, par, need, ok, err)
        PROVE  CallFits("observe", 1, j, st, par, need, ok, err)
    <2>1. st = "called"
      BY <1>1 DEF CallFits, Expected
    <2>2. st \in Expected("observe", 1, j)
      BY <1>1, <2>1 DEF Expected, Preflight
    <2> QED BY <2>1, <2>2 DEF CallFits, Dispatch
  <1>2. ASSUME NEW p \in Preflight, NEW q \in Preflight, CallFits(p, i, j, st, par, need, ok, err)
        PROVE  CallFits(q, i, j, st, par, need, ok, err)
    <2>1. st \in Expected(p, i, j) /\ (st = "result" => err \in Errors)
      BY <1>2, Zenon DEF CallFits
    <2>2. Expected(p, i, j) = Expected(q, i, j)
      BY DEF Expected, Preflight
    <2> QED BY <2>1, <2>2 DEF CallFits, Dispatch, Preflight
  <1>3. ASSUME j # i, CallFits("plan", i, j, st, par, need, ok, err)
        PROVE  CallFits("observe", i + 1, j, st, par, need, ok, err)
    <2>1. st \in Expected("plan", i, j) /\ (st = "result" => err \in Errors)
      BY <1>3, Zenon DEF CallFits
    <2>2. Expected("plan", i, j) = Expected("observe", i + 1, j)
      BY <1>3 DEF Expected, Preflight
    <2> QED BY <2>1, <2>2 DEF CallFits, Dispatch
  <1>4. ASSUME j = i, st \in Ready
        PROVE  CallFits("observe", i + 1, j, st, par, need, ok, err)
    <2>1. st \in Expected("observe", i + 1, j)
      BY <1>4 DEF Expected, Preflight
    <2> QED BY <1>4, <2>1 DEF CallFits, Dispatch, Ready
  <1>5. ASSUME 1 <= j, st \in Ready
        PROVE  CallFits("approve", 1, j, st, par, need, ok, err)
    <2>1. st \in Expected("approve", 1, j)
      BY <1>5 DEF Expected, Preflight
    <2> QED BY <1>5, <2>1 DEF CallFits, Dispatch, Ready
  <1>6. ASSUME 1 <= j, j < i, CallFits("plan", i, j, st, par, need, ok, err)
        PROVE  CallFits("approve", 1, j, st, par, need, ok, err)
    <2>1. st \in Ready
      BY <1>6 DEF CallFits, Expected, Preflight
    <2> QED BY <1>5, <1>6, <2>1
  <1> QED BY <1>1, <1>2, <1>3, <1>4, <1>5, <1>6

(* The same for the approvals and for the calls' dispatch.                 *)
LEMMA ApprovalFits ==
    ASSUME NEW i \in Nat, NEW j \in Nat, NEW st, NEW par, NEW need, NEW ok, NEW err
    PROVE  /\ j # i /\ CallFits("approve", i, j, st, par, need, ok, err)
                  => CallFits("approve", i + 1, j, st, par, need, ok, err)
           /\ /\ j = i /\ st \in Ready
              /\ st = "planned" /\ need => ok
              => CallFits("approve", i + 1, j, st, par, need, ok, err)
           /\ 1 <= j /\ j < i /\ CallFits("approve", i, j, st, par, need, ok, err)
                  => CallFits("dispatch", 1, j, st, par, need, ok, err)
  <1>1. ASSUME j # i, CallFits("approve", i, j, st, par, need, ok, err)
        PROVE  CallFits("approve", i + 1, j, st, par, need, ok, err)
    <2>1. st \in Ready
      BY <1>1 DEF CallFits, Expected, Preflight
    <2>2. st \in Expected("approve", i + 1, j)
      BY <2>1 DEF Expected, Preflight
    <2>3. j < i + 1 => j < i
      BY <1>1
    <2>4. st # "result"
      BY <2>1 DEF Ready
    <2>5. "approve" \notin Dispatch /\ "approve" # "inline"
      BY DEF Dispatch
    <2> QED BY <1>1, <2>2, <2>3, <2>4, <2>5, Zenon DEF CallFits
  <1>2. ASSUME j = i, st \in Ready, st = "planned" /\ need => ok
        PROVE  CallFits("approve", i + 1, j, st, par, need, ok, err)
    <2>1. st \in Expected("approve", i + 1, j)
      BY <1>2 DEF Expected, Preflight
    <2>2. st # "result" /\ st \notin Running
      BY <1>2 DEF Ready, Running
    <2>3. "approve" \notin Dispatch /\ "approve" # "inline"
      BY DEF Dispatch
    <2> QED BY <1>2, <2>1, <2>2, <2>3, Zenon DEF CallFits
  <1>3. ASSUME 1 <= j, j < i, CallFits("approve", i, j, st, par, need, ok, err)
        PROVE  CallFits("dispatch", 1, j, st, par, need, ok, err)
    <2>1. st \in Ready
      BY <1>3 DEF CallFits, Expected, Preflight
    <2>2. st \in Expected("dispatch", 1, j)
      BY <1>3, <2>1 DEF Expected, Preflight, Dispatch
    <2>3. ~(j < 1) /\ st # "result" /\ "dispatch" # "inline"
      BY <1>3, <2>1 DEF Ready
    <2> QED BY <1>3, <2>2, <2>3, Zenon DEF CallFits
  <1> QED BY <1>1, <1>2, <1>3, Zenon

LEMMA DispatchFits ==
    ASSUME NEW i \in Nat, NEW j \in Nat, NEW st, NEW par, NEW need, NEW ok, NEW err
    PROVE  /\ j # i /\ CallFits("dispatch", i, j, st, par, need, ok, err)
                  => CallFits("dispatch", i + 1, j, st, par, need, ok, err)
           /\ j = i /\ st = "result" /\ err \in Errors
                  => CallFits("dispatch", i + 1, j, st, par, need, ok, err)
           /\ j = i /\ st = "start" /\ par /\ (need => ok)
                  => CallFits("dispatch", i + 1, j, st, par, need, ok, err)
           /\ j # i /\ st \notin Running /\ CallFits("dispatch", i, j, st, par, need, ok, err)
                  => CallFits("inline", i, j, st, par, need, ok, err)
           /\ j = i /\ st = "start" /\ ~par /\ (need => ok)
                  => CallFits("inline", i, j, st, par, need, ok, err)
           /\ j # i /\ CallFits("inline", i, j, st, par, need, ok, err)
                  => CallFits("dispatch", i + 1, j, st, par, need, ok, err)
  <1>0. /\ "dispatch" \in Dispatch /\ "inline" \in Dispatch /\ "dispatch" # "inline"
        /\ "result" \notin Running \cup {"planned"} /\ "start" # "result"
        /\ "inline" # "approve" /\ "dispatch" # "approve"
    BY DEF Dispatch, Running
  <1>1. /\ \A k : Expected("dispatch", k, j) = IF j < k THEN Running \cup {"result"} ELSE Ready
        /\ \A k : Expected("inline", k, j) = IF j < k \/ j = k THEN Running \cup {"result"} ELSE Ready
    BY DEF Expected, Preflight, Dispatch
  <1>2. ASSUME j # i, CallFits("dispatch", i, j, st, par, need, ok, err)
        PROVE  CallFits("dispatch", i + 1, j, st, par, need, ok, err)
    <2>1. j < i + 1 <=> j < i
      BY <1>2
    <2>2. st \in Expected("dispatch", i + 1, j)
      BY <1>1, <1>2, <2>1, Zenon DEF CallFits
    <2> QED BY <1>0, <1>2, <2>1, <2>2, Zenon DEF CallFits
  <1>3. ASSUME j = i, st = "result", err \in Errors
        PROVE  CallFits("dispatch", i + 1, j, st, par, need, ok, err)
    <2>1. st \in Expected("dispatch", i + 1, j)
      BY <1>1, <1>3
    <2> QED BY <1>0, <1>3, <2>1, Zenon DEF CallFits
  <1>4. ASSUME j = i, st = "start", par, need => ok
        PROVE  CallFits("dispatch", i + 1, j, st, par, need, ok, err)
    <2>1. st \in Expected("dispatch", i + 1, j)
      BY <1>1, <1>4 DEF Running
    <2> QED BY <1>0, <1>4, <2>1, Zenon DEF CallFits
  <1>5. ASSUME j # i, st \notin Running, CallFits("dispatch", i, j, st, par, need, ok, err)
        PROVE  CallFits("inline", i, j, st, par, need, ok, err)
    <2>1. st \in Expected("inline", i, j)
      BY <1>1, <1>5, Zenon DEF CallFits
    <2>2. j < i => st = "result"
      BY <1>1, <1>5 DEF CallFits
    <2> QED BY <1>0, <1>5, <2>1, <2>2, Zenon DEF CallFits
  <1>6. ASSUME j = i, st = "start", ~par, need => ok
        PROVE  CallFits("inline", i, j, st, par, need, ok, err)
    <2>1. st \in Expected("inline", i, j) /\ ~(j < i)
      BY <1>1, <1>6 DEF Running
    <2> QED BY <1>0, <1>6, <2>1, Zenon DEF CallFits
  <1>7. ASSUME j # i, CallFits("inline", i, j, st, par, need, ok, err)
        PROVE  CallFits("dispatch", i + 1, j, st, par, need, ok, err)
    <2>1. j < i + 1 <=> j < i
      BY <1>7
    <2>2. st \in Expected("dispatch", i + 1, j)
      BY <1>1, <1>7, <2>1, Zenon DEF CallFits
    <2>3. j < i => st = "result"
      BY <1>0, <1>7, Zenon DEF CallFits
    <2> QED BY <1>0, <1>7, <2>1, <2>2, <2>3, Zenon DEF CallFits
  <1> QED BY <1>2, <1>3, <1>4, <1>5, <1>6, <1>7, Zenon

(* And for a call that goes on, its task being where it was.               *)
LEMMA GoingFits ==
    ASSUME NEW p \in Places, NEW i \in Nat, NEW j \in Nat, NEW st, NEW par, NEW need, NEW ok, NEW err,
           st \in Running, CallFits(p, i, j, st, par, need, ok, err)
    PROVE  /\ p \in Dispatch
           /\ \A ss \in Running : \A ee : CallFits(p, i, j, ss, par, need, ok, ee)
           /\ \A ee \in Errors : \A k : CallFits(p, i, j, "result", par, need, k, ee)
  <1>1. st \in Expected(p, i, j)
    BY Zenon DEF CallFits
  <1>2. p \in Dispatch
    BY <1>1 DEF Expected, Ready, Running
  <1>3. /\ "result" \notin Running \cup {"planned"}
        /\ p # "approve" /\ (p = "inline" \/ p = "dispatch")
    BY <1>2 DEF Dispatch, Running
  <1>4. Expected(p, i, j) = Running \cup {"result"}
    BY <1>1, <1>2, <1>3 DEF Expected, Preflight, Dispatch, Ready, Running
  <1>5. /\ j < i => p = "dispatch" /\ par
        /\ p = "inline" /\ j = i => ~par
        /\ need => ok
    <2>1. st # "result"
      BY DEF Running
    <2> QED BY <1>2, <1>3, <2>1, Zenon DEF CallFits
  <1>6. ASSUME NEW ss \in Running, NEW ee
        PROVE  CallFits(p, i, j, ss, par, need, ok, ee)
    <2>1. ss # "result" /\ ss \in Expected(p, i, j)
      BY <1>4 DEF Running
    <2> QED BY <1>5, <2>1, Zenon DEF CallFits
  <1>7. ASSUME NEW ee \in Errors, NEW k
        PROVE  CallFits(p, i, j, "result", par, need, k, ee)
    <2>1. "result" \in Expected(p, i, j)
      BY <1>4
    <2> QED BY <1>3, <1>5, <2>1, Zenon DEF CallFits
  <1> QED BY <1>2, <1>6, <1>7

(* The parts of the invariant after a step of a task in a group.           *)
LEMMA GroupKeeps ==
    ASSUME LoopInv, NEW t \in Tasks, Others(t), TaskOK(t)',
           BudgetTypeOK', TaskTypes', CallTypes', HistoryTypes', DetectorTypes',
           Reserved', ToolsReserved', UNCHANGED gate, history'.over = history.over,
           usage'["cost"] >= usage["cost"],
           task[t].pc # "asking", task'[t].pc \notin {"asking", "reserve"}
    PROVE  LoopInv'
  <1>1. /\ BudgetTypeOK /\ GateTypes /\ (\A q \in Tasks : TaskOK(q)) /\ Gated
    BY DEF LoopInv, Types
  <1>2. GateTypes'
    BY <1>1 DEF GateTypes
  <1>3. Types'
    BY <1>2 DEF Types
  <1>4. \A q \in Tasks : TaskOK(q)'
    BY <1>1, OthersOK
  <1>5. gate' = gate /\ (task'[t].pc = "asking" <=> task[t].pc = "asking") /\ task'[t].pc # "reserve"
    OBVIOUS
  <1>6. Gated'
    BY <1>1, <1>5, GatedStep
  <1> QED BY <1>3, <1>4, <1>6 DEF LoopInv

LEMMA GroupOK ==
    ASSUME NEW t \in Tasks, NEW p \in Grouped \cup {"tools"}, NEW e, NEW l, NEW a, NEW i,
           TaskIs(t, p, e, l, a, i), l > 0,
           \A j \in 1 .. Len(calls'[t]) : CallOK(t, j)',
           p = "tools" => Len(calls'[t]) > 0,
           p \in Preflight \cup {"inline"} => i \in 1 .. Len(calls'[t]),
           p \in {"approve", "dispatch"} => i \in 1 .. Len(calls'[t]) + 1
    PROVE  TaskOK(t)'
  <1>1. p \notin {"stormAsk", "again", "backoff"}
    BY DEF Grouped, Preflight, Dispatch
  <1>2. task'[t].pc = p /\ task'[t].loops = l /\ task'[t].idx = i
    BY DEF TaskIs
  <1> QED BY <1>1, <1>2, Zenon DEF TaskOK

(* The loops that are left in a group.                                     *)
LEMMA GroupLoops ==
    ASSUME LoopInv, NEW t \in Tasks, task[t].pc \in Grouped \cup {"tools", "chat"}
    PROVE  /\ task[t].loops > 0 /\ task[t].loops <= MaxToolLoops[t]
           /\ task[t].attempt <= MaxAttempts[t] /\ task \in [Tasks -> TaskRecord]
           /\ task[t].idx \in Nat /\ task[t].pc # "asking" /\ ~Beginning(t)
  <1>1. TaskTypes /\ TaskOK(t)
    BY DEF LoopInv, Types
  <1>2. InAttempt(t) /\ task[t].pc # "loop" /\ task[t].pc # "asking" /\ ~Beginning(t)
    BY DEF InAttempt, Grouped, Preflight, Dispatch, Beginning
  <1>3. task[t].loops > 0
    BY <1>1, <1>2, Zenon DEF TaskOK
  <1> QED BY <1>1, <1>2, <1>3, TheTask

(* The counted sets of a task whose calls do not change.                   *)
LEMMA OpenSame ==
    ASSUME NEW t \in Tasks, calls'[t] = calls[t], task'[t].pc \in Grouped, task[t].pc \in Grouped,
           task[t].pc \in Preflight \/ task'[t].pc \notin Preflight
    PROVE  Open(t)' \subseteq Open(t) /\ \A n : Booked(t, n)' = Booked(t, n)
  <1>1. Open(t)' \subseteq Open(t)
    BY DEF Open, Grouped
  <1>2. ASSUME NEW n PROVE Booked(t, n)' = Booked(t, n)
    BY Zenon DEF Booked, Grouped, ToolOf
  <1> QED BY <1>1, <1>2

(* And of one that changes one of its calls.                               *)
LEMMA BookedAfter ==
    ASSUME CallTypes, NEW t \in Tasks, NEW i \in 1 .. Len(calls[t]), NEW st, NEW e, NEW ok,
           Becomes(t, i, st, e, ok), task'[t].pc \in Grouped, task[t].pc \in Grouped, NEW n
    PROVE  /\ st \in {"planned", "start"} /\ ToolOf(calls[t][i]) = n /\ ~Kind[calls[t][i].kind].builtin
                  => Booked(t, n)' = Booked(t, n) \cup {i}
           /\ st \notin {"planned", "start"} \/ ToolOf(calls[t][i]) # n \/ Kind[calls[t][i].kind].builtin
                  => Booked(t, n)' = Booked(t, n) \ {i}
  <1> DEFINE In(j) == /\ calls[t][j].st \in {"planned", "start"}
                      /\ ToolOf(calls[t][j]) = n /\ ~Kind[calls[t][j].kind].builtin
             New(j) == /\ calls'[t][j].st \in {"planned", "start"}
                       /\ ToolOf(calls'[t][j]) = n /\ ~Kind[calls'[t][j].kind].builtin
             D == 1 .. Len(calls[t])
  <1>1. Booked(t, n) = {j \in D : In(j)} /\ Booked(t, n)' = {j \in D : New(j)}
    <2>1. Len(calls'[t]) = Len(calls[t])
      BY DEF Becomes
    <2>2. /\ task[t].pc \in Preflight \cup Dispatch \cup {"approve"}
          /\ task'[t].pc \in Preflight \cup Dispatch \cup {"approve"}
      BY Zenon DEF Grouped
    <2>3. Booked(t, n) = {j \in D : In(j)}
      BY <2>2, Zenon DEF Booked
    <2>4. Booked(t, n)' = {j \in D : New(j)}
      BY <2>1, <2>2, Zenon DEF Booked, ToolOf
    <2> QED BY <2>3, <2>4
  <1>2. \A j \in D : j # i => (New(j) <=> In(j))
    BY Zenon DEF Becomes
  <1>3. New(i) <=> /\ st \in {"planned", "start"}
                   /\ ToolOf(calls[t][i]) = n /\ ~Kind[calls[t][i].kind].builtin
    BY Zenon DEF Becomes, ToolOf
  <1>4. i \in D
    OBVIOUS
  <1> HIDE DEF In, New, D
  <1>5. New(i) => {j \in D : New(j)} = {j \in D : In(j)} \cup {i}
    BY <1>2, <1>4
  <1>6. ~New(i) => {j \in D : New(j)} = {j \in D : In(j)} \ {i}
    BY <1>2, <1>4
  <1> QED BY <1>1, <1>3, <1>5, <1>6, Zenon

LEMMA OpenAfter ==
    ASSUME CallTypes, NEW t \in Tasks, NEW i \in 1 .. Len(calls[t]), NEW st, NEW e, NEW ok,
           Becomes(t, i, st, e, ok), task'[t].pc \in Dispatch \cup {"approve"},
           task[t].pc \in Dispatch \cup {"approve"}
    PROVE  /\ st \in Ready \cup {"start", "backoff"} => Open(t)' = Open(t) \cup {i}
           /\ st \notin Ready \cup {"start", "backoff"} => Open(t)' = Open(t) \ {i}
  <1> DEFINE In(j) == calls[t][j].st \in Ready \cup {"start", "backoff"}
             New(j) == calls'[t][j].st \in Ready \cup {"start", "backoff"}
             D == 1 .. Len(calls[t])
  <1>1. Open(t) = {j \in D : In(j)} /\ Open(t)' = {j \in D : New(j)}
    <2>1. Len(calls'[t]) = Len(calls[t])
      BY DEF Becomes
    <2>2. task[t].pc \notin Preflight /\ task'[t].pc \notin Preflight
      BY DEF Preflight, Dispatch
    <2>3. Open(t) = {j \in D : In(j)}
      BY <2>2, Zenon DEF Open
    <2>4. Open(t)' = {j \in D : New(j)}
      BY <2>1, <2>2, Zenon DEF Open
    <2> QED BY <2>3, <2>4
  <1>2. \A j \in D : j # i => (New(j) <=> In(j))
    BY Zenon DEF Becomes
  <1>3. New(i) <=> st \in Ready \cup {"start", "backoff"}
    BY Zenon DEF Becomes
  <1>4. i \in D
    OBVIOUS
  <1> HIDE DEF In, New, D
  <1>5. New(i) => {j \in D : New(j)} = {j \in D : In(j)} \cup {i}
    BY <1>2, <1>4
  <1>6. ~New(i) => {j \in D : New(j)} = {j \in D : In(j)} \ {i}
    BY <1>2, <1>4
  <1> QED BY <1>1, <1>3, <1>5, <1>6, Zenon

(* What the change of one call leaves of the others' conditions.           *)
LEMMA BecomesFits ==
    ASSUME NEW t \in Tasks, NEW i \in 1 .. Len(calls[t]), NEW st, NEW e, NEW ok,
           Becomes(t, i, st, e, ok)
    PROVE  /\ Len(calls'[t]) = Len(calls[t])
           /\ \A j \in 1 .. Len(calls[t]) : j # i =>
                 LET c == calls[t][j]
                 IN  CallOK(t, j)' <=> CallFits(task'[t].pc, task'[t].idx, j, c.st, Parallel(c),
                                                Needs(c), c.approved, c.err)
           /\ CallOK(t, i)' <=> CallFits(task'[t].pc, task'[t].idx, i, st, Parallel(calls[t][i]),
                                         Needs(calls[t][i]), ok, e)
  <1>1. Len(calls'[t]) = Len(calls[t])
    BY DEF Becomes
  <1>2. ASSUME NEW j \in 1 .. Len(calls[t]), j # i
        PROVE  LET c == calls[t][j]
               IN  CallOK(t, j)' <=> CallFits(task'[t].pc, task'[t].idx, j, c.st, Parallel(c),
                                                Needs(c), c.approved, c.err)
    <2>1. calls'[t][j] = calls[t][j]
      BY <1>2, Zenon DEF Becomes
    <2> QED BY <2>1, CallOKIs, Zenon
  <1>3. CallOK(t, i)' <=> CallFits(task'[t].pc, task'[t].idx, i, st, Parallel(calls[t][i]),
                                         Needs(calls[t][i]), ok, e)
    <2>1. /\ calls'[t][i].st = st /\ calls'[t][i].err = e /\ calls'[t][i].approved = ok
          /\ calls'[t][i].kind = calls[t][i].kind
      BY Zenon DEF Becomes
    <2>2. Parallel(calls'[t][i]) = Parallel(calls[t][i]) /\ Needs(calls'[t][i]) = Needs(calls[t][i])
      BY <2>1, Zenon DEF Parallel, Needs
    <2>3. CallOK(t, i)' <=> CallFits(task'[t].pc, task'[t].idx, i, calls'[t][i].st, Parallel(calls'[t][i]),
                                     Needs(calls'[t][i]), calls'[t][i].approved, calls'[t][i].err)
      BY CallOKIs, Zenon
    <2> QED BY <2>1, <2>2, <2>3, Zenon
  <1> QED BY <1>1, <1>2, <1>3

-----------------------------------------------------------------------------
(* The group that is asked for, and its preflight.                         *)

LEMMA ChatCallsToolsKeeps ==
    ASSUME LoopInv, NEW t \in Tasks, ChatCallsTools(t)
    PROVE  LoopInv'
  <1>1. /\ BudgetTypeOK /\ TaskTypes /\ CallTypes /\ HistoryTypes /\ Reserved /\ ToolsReserved
    BY DEF LoopInv, Types
  <1>2. PICK c \in ModelCosts, g \in Groups[t] :
            /\ Committed(t, c) /\ Go(t, "tools")
            /\ calls' = [calls EXCEPT ![t] = [i \in DOMAIN g |-> Fresh(g[i])]]
    BY Zenon DEF ChatCallsTools
  <1>3. /\ task[t].pc = "chat" /\ CostOnly
        /\ UNCHANGED <<tools, gate, history, ended, seen, retries>>
        /\ DetectorTypes' /\ task[t].loops > 0
    BY <1>2, CommittedIs
  <1>4. "tools" \in Places /\ "tools" \in Grouped \cup {"tools"} /\ "tools" \notin Grouped
    BY DEF Places, Grouped, Preflight, Dispatch
  <1>5. TaskIs(t, "tools", task[t].err, task[t].loops, task[t].attempt, task[t].idx)
    BY <1>1, <1>2, <1>4, TheTask, GoIs
  <1> DEFINE s == [i \in DOMAIN g |-> Fresh(g[i])]
  <1>6. /\ s \in Seq(Call) /\ Len(s) > 0
        /\ \A j \in 1 .. Len(s) : s[j].st = "called"
    <2>1. g \in Seq(Kinds) /\ g # <<>>
      BY AgentLoopAssumption
    <2>2. Len(g) > 0 /\ Len(g) \in Nat /\ DOMAIN g = 1 .. Len(g)
      BY <2>1
    <2>3. \A j \in 1 .. Len(g) : g[j] \in Kinds
      BY <2>1
    <2>4. \A j \in 1 .. Len(g) : Fresh(g[j]) \in Call /\ Fresh(g[j]).st = "called"
      BY <2>3, FreshIs
    <2> DEFINE f(j) == Fresh(g[j])
    <2>5. \A j \in 1 .. Len(g) : f(j) \in Call /\ f(j).st = "called"
      BY <2>4
    <2> HIDE DEF f
    <2>6. [i \in 1 .. Len(g) |-> f(i)] \in Seq(Call) /\ Len([i \in 1 .. Len(g) |-> f(i)]) = Len(g)
      BY <2>2, <2>5
    <2>7. s = [i \in 1 .. Len(g) |-> f(i)]
      BY <2>2, Zenon DEF f
    <2> HIDE DEF s
    <2>8. s \in Seq(Call) /\ Len(s) = Len(g)
      BY <2>6, <2>7
    <2>9. \A j \in 1 .. Len(s) : s[j] = f(j)
      BY <2>7, <2>8
    <2> QED BY <2>2, <2>5, <2>8, <2>9
  <1>7. CallTypes' /\ calls'[t] = s /\ \A q \in Tasks : q # t => calls'[q] = calls[q]
    <2>1. calls' = [calls EXCEPT ![t] = s]
      BY <1>2
    <2> HIDE DEF s
    <2> QED BY <1>1, <1>6, <2>1 DEF CallTypes
  <1> HIDE DEF s
  <1>8. Others(t) /\ task'[t].pc = "tools"
    BY <1>5, <1>7, Zenon DEF Others, TaskIs
  <1>9. ASSUME NEW j \in 1 .. Len(calls'[t]) PROVE CallOK(t, j)'
    <2>1. calls'[t][j].st = "called"
      BY <1>6, <1>7
    <2>2. "called" \in Expected("tools", task'[t].idx, j) /\ "tools" \notin Dispatch /\ "called" # "result"
      BY DEF Expected, Dispatch
    <2>3. "tools" # "inline" /\ "tools" # "approve"
      OBVIOUS
    <2> QED BY <1>8, <2>1, <2>2, <2>3, Zenon DEF CallOK
  <1>10. TaskOK(t)'
    <2>1. "tools" \notin Preflight \cup {"inline"} /\ "tools" \notin {"approve", "dispatch"}
      BY DEF Preflight
    <2> QED BY <1>3, <1>4, <1>5, <1>6, <1>7, <1>9, <2>1, GroupOK
  <1>11. Open(t)' = {} /\ \A n : Booked(t, n)' = {}
    BY <1>4, <1>8 DEF Open, Booked, Grouped
  <1>12. TaskTypes' /\ HistoryTypes'
    <2>1. task[t].loops <= MaxToolLoops[t] /\ task[t].attempt <= MaxAttempts[t]
      BY <1>1, TheTask
    <2>2. TaskTypes'
      BY <1>1, <1>5, <2>1, TaskTypesStep
    <2> QED BY <1>1, <1>3, <2>2 DEF HistoryTypes
  <1>13. Numbers /\ Numbers'
    BY <1>1, <1>3, <1>7, <1>12 DEF Numbers, CostOnly
  <1>14. Reserved' /\ ToolsReserved'
    <2>1. Beginning(t)' <=> Beginning(t)
      BY <1>3, <1>8 DEF Beginning
    <2>2. Uncounted
      BY <1>3 DEF Uncounted, CostOnly
    <2>3. Open(t)' \subseteq Open(t) /\ \A n \in Tools : Booked(t, n)' \subseteq Booked(t, n)
      BY <1>11
    <2> QED BY <1>1, <1>8, <1>13, <2>1, <2>2, <2>3, CalmStep
  <1>15. task[t].pc # "asking" /\ task'[t].pc \notin {"asking", "reserve"}
         /\ UNCHANGED gate /\ history'.over = history.over
    BY <1>3, <1>8
  <1> QED BY <1>3, <1>7, <1>8, <1>10, <1>12, <1>14, <1>15, GroupKeeps DEF CostOnly

LEMMA ReserveToolCallsKeeps ==
    ASSUME LoopInv, NEW t \in Tasks, ReserveToolCalls(t)
    PROVE  LoopInv'
  <1>1. /\ BudgetTypeOK /\ TaskTypes /\ CallTypes /\ HistoryTypes /\ DetectorTypes
        /\ Reserved /\ ToolsReserved /\ TaskOK(t)
    BY DEF LoopInv, Types
  <1>2. /\ task[t].pc = "tools"
        /\ UNCHANGED <<tools, ended, calls, gate, seen, retries, faults, history>>
    BY DEF ReserveToolCalls, At
  <1>3. CASE Fail(t, "final") /\ UNCHANGED usage
    <2>1. /\ UNCHANGED <<calls, tools, gate, history, ended, seen, retries>> /\ UNCHANGED faults
          /\ "final" \in Errors
      BY <1>2, <1>3 DEF Errors
    <2> QED BY <1>2, <1>3, <2>1, QuietFail
  <1>4. CASE Reserve(Group(t)) /\ task' = [task EXCEPT ![t].pc = "observe", ![t].idx = 1]
    <2> DEFINE n == Len(calls[t])
    <2>1. n \in Nat /\ n > 0
      BY <1>1, <1>2 DEF CallTypes, TaskOK
    <2>2. /\ task[t].loops > 0 /\ task[t].loops <= MaxToolLoops[t]
          /\ task[t].attempt <= MaxAttempts[t] /\ task \in [Tasks -> TaskRecord] /\ ~Beginning(t)
      BY <1>2, GroupLoops
    <2>3. TaskIs(t, "observe", task[t].err, task[t].loops, task[t].attempt, 1)
      <3>1. "observe" \in Places /\ 1 \in Nat
        BY DEF Places
      <3> QED BY <1>4, <2>2, <3>1, PcIdxIs
    <2>4. UNCHANGED calls
      BY <1>2
    <2>5. Others(t) /\ task'[t].pc = "observe" /\ ~Beginning(t)' /\ task'[t].idx = 1
      <3>1. task'[t].idx = 1
        BY <2>3, Zenon DEF TaskIs
      <3> QED BY <2>3, <2>4, <3>1, SameCalls
    <2>6. ASSUME NEW j \in 1 .. Len(calls'[t]) PROVE CallOK(t, j)'
      <3>1. j \in 1 .. Len(calls[t]) /\ j \in Nat /\ 1 <= j /\ calls'[t][j] = calls[t][j]
        BY <2>1, <2>4
      <3>2. CallOK(t, j)
        BY <1>1, <3>1, Zenon DEF TaskOK
      <3>3. task[t].idx \in Nat
        BY <1>1, TheTask
      <3> DEFINE c == calls[t][j]
      <3>4. CallFits("tools", task[t].idx, j, c.st, Parallel(c), Needs(c), c.approved, c.err)
        BY <1>2, <3>2, CallOKIs, Zenon
      <3>5. CallFits("observe", 1, j, c.st, Parallel(c), Needs(c), c.approved, c.err)
        BY <3>1, <3>3, <3>4, PreflightFits
      <3> QED BY <2>5, <3>1, <3>5, CallOKIs, Zenon
    <2>7. TaskOK(t)'
      <3>1. "observe" \in Grouped \cup {"tools"} /\ "observe" \notin {"tools", "approve", "dispatch"}
        BY DEF Grouped, Preflight
      <3>2. 1 \in 1 .. Len(calls'[t])
        BY <2>1, <2>4
      <3> QED BY <2>2, <2>3, <2>6, <3>1, <3>2, GroupOK
    <2>8. /\ BudgetTypeOK' /\ usage'["toolCalls"] = usage["toolCalls"] + n
          /\ \A r \in Resources : r # "toolCalls" => usage'[r] = usage[r]
          /\ \A r \in Resources : Limits[r] > 0 => usage'[r] <= Limits[r]
      <3>1. "toolCalls" \in Resources /\ UNCHANGED tools /\ Reserve(Amount("toolCalls", n))
        BY <1>2, <1>4 DEF Resources, Group
      <3> QED BY <1>1, <2>1, <3>1, ReserveIs
    <2>9. CallTypes' /\ HistoryTypes' /\ DetectorTypes' /\ TaskTypes'
      <3>1. TaskTypes'
        BY <1>1, <2>2, <2>3, TaskTypesStep
      <3> QED BY <1>1, <1>2, <3>1 DEF CallTypes, HistoryTypes, DetectorTypes
    <2>10. Numbers /\ Numbers'
      BY <1>1, <2>8, <2>9 DEF Numbers
    <2>11. Cardinality(Open(t)) = 0 /\ Cardinality(Open(t)') = n
      <3>1. Open(t) = {}
        BY <1>2 DEF Open, Preflight, Dispatch
      <3>2. Open(t)' = 1 .. Len(calls[t])
        BY <2>4, <2>5 DEF Open, Preflight
      <3> QED BY <1>1, <3>1, <3>2, OpenFinite, FS_EmptySet
    <2>12. Reserved'
      <3> DEFINE c == Cardinality(Open(t))
                 cc == Cardinality(Open(t)')
      <3>1. c = 0 /\ cc = n
        BY <2>11
      <3>2. usage["toolCalls"] \in Nat /\ history.executed \in Nat /\ history'.executed = history.executed
        BY <1>1, <1>2, NumberTypes DEF Resources
      <3> HIDE DEF c, cc, n
      <3>3. history'.executed + cc + usage["toolCalls"] <= history.executed + c + usage'["toolCalls"]
        BY <2>1, <2>8, <3>1, <3>2
      <3>4. usage'["subAgents"] + history.spawned + Cardinality(Starting)
               = usage["subAgents"] + history'.spawned + Cardinality(Starting')
        <4>1. usage'["subAgents"] = usage["subAgents"] /\ history'.spawned = history.spawned
          BY <1>2, <2>8 DEF Resources
        <4> QED BY <2>2, <2>5, <2>10, <4>1, SubAgentSum DEF Numbers
      <3> QED BY <1>1, <2>5, <2>8, <2>10, <3>3, <3>4, ReservedStep DEF c, cc
    <2>13. ToolsReserved'
      <3>1. ASSUME NEW m \in Tools
            PROVE  /\ history'.ran[m] + Cardinality(Booked(t, m)') + tools[m].calls
                      <= history.ran[m] + Cardinality(Booked(t, m)) + tools'[m].calls
                   /\ tools'[m].calls <= tools[m].calls
        <4> DEFINE d == Cardinality(Booked(t, m))
                   dd == Cardinality(Booked(t, m)')
        <4>1. Booked(t, m)' = {}
          <5>1. \A j \in 1 .. Len(calls[t]) : calls'[t][j].st = "called"
            <6>1. \A j \in 1 .. Len(calls[t]) : CallOK(t, j)
              BY <1>1, Zenon DEF TaskOK
            <6> QED BY <1>2, <2>4, <6>1 DEF CallOK, Expected
          <5> QED BY <2>4, <5>1 DEF Booked
        <4>2. d \in Nat /\ dd = 0
          BY <1>1, <4>1, FS_EmptySet, OpenFinite
        <4>3. history.ran[m] \in Nat /\ tools[m].calls \in Nat
          BY <2>10, NumberTypes DEF Numbers
        <4>4. history'.ran[m] = history.ran[m] /\ tools'[m] = tools[m]
          BY <1>2
        <4> HIDE DEF d, dd
        <4>5. history'.ran[m] + dd + tools[m].calls <= history.ran[m] + d + tools'[m].calls
          BY <4>2, <4>3, <4>4
        <4>6. tools'[m].calls <= tools[m].calls
          BY <4>3, <4>4
        <4> QED BY <4>5, <4>6 DEF d, dd
      <3> QED BY <1>1, <2>5, <2>10, <3>1, ToolsStep
    <2>14. /\ task[t].pc # "asking" /\ task'[t].pc \notin {"asking", "reserve"}
           /\ UNCHANGED gate /\ history'.over = history.over
      BY <1>2, <2>5
    <2>15. usage'["cost"] >= usage["cost"]
      <3>1. usage'["cost"] = usage["cost"] /\ usage["cost"] \in Nat
        BY <1>1, <2>8 DEF Resources, BudgetTypeOK
      <3> QED BY <3>1
    <2> QED BY <2>5, <2>7, <2>8, <2>9, <2>12, <2>13, <2>14, <2>15, GroupKeeps
  <1> QED BY <1>3, <1>4, Zenon DEF ReserveToolCalls

(* A step within a group that reserves none of the run's calls.            *)
LEMMA WithinKeeps ==
    ASSUME LoopInv, NEW t \in Tasks, task[t].pc \in Grouped,
           NEW p \in Grouped, NEW i,
           TaskIs(t, p, task[t].err, task[t].loops, task[t].attempt, i),
           CallTypes', \A q \in Tasks : q # t => calls'[q] = calls[q],
           \A j \in 1 .. Len(calls'[t]) : CallOK(t, j)',
           p \in Preflight \cup {"inline"} => i \in 1 .. Len(calls'[t]),
           p \in {"approve", "dispatch"} => i \in 1 .. Len(calls'[t]) + 1,
           Open(t)' \subseteq Open(t), UNCHANGED <<usage, gate, history>>, DetectorTypes',
           BudgetTypeOK',
           \/ ToolsReserved'
           \/ UNCHANGED tools /\ \A n \in Tools : Booked(t, n)' \subseteq Booked(t, n)
    PROVE  LoopInv'
  <1>1. /\ BudgetTypeOK /\ TaskTypes /\ CallTypes /\ HistoryTypes /\ Reserved /\ ToolsReserved
    BY DEF LoopInv, Types
  <1>2. /\ task[t].loops > 0 /\ task[t].loops <= MaxToolLoops[t]
        /\ task[t].attempt <= MaxAttempts[t] /\ ~Beginning(t) /\ task[t].pc # "asking"
    BY GroupLoops
  <1>3. Others(t) /\ task'[t].pc = p
    BY Zenon DEF Others, TaskIs
  <1>4. /\ p \notin {"create", "backoff"} /\ p \notin {"asking", "reserve"} /\ p # "tools"
        /\ p \in Grouped \cup {"tools"}
    BY DEF Grouped, Preflight, Dispatch
  <1>5. TaskOK(t)'
    BY <1>2, <1>4, GroupOK
  <1>6. TaskTypes' /\ HistoryTypes'
    <2>1. TaskTypes'
      BY <1>1, <1>2, TaskTypesStep
    <2> QED BY <1>1, <2>1 DEF HistoryTypes
  <1>7. Numbers /\ Numbers'
    BY <1>1, <1>6 DEF Numbers
  <1>8. ~Beginning(t)'
    BY <1>3, <1>4 DEF Beginning
  <1>9. usage' = usage /\ history' = history
    OBVIOUS
  <1>10. Reserved'
    <2> DEFINE c == Cardinality(Open(t))
               cc == Cardinality(Open(t)')
    <2>1. c \in Nat /\ cc \in Nat /\ cc <= c
      BY <1>1, OpenFinite, OpenShrinks
    <2>2. usage["toolCalls"] \in Nat /\ history.executed \in Nat
      BY <1>1, NumberTypes DEF Resources
    <2> HIDE DEF c, cc
    <2>3. history'.executed + cc + usage["toolCalls"] <= history.executed + c + usage'["toolCalls"]
      BY <1>9, <2>1, <2>2
    <2>4. usage'["subAgents"] + history.spawned + Cardinality(Starting)
               = usage["subAgents"] + history'.spawned + Cardinality(Starting')
      BY <1>2, <1>3, <1>7, <1>8, <1>9, SubAgentSum DEF Numbers
    <2>5. \A r \in Resources \ {"cost"} : usage'[r] <= usage[r]
      BY <1>1, <1>9, NumberTypes
    <2> QED BY <1>1, <1>3, <1>7, <2>3, <2>4, <2>5, ReservedStep DEF c, cc
  <1>11. ToolsReserved'
    <2>1. ASSUME UNCHANGED tools, \A n \in Tools : Booked(t, n)' \subseteq Booked(t, n)
          PROVE  ToolsReserved'
      <3>1. Uncounted
        BY <1>9, <2>1 DEF Uncounted
      <3> QED BY <1>1, <1>2, <1>3, <1>7, <1>8, <2>1, <3>1, CalmStep
    <2> QED BY <2>1
  <1>12. usage'["cost"] >= usage["cost"]
    BY <1>1, <1>9, NumberTypes DEF Resources
  <1>13. UNCHANGED gate /\ history'.over = history.over /\ task'[t].pc \notin {"asking", "reserve"}
    BY <1>3, <1>4, <1>9
  <1> QED BY <1>2, <1>3, <1>5, <1>6, <1>10, <1>11, <1>12, <1>13, GroupKeeps

LEMMA PreflightGoKeeps ==
    ASSUME LoopInv, NEW t \in Tasks, task[t].pc \in Preflight, NEW p \in Preflight,
           Go(t, p), UNCHANGED <<usage, tools, calls, gate, history>>, DetectorTypes'
    PROVE  LoopInv'
  <1>1. BudgetTypeOK /\ CallTypes /\ TaskOK(t)
    BY DEF LoopInv, Types
  <1>2. task[t].pc \in Grouped /\ p \in Grouped /\ p \in Places /\ p \notin {"approve", "dispatch"}
    BY DEF Grouped, Preflight, Places
  <1>3. task \in [Tasks -> TaskRecord] /\ task[t].idx \in Nat
    BY <1>2, GroupLoops
  <1>4. TaskIs(t, p, task[t].err, task[t].loops, task[t].attempt, task[t].idx)
    BY <1>2, <1>3, GoIs
  <1>5. /\ CallTypes' /\ calls' = calls /\ BudgetTypeOK' /\ UNCHANGED tools
        /\ UNCHANGED <<usage, gate, history>>
    BY <1>1 DEF CallTypes, BudgetTypeOK
  <1>6. task[t].idx \in 1 .. Len(calls'[t])
    BY <1>1, <1>5 DEF TaskOK
  <1>7. task'[t].pc = p /\ task'[t].idx = task[t].idx
    BY <1>4, Zenon DEF TaskIs
  <1>8. ASSUME NEW j \in 1 .. Len(calls'[t]) PROVE CallOK(t, j)'
    <2>1. CallOK(t, j) /\ j \in Nat
      BY <1>1, <1>5 DEF TaskOK, CallTypes
    <2> DEFINE c == calls[t][j]
    <2>2. CallFits(task[t].pc, task[t].idx, j, c.st, Parallel(c), Needs(c), c.approved, c.err)
      BY <2>1, CallOKIs, Zenon
    <2>3. CallFits(p, task[t].idx, j, c.st, Parallel(c), Needs(c), c.approved, c.err)
      BY <1>3, <2>1, <2>2, PreflightFits
    <2> QED BY <1>5, <1>7, <2>3, CallOKIs, Zenon
  <1>9. Open(t)' \subseteq Open(t) /\ \A n : Booked(t, n)' = Booked(t, n)
    BY <1>2, <1>5, <1>7, OpenSame
  <1>10. \A n \in Tools : Booked(t, n)' \subseteq Booked(t, n)
    BY <1>9
  <1> QED BY <1>2, <1>4, <1>5, <1>6, <1>8, <1>9, <1>10, WithinKeeps

(* The preflight that fails gives back what it reserved.                   *)
LEMMA PreflightFailsKeeps ==
    ASSUME LoopInv, NEW t \in Tasks, task[t].pc \in Preflight, NEW e \in Errors,
           PreflightFails(t, e), UNCHANGED <<tools, calls, gate, history>>, DetectorTypes'
    PROVE  LoopInv'
  <1>1. /\ BudgetTypeOK /\ TaskTypes /\ CallTypes /\ HistoryTypes /\ Reserved /\ ToolsReserved
        /\ \A q \in Tasks : TaskOK(q)
    BY DEF LoopInv, Types
  <1>2. /\ task[t].attempt <= MaxAttempts[t] /\ task \in [Tasks -> TaskRecord]
        /\ ~Beginning(t) /\ task[t].pc # "asking" /\ task[t].pc \notin Dispatch
    <2>1. task[t].pc \in Grouped \cup {"tools", "chat"} /\ task[t].pc \notin Dispatch
      BY DEF Grouped, Preflight, Dispatch
    <2> QED BY <2>1, GroupLoops
  <1>3. TaskIs(t, "failed", e, 0, task[t].attempt, 1)
    BY <1>2, FailIs DEF PreflightFails
  <1>4. "failed" \in Away /\ Fits(t, "failed", 0, task[t].attempt)
    BY DEF Away, Places, Grouped, Preflight, Dispatch, Fits
  <1>5. UNCHANGED calls /\ UNCHANGED tools /\ UNCHANGED gate /\ history' = history
    OBVIOUS
  <1>6. /\ Others(t) /\ TaskOK(t)'
        /\ Open(t)' = {} /\ \A n : Booked(t, n)' = {}
    BY <1>1, <1>2, <1>3, <1>4, <1>5, AwayStep
  <1>7. CallTypes' /\ HistoryTypes' /\ TaskTypes'
    <2>1. 0 <= MaxToolLoops[t]
      BY <1>1, TheTask
    <2>2. TaskTypes'
      BY <1>1, <1>2, <1>3, <2>1, TaskTypesStep
    <2> QED BY <1>1, <1>5, <2>2 DEF CallTypes, HistoryTypes
  <1> DEFINE n == Len(calls[t])
             c == Cardinality(Open(t))
             cc == Cardinality(Open(t)')
             o == Total(AllOpen)
             oo == Total(AllOpen)'
             u == usage["toolCalls"]
  <1>8. n \in Nat /\ c = n /\ cc = 0
    <2>1. Open(t) = 1 .. Len(calls[t])
      BY DEF Open
    <2> QED BY <1>1, <1>6, <2>1, OpenFinite, FS_EmptySet
  <1>9. o \in Nat /\ oo \in Nat /\ oo + c = o + cc
    BY <1>1, <1>6, <1>7, Counts
  <1>10. history.executed \in Nat /\ u \in Nat /\ history.executed + o <= u
    BY <1>1, NumberTypes DEF Reserved, Resources
  <1> HIDE DEF c, cc, n, o, oo, u
  <1>11. n <= u
    BY <1>8, <1>9, <1>10
  <1>12. /\ BudgetTypeOK' /\ u = usage'["toolCalls"] + n
         /\ \A r \in Resources : r # "toolCalls" => usage'[r] = usage[r]
    <2>1. "toolCalls" \in Resources /\ Release(Amount("toolCalls", n))
      BY Zenon DEF Resources, Group, PreflightFails, n
    <2>2. n <= usage["toolCalls"]
      BY <1>11 DEF u
    <2> QED BY <1>1, <1>5, <1>8, <2>1, <2>2, ReleaseIs DEF u
  <1>13. usage'["toolCalls"] \in Nat
    BY <1>12 DEF BudgetTypeOK, Resources
  <1>14. Numbers /\ Numbers'
    BY <1>1, <1>7, <1>12 DEF Numbers
  <1>15. task'[t].pc = "failed" /\ ~Beginning(t)'
    BY <1>3, <1>5, SameCalls
  <1>16. Reserved'
    <2>1. history'.executed + cc + u <= history.executed + c + usage'["toolCalls"]
      BY <1>5, <1>8, <1>10, <1>12, <1>13
    <2>2. usage'["subAgents"] + history.spawned + Cardinality(Starting)
               = usage["subAgents"] + history'.spawned + Cardinality(Starting')
      <3>1. usage'["subAgents"] = usage["subAgents"] /\ history'.spawned = history.spawned
        BY <1>5, <1>12 DEF Resources
      <3> QED BY <1>2, <1>6, <1>14, <1>15, <3>1, SubAgentSum DEF Numbers
    <2>3. ASSUME NEW r \in Resources \ {"cost"} PROVE usage'[r] <= usage[r]
      <3>1. CASE r = "toolCalls"
        BY <1>8, <1>12, <1>13, <3>1 DEF u
      <3>2. CASE r # "toolCalls"
        BY <1>1, <1>12, <3>2, NumberTypes
      <3> QED BY <3>1, <3>2
    <2> QED BY <1>1, <1>6, <1>14, <2>1, <2>2, <2>3, ReservedStep DEF c, cc, u
  <1>17. ToolsReserved'
    <2>1. ASSUME NEW m \in Tools
          PROVE  /\ history'.ran[m] + Cardinality(Booked(t, m)') + tools[m].calls
                      <= history.ran[m] + Cardinality(Booked(t, m)) + tools'[m].calls
                 /\ tools'[m].calls <= tools[m].calls
      <3> DEFINE d == Cardinality(Booked(t, m))
                 dd == Cardinality(Booked(t, m)')
      <3>1. d \in Nat /\ dd = 0
        BY <1>1, <1>6, FS_EmptySet, OpenFinite
      <3>2. history.ran[m] \in Nat /\ tools[m].calls \in Nat
        BY <1>14, NumberTypes DEF Numbers
      <3>3. history'.ran[m] = history.ran[m] /\ tools'[m] = tools[m]
        BY <1>5
      <3> HIDE DEF d, dd
      <3>4. history'.ran[m] + dd + tools[m].calls <= history.ran[m] + d + tools'[m].calls
        BY <3>1, <3>2, <3>3
      <3>5. tools'[m].calls <= tools[m].calls
        BY <3>2, <3>3
      <3> QED BY <3>4, <3>5 DEF d, dd
    <2> QED BY <1>1, <1>6, <1>14, <2>1, ToolsStep
  <1>18. usage'["cost"] >= usage["cost"]
    <2>1. usage'["cost"] = usage["cost"] /\ usage["cost"] \in Nat
      BY <1>1, <1>12 DEF Resources, BudgetTypeOK
    <2> QED BY <2>1
  <1>19. history'.over = history.over /\ task'[t].pc \notin {"asking", "reserve"}
    BY <1>5, <1>15
  <1> QED BY <1>2, <1>5, <1>6, <1>7, <1>12, <1>16, <1>17, <1>18, <1>19, GroupKeeps

LEMMA ObserveKeeps ==
    ASSUME LoopInv, NEW t \in Tasks, Observe(t) \/ LoopAnswered(t)
    PROVE  LoopInv'
  <1>1. DetectorTypes /\ CallTypes /\ TaskOK(t)
    BY DEF LoopInv, Types
  <1>2. /\ task[t].pc \in Preflight
        /\ UNCHANGED <<tools, calls, gate, history>> /\ UNCHANGED <<ended, retries>>
    BY DEF Observe, LoopAnswered, At, Preflight
  <1>3. Current(t).kind \in Kinds
    <2>1. task[t].idx \in 1 .. Len(calls[t])
      BY <1>1, <1>2 DEF TaskOK
    <2> QED BY <1>1, <2>1, TheCall DEF Current
  <1> DEFINE k == Current(t).kind
  <1>4. /\ "plan" \in Preflight /\ "loopAsk" \in Preflight /\ "final" \in Errors /\ "retryable" \in Errors
    BY DEF Preflight, Errors
  <1>5. CASE Observe(t)
    <2>1. /\ seen' = [seen EXCEPT ![k] = @ + 1] /\ UNCHANGED faults
          /\ \/ Go(t, "plan") /\ UNCHANGED usage
             \/ Go(t, "loopAsk") /\ UNCHANGED usage
             \/ PreflightFails(t, "final")
      BY <1>5, Zenon DEF Observe
    <2>2. seen' \in [Kinds -> Nat]
      <3>1. k \in Kinds
        BY <1>3
      <3> HIDE DEF k
      <3>2. seen \in [Kinds -> Nat] /\ seen[k] + 1 \in Nat
        BY <1>1, <3>1 DEF DetectorTypes
      <3>3. seen' = [seen EXCEPT ![k] = seen[k] + 1]
        BY <2>1, <3>1, <3>2
      <3> QED BY <3>1, <3>2, <3>3
    <2> HIDE DEF k
    <2>3. DetectorTypes'
      BY <1>1, <1>2, <2>1, <2>2 DEF DetectorTypes
    <2>4. CASE (Go(t, "plan") \/ Go(t, "loopAsk")) /\ UNCHANGED usage
      <3>1. UNCHANGED <<usage, tools, calls, gate, history>>
        BY <1>2, <2>4
      <3> QED BY <1>2, <1>4, <2>3, <2>4, <3>1, PreflightGoKeeps
    <2>5. CASE PreflightFails(t, "final")
      BY <1>2, <1>4, <2>3, <2>5, PreflightFailsKeeps
    <2> QED BY <2>1, <2>4, <2>5
  <1>6. CASE LoopAnswered(t)
    <2>1. PICK outcome \in Outcomes :
           /\ Answered(t, outcome)
           /\ \/ /\ outcome = "approved"
                 /\ seen' = [seen EXCEPT ![Current(t).kind] = 0]
                 /\ Go(t, "plan") /\ UNCHANGED usage
              \/ /\ outcome # "approved"
                 /\ PreflightFails(t, IF outcome = "denied" THEN "final" ELSE "retryable")
                 /\ UNCHANGED seen
      BY <1>6, Zenon DEF LoopAnswered
    <2>2. UNCHANGED faults \/ Fault
      BY <2>1, Zenon DEF Answered, Awaited
    <2>3. seen' \in [Kinds -> Nat] /\ faults' \in 0 .. MaxFaults
      <3>1. seen' = [seen EXCEPT ![k] = 0] \/ UNCHANGED seen
        BY <2>1, Zenon
      <3> HIDE DEF k
      <3>2. seen' \in [Kinds -> Nat]
        BY <1>1, <3>1 DEF DetectorTypes
      <3>3. faults' \in 0 .. MaxFaults
        BY <1>1, <2>2, AgentLoopAssumption DEF DetectorTypes, Fault
      <3> QED BY <3>2, <3>3
    <2>4. DetectorTypes'
      BY <1>1, <1>2, <2>3 DEF DetectorTypes
    <2>5. CASE Go(t, "plan") /\ UNCHANGED usage
      <3>1. UNCHANGED <<usage, tools, calls, gate, history>>
        BY <1>2, <2>5
      <3> QED BY <1>2, <1>4, <2>4, <2>5, <3>1, PreflightGoKeeps
    <2>6. CASE PreflightFails(t, IF outcome = "denied" THEN "final" ELSE "retryable")
      <3>1. PICK e \in Errors : PreflightFails(t, e)
        BY <1>4, <2>6, Zenon
      <3> QED BY <1>2, <2>4, <3>1, PreflightFailsKeeps
    <2> QED BY <2>1, <2>5, <2>6, Zenon
  <1> QED BY <1>5, <1>6

(* Where the preflight turns to once its call is planned or refused.       *)
LEMMA PlannedIs ==
    ASSUME LoopInv, NEW t \in Tasks, task[t].pc = "plan", Planned(t), NEW st \in Ready, NEW e,
           NEW ok, Becomes(t, task[t].idx, st, e, ok)
    PROVE  /\ task[t].idx \in 1 .. Len(calls[t]) /\ Open(t)' \subseteq Open(t)
           /\ \A j \in 1 .. Len(calls[t]) : CallOK(t, j)'
           /\ \E p \in {"observe", "approve"} : \E k \in 1 .. Len(calls[t]) :
                  TaskIs(t, p, task[t].err, task[t].loops, task[t].attempt, k)
  <1> DEFINE i == task[t].idx
             n == Len(calls[t])
  <1>1. CallTypes /\ TaskOK(t)
    BY DEF LoopInv, Types
  <1>2. /\ task \in [Tasks -> TaskRecord] /\ i \in Nat /\ n \in Nat /\ i \in 1 .. n
        /\ \A j \in 1 .. n : CallOK(t, j)
    <2>1. task[t].pc \in Grouped
      BY DEF Grouped, Preflight
    <2> QED BY <1>1, <2>1, GroupLoops, OpenFinite DEF TaskOK, Preflight
  <1>3. /\ "observe" \in Places /\ "approve" \in Places
    BY DEF Places
  <1>4. Len(calls'[t]) = n
    BY Zenon DEF Becomes
  <1>5. Open(t)' \subseteq Open(t)
    <2>1. Open(t) = 1 .. n
      BY DEF Open, Preflight
    <2>2. Open(t)' \subseteq 1 .. Len(calls'[t])
      BY DEF Open
    <2> QED BY <1>4, <2>1, <2>2
  <1>6. ASSUME NEW j \in 1 .. n PROVE j \in Nat /\ 1 <= j /\ (j # i => CallFits("plan", i, j,
            calls[t][j].st, Parallel(calls[t][j]), Needs(calls[t][j]), calls[t][j].approved,
            calls[t][j].err))
    <2>1. CallOK(t, j)
      BY <1>2
    <2> QED BY <1>2, <2>1, CallOKIs
  <1>7. CASE i < n
    <2>1. TaskIs(t, "observe", task[t].err, task[t].loops, task[t].attempt, i + 1)
      BY <1>2, <1>3, <1>7, StepIs DEF Planned
    <2>2. task'[t].pc = "observe" /\ task'[t].idx = i + 1
      BY <2>1, Zenon DEF TaskIs
    <2>3. ASSUME NEW j \in 1 .. n PROVE CallOK(t, j)'
      <3>1. CASE j = i
        <4>1. CallFits("observe", i + 1, i, st, Parallel(calls[t][i]), Needs(calls[t][i]), ok, e)
          BY <1>2, PreflightFits
        <4> QED BY <1>2, <2>2, <3>1, <4>1, BecomesFits
      <3>2. CASE j # i
        <4> DEFINE c == calls[t][j]
        <4>1. CallFits("observe", i + 1, j, c.st, Parallel(c), Needs(c), c.approved, c.err)
          BY <1>2, <1>6, <3>2, PreflightFits
        <4> QED BY <1>2, <2>2, <3>2, <4>1, BecomesFits
      <3> QED BY <3>1, <3>2
    <2>4. i + 1 \in 1 .. n
      BY <1>2, <1>7
    <2> QED BY <1>2, <1>5, <2>1, <2>3, <2>4, Zenon
  <1>8. CASE ~(i < n)
    <2>1. TaskIs(t, "approve", task[t].err, task[t].loops, task[t].attempt, 1)
      BY <1>2, <1>3, <1>8, PcIdxIs DEF Planned
    <2>2. task'[t].pc = "approve" /\ task'[t].idx = 1
      BY <2>1, Zenon DEF TaskIs
    <2>3. ASSUME NEW j \in 1 .. n PROVE CallOK(t, j)'
      <3>1. CASE j = i
        <4>1. CallFits("approve", 1, i, st, Parallel(calls[t][i]), Needs(calls[t][i]), ok, e)
          BY <1>2, PreflightFits
        <4> QED BY <1>2, <2>2, <3>1, <4>1, BecomesFits
      <3>2. CASE j # i
        <4> DEFINE c == calls[t][j]
        <4>1. j < i
          BY <1>2, <1>6, <1>8, <3>2
        <4>2. CallFits("approve", 1, j, c.st, Parallel(c), Needs(c), c.approved, c.err)
          BY <1>2, <1>6, <3>2, <4>1, PreflightFits
        <4> QED BY <1>2, <2>2, <3>2, <4>2, BecomesFits
      <3> QED BY <3>1, <3>2
    <2>4. 1 \in 1 .. n
      BY <1>2
    <2> QED BY <1>2, <1>5, <2>1, <2>3, <2>4, Zenon
  <1> QED BY <1>7, <1>8

LEMMA PlannedKeeps ==
    ASSUME LoopInv, NEW t \in Tasks, task[t].pc = "plan", Planned(t), NEW st \in Ready, NEW e,
           NEW ok, Becomes(t, task[t].idx, st, e, ok),
           UNCHANGED <<usage, gate, history>>, DetectorTypes', BudgetTypeOK',
           \/ Others(t) /\ task'[t].pc \in Grouped => ToolsReserved'
           \/ UNCHANGED tools /\ \A n \in Tools : task'[t].pc \in Grouped => Booked(t, n)' \subseteq Booked(t, n)
    PROVE  LoopInv'
  <1>1. PICK p \in {"observe", "approve"}, k \in 1 .. Len(calls[t]) :
            TaskIs(t, p, task[t].err, task[t].loops, task[t].attempt, k)
    BY PlannedIs, Zenon
  <1>2. /\ p \in Grouped /\ task[t].pc \in Grouped
        /\ task'[t].pc = p /\ \A q \in Tasks : q # t => task'[q] = task[q]
    BY <1>1, Zenon DEF Grouped, Preflight, TaskIs
  <1>3. /\ CallTypes' /\ Len(calls'[t]) = Len(calls[t])
        /\ \A q \in Tasks : q # t => calls'[q] = calls[q]
    BY Zenon DEF Becomes
  <1>4. Others(t)
    BY <1>2, <1>3, Zenon DEF Others
  <1>5. k \in 1 .. Len(calls'[t]) /\ k \in 1 .. Len(calls'[t]) + 1
    <2>1. Len(calls[t]) \in Nat
      BY OpenFinite DEF LoopInv, Types
    <2> QED BY <1>1, <1>3, <2>1
  <1>6. (\A j \in 1 .. Len(calls'[t]) : CallOK(t, j)') /\ Open(t)' \subseteq Open(t)
    BY <1>3, PlannedIs
  <1>7. \/ ToolsReserved'
        \/ UNCHANGED tools /\ \A n \in Tools : Booked(t, n)' \subseteq Booked(t, n)
    BY <1>2, <1>4, Zenon
  <1> QED BY <1>1, <1>2, <1>3, <1>5, <1>6, <1>7, WithinKeeps

LEMMA PlanBuiltinKeeps ==
    ASSUME LoopInv, NEW t \in Tasks, PlanBuiltin(t)
    PROVE  LoopInv'
  <1> DEFINE i == task[t].idx
  <1>1. BudgetTypeOK /\ CallTypes /\ TaskOK(t) /\ DetectorTypes
    BY DEF LoopInv, Types
  <1>2. /\ task[t].pc = "plan" /\ Kind[calls[t][i].kind].builtin
        /\ Mark(t, i, "planned") /\ Planned(t)
        /\ UNCHANGED <<usage, tools, gate, seen, retries, faults, ended, history>>
    BY Zenon DEF PlanBuiltin, At, Current, MarkCurrent, shared
  <1>3. i \in 1 .. Len(calls[t])
    BY <1>1, <1>2 DEF TaskOK, Preflight
  <1>4. "planned" \in CallStates /\ "planned" \in Ready
    BY DEF CallStates, Ready
  <1>5. Becomes(t, i, "planned", calls[t][i].err, calls[t][i].approved)
    BY <1>1, <1>2, <1>3, <1>4, MarkIs
  <1>6. ASSUME NEW n \in Tools, task'[t].pc \in Grouped PROVE Booked(t, n)' \subseteq Booked(t, n)
    <2>1. task[t].pc \in Grouped
      BY <1>2 DEF Grouped, Preflight
    <2>2. Booked(t, n)' = Booked(t, n) \ {i}
      BY <1>1, <1>2, <1>3, <1>5, <1>6, <2>1, BookedAfter
    <2> QED BY <2>2
  <1>7. DetectorTypes' /\ BudgetTypeOK' /\ UNCHANGED tools /\ UNCHANGED <<usage, gate, history>>
    BY <1>1, <1>2 DEF DetectorTypes, BudgetTypeOK
  <1> QED BY <1>2, <1>4, <1>5, <1>6, <1>7, PlannedKeeps

(* What a tool's budget leaves.                                            *)
LEMMA ToolField ==
    ASSUME NEW r \in ToolBudget, NEW x \in Nat
    PROVE  /\ [r EXCEPT !.calls = x] \in ToolBudget /\ [r EXCEPT !.calls = x].calls = x
           /\ [r EXCEPT !.time = x] \in ToolBudget /\ [r EXCEPT !.time = x].calls = r.calls
           /\ [r EXCEPT !.time = x].cost = r.cost
           /\ [r EXCEPT !.cost = x] \in ToolBudget /\ [r EXCEPT !.cost = x].calls = r.calls
  BY Zenon DEF ToolBudget

LEMMA ToolSet ==
    ASSUME BudgetTypeOK, UNCHANGED usage, NEW n \in Tools, NEW r \in ToolBudget,
           tools' = [tools EXCEPT ![n] = r]
    PROVE  BudgetTypeOK' /\ tools'[n] = r /\ \A m \in Tools : m # n => tools'[m] = tools[m]
  BY DEF BudgetTypeOK

LEMMA ReserveToolIs ==
    ASSUME BudgetTypeOK, UNCHANGED usage, NEW n \in Tools, ReserveTool(n)
    PROVE  /\ BudgetTypeOK' /\ tools'[n].calls = tools[n].calls + 1
           /\ \A m \in Tools : m # n => tools'[m] = tools[m]
           /\ \A b \in ToolBudgets[n] : b.calls > 0 => tools'[n].calls <= b.calls
  <1> DEFINE x == tools[n].calls + 1
             r == [tools[n] EXCEPT !.calls = x]
  <1>1. tools[n] \in ToolBudget
    BY DEF BudgetTypeOK
  <1>2. tools[n].calls \in Nat /\ x \in Nat
    BY <1>1 DEF ToolBudget
  <1>3. tools' = [tools EXCEPT ![n] = r]
    BY Zenon DEF ReserveTool
  <1>4. r \in ToolBudget /\ r.calls = x
    <2> HIDE DEF x
    <2> QED BY <1>1, <1>2, ToolField, Zenon
  <1> HIDE DEF r
  <1>5. BudgetTypeOK' /\ tools'[n] = r /\ \A m \in Tools : m # n => tools'[m] = tools[m]
    BY <1>3, <1>4, ToolSet
  <1>6. tools'[n].calls = tools[n].calls + 1
    BY <1>4, <1>5
  <1>7. ASSUME NEW b \in ToolBudgets[n], b.calls > 0 PROVE tools'[n].calls <= b.calls
    <2>1. b.calls \in Nat
      BY BudgetAssumption DEF ToolBudget
    <2>2. tools[n].calls < b.calls
      BY <1>7, Zenon DEF ReserveTool, HasToolBudget
    <2> QED BY <1>2, <1>6, <2>1, <2>2
  <1> QED BY <1>5, <1>6, <1>7

LEMMA ReleaseToolIs ==
    ASSUME BudgetTypeOK, UNCHANGED usage, NEW n \in Tools, ReleaseTool(n)
    PROVE  /\ BudgetTypeOK' /\ tools'[n].calls \in Nat /\ tools[n].calls \in Nat
           /\ tools[n].calls <= tools'[n].calls + 1 /\ tools'[n].calls <= tools[n].calls
           /\ \A m \in Tools : m # n => tools'[m] = tools[m]
  <1> DEFINE y == tools[n].calls - 1
             x == Max({0, y})
             r == [tools[n] EXCEPT !.calls = x]
  <1>1. tools[n] \in ToolBudget
    BY DEF BudgetTypeOK
  <1>2. tools[n].calls \in Nat /\ y \in Int /\ y < tools[n].calls /\ tools[n].calls = y + 1
    BY <1>1 DEF ToolBudget
  <1>3. tools' = [tools EXCEPT ![n] = r]
    BY Zenon DEF ReleaseTool
  <1>4. x \in Nat /\ x <= tools[n].calls /\ tools[n].calls <= x + 1
    <2> HIDE DEF y
    <2>1. Max({0, y}) \in Nat /\ (y >= 0 => Max({0, y}) = y) /\ (y <= 0 => Max({0, y}) = 0)
      BY <1>2, MaxZero
    <2> HIDE DEF x
    <2>2. x \in Nat /\ (y >= 0 => x = y) /\ (y <= 0 => x = 0)
      BY <2>1 DEF x
    <2> QED BY <1>2, <2>2
  <1> HIDE DEF x
  <1>5. r \in ToolBudget /\ r.calls = x
    BY <1>1, <1>4, ToolField, Zenon
  <1> HIDE DEF r
  <1>6. BudgetTypeOK' /\ tools'[n] = r /\ \A m \in Tools : m # n => tools'[m] = tools[m]
    BY <1>3, <1>5, ToolSet
  <1> QED BY <1>2, <1>4, <1>5, <1>6

LEMMA CommitToolIs ==
    ASSUME BudgetTypeOK, UNCHANGED usage, NEW n \in Tools, NEW took \in Nat, NEW cost \in Nat,
           CommitTool(n, took, cost)
    PROVE  BudgetTypeOK' /\ \A m \in Tools : tools'[m].calls = tools[m].calls
  <1> DEFINE x == tools[n].time + took
             y == tools[n].cost + cost
             s == [tools[n] EXCEPT !.time = x]
             r == [s EXCEPT !.cost = y]
  <1>1. tools[n] \in ToolBudget
    BY DEF BudgetTypeOK
  <1>2. x \in Nat /\ y \in Nat
    BY <1>1 DEF ToolBudget
  <1>3. tools' = [tools EXCEPT ![n] = r]
    <2>1. s.cost = tools[n].cost
      BY <1>1, <1>2, ToolField, Zenon
    <2>2. tools' = [tools EXCEPT ![n] = [tools[n] EXCEPT !.time = x, !.cost = y]]
      BY Zenon DEF CommitTool
    <2> QED BY <2>2, Zenon
  <1> HIDE DEF x, y
  <1>4. s \in ToolBudget /\ s.calls = tools[n].calls
    BY <1>1, <1>2, ToolField, Zenon
  <1> HIDE DEF s
  <1>5. r \in ToolBudget /\ r.calls = tools[n].calls
    BY <1>2, <1>4, ToolField, Zenon
  <1> HIDE DEF r
  <1>6. BudgetTypeOK' /\ tools'[n] = r /\ \A m \in Tools : m # n => tools'[m] = tools[m]
    BY <1>3, <1>5, ToolSet
  <1> QED BY <1>5, <1>6

(* A tool that is reserved is planned once.                                *)
LEMMA BookedOnce ==
    ASSUME LoopInv, CallTypes', NEW t \in Tasks, Others(t), UNCHANGED <<usage, history>>,
           NEW n \in Tools, ReserveTool(n), NEW i, Booked(t, n)' = Booked(t, n) \cup {i},
           \A m \in Tools : m # n => Booked(t, m)' \subseteq Booked(t, m)
    PROVE  ToolsReserved'
  <1>1. BudgetTypeOK /\ CallTypes /\ HistoryTypes /\ ToolsReserved
    BY DEF LoopInv, Types
  <1>2. /\ BudgetTypeOK' /\ tools'[n].calls = tools[n].calls + 1
        /\ \A m \in Tools : m # n => tools'[m] = tools[m]
        /\ \A b \in ToolBudgets[n] : b.calls > 0 => tools'[n].calls <= b.calls
    BY <1>1, ReserveToolIs
  <1>3. Numbers /\ Numbers' /\ history' = history
    BY <1>1, <1>2 DEF Numbers, HistoryTypes
  <1>4. ASSUME NEW m \in Tools
        PROVE  /\ history'.ran[m] + Cardinality(Booked(t, m)') + tools[m].calls
                    <= history.ran[m] + Cardinality(Booked(t, m)) + tools'[m].calls
               /\ \/ tools'[m].calls <= tools[m].calls
                  \/ \A b \in ToolBudgets[m] : b.calls > 0 => tools'[m].calls <= b.calls
    <2> DEFINE d == Cardinality(Booked(t, m))
               dd == Cardinality(Booked(t, m)')
               x == history.ran[m]
               y == tools[m].calls
    <2>1. x \in Nat /\ y \in Nat /\ d \in Nat /\ IsFiniteSet(Booked(t, m))
      BY <1>1, NumberTypes, OpenFinite
    <2>2. CASE m = n
      <3>1. dd \in Nat /\ dd <= d + 1
        <4> DEFINE B == Booked(t, m)
        <4>1. Booked(t, m)' = B \cup {i}
          BY <2>2
        <4> HIDE DEF B
        <4>2. Cardinality(B \cup {i}) = IF i \in B THEN Cardinality(B) ELSE Cardinality(B) + 1
          BY <2>1, FS_AddElement DEF B
        <4>3. Cardinality(B) \in Nat
          BY <2>1 DEF B
        <4>4. Cardinality(B \cup {i}) \in Nat /\ Cardinality(B \cup {i}) <= Cardinality(B) + 1
          BY <4>2, <4>3
        <4> QED BY <4>1, <4>4 DEF B
      <3>2. tools'[m].calls = y + 1 /\ history'.ran[m] = x
        BY <1>2, <1>3, <2>2
      <3> HIDE DEF d, dd, x, y
      <3>3. history'.ran[m] + dd + y <= x + d + tools'[m].calls
        BY <2>1, <3>1, <3>2
      <3> QED BY <1>2, <2>2, <3>3 DEF d, dd, x, y
    <2>3. CASE m # n
      <3>1. dd \in Nat /\ dd <= d
        BY <1>1, <2>3, OpenShrinks
      <3>2. tools'[m].calls = y /\ history'.ran[m] = x
        BY <1>2, <1>3, <2>3
      <3> HIDE DEF d, dd, x, y
      <3>3. history'.ran[m] + dd + y <= x + d + tools'[m].calls /\ tools'[m].calls <= y
        BY <2>1, <3>1, <3>2
      <3> QED BY <3>3 DEF d, dd, x, y
    <2> QED BY <2>2, <2>3
  <1> QED BY <1>1, <1>3, <1>4, ToolsStep

LEMMA TheTool ==
    ASSUME CallTypes, NEW t \in Tasks, NEW i \in 1 .. Len(calls[t])
    PROVE  ToolOf(calls[t][i]) \in Tools
  <1>1. calls[t][i].kind \in Kinds
    BY TheCall
  <1> QED BY <1>1, AgentLoopAssumption DEF ToolOf

LEMMA PlanToolKeeps ==
    ASSUME LoopInv, NEW t \in Tasks, PlanTool(t)
    PROVE  LoopInv'
  <1> DEFINE i == task[t].idx
  <1>1. BudgetTypeOK /\ CallTypes /\ TaskOK(t) /\ DetectorTypes
    BY DEF LoopInv, Types
  <1>2. /\ task[t].pc = "plan" /\ ~Kind[calls[t][i].kind].builtin
        /\ \/ ReserveTool(ToolOf(calls[t][i])) /\ Mark(t, i, "planned")
           \/ Mark(t, i, "refused") /\ UNCHANGED tools
        /\ Planned(t)
        /\ UNCHANGED <<usage, gate, history>> /\ UNCHANGED <<ended, seen, retries, faults>>
    BY Zenon DEF PlanTool, At, Current, MarkCurrent, ToolOf
  <1>3. i \in 1 .. Len(calls[t])
    BY <1>1, <1>2 DEF TaskOK, Preflight
  <1>4. {"planned", "refused"} \subseteq CallStates \cap Ready /\ task[t].pc \in Grouped
    BY <1>2 DEF CallStates, Ready, Grouped, Preflight
  <1>5. DetectorTypes'
    BY <1>1, <1>2 DEF DetectorTypes
  <1>6. PICK n \in Tools : n = ToolOf(calls[t][i])
    BY <1>1, <1>3, TheTool
  <1>7. CASE ReserveTool(n) /\ Mark(t, i, "planned")
    <2>1. Becomes(t, i, "planned", calls[t][i].err, calls[t][i].approved)
      BY <1>1, <1>3, <1>4, <1>7, MarkIs
    <2>2. BudgetTypeOK'
      BY <1>1, <1>2, <1>6, <1>7, ReserveToolIs
    <2>3. ASSUME Others(t), task'[t].pc \in Grouped PROVE ToolsReserved'
      <3>1. Booked(t, n)' = Booked(t, n) \cup {i}
        <4>1. /\ "planned" \in {"planned", "start"} /\ ToolOf(calls[t][i]) = n
              /\ ~Kind[calls[t][i].kind].builtin
          BY <1>2, <1>6
        <4> HIDE DEF i
        <4> QED BY <1>1, <1>3, <1>4, <2>1, <2>3, <4>1, BookedAfter, Zenon
      <3>2. ASSUME NEW m \in Tools, m # n PROVE Booked(t, m)' \subseteq Booked(t, m)
        <4>1. Booked(t, m)' = Booked(t, m) \ {i}
          BY <1>1, <1>2, <1>3, <1>4, <1>6, <2>1, <2>3, <3>2, BookedAfter
        <4> QED BY <4>1
      <3>3. CallTypes' /\ UNCHANGED <<usage, history>> /\ ReserveTool(n)
        BY <1>2, <1>7, <2>1, Zenon DEF Becomes
      <3> HIDE DEF i
      <3> QED BY <1>6, <2>3, <3>1, <3>2, <3>3, BookedOnce
    <2> QED BY <1>2, <1>4, <1>5, <2>1, <2>2, <2>3, PlannedKeeps
  <1>8. CASE Mark(t, i, "refused") /\ UNCHANGED tools
    <2>1. Becomes(t, i, "refused", calls[t][i].err, calls[t][i].approved)
      BY <1>1, <1>3, <1>4, <1>8, MarkIs
    <2>2. BudgetTypeOK' /\ UNCHANGED tools
      BY <1>1, <1>2, <1>8 DEF BudgetTypeOK
    <2>3. ASSUME NEW m \in Tools, task'[t].pc \in Grouped PROVE Booked(t, m)' \subseteq Booked(t, m)
      <3>1. "refused" \notin {"planned", "start"}
        OBVIOUS
      <3>2. Booked(t, m)' = Booked(t, m) \ {i}
        BY <1>1, <1>3, <1>4, <2>1, <2>3, <3>1, BookedAfter
      <3> QED BY <3>2
    <2> QED BY <1>2, <1>4, <1>5, <2>1, <2>2, <2>3, PlannedKeeps
  <1> QED BY <1>2, <1>6, <1>7, <1>8

(* What a call that the group comes to is.                                 *)
LEMMA ComesTo ==
    ASSUME NEW i \in Nat, NEW st, NEW par, NEW need, NEW ok, NEW err
    PROVE  /\ CallFits("approve", i, i, st, par, need, ok, err) => st \in Ready
           /\ CallFits("dispatch", i, i, st, par, need, ok, err)
                  => st \in Ready /\ (st = "planned" /\ need => ok)
           /\ \A p : CallFits(p, i, i, "result", par, need, ok, err) => err \in Errors
  BY DEF CallFits, Expected, Preflight, Dispatch

(* A step of runToolCalls to the call at k, its calls unchanged.           *)
LEMMA TurnKeeps ==
    ASSUME LoopInv, NEW t \in Tasks, task[t].pc \in Dispatch \cup {"approve"},
           NEW p \in {"approve", "dispatch"}, NEW k \in 1 .. Len(calls[t]) + 1,
           TaskIs(t, p, task[t].err, task[t].loops, task[t].attempt, k),
           \A j \in 1 .. Len(calls[t]) :
               LET c == calls[t][j]
               IN  CallFits(p, k, j, c.st, Parallel(c), Needs(c), c.approved, c.err),
           UNCHANGED <<usage, tools, calls, gate, history>>, DetectorTypes'
    PROVE  LoopInv'
  <1>1. BudgetTypeOK /\ CallTypes
    BY DEF LoopInv, Types
  <1>2. /\ task[t].pc \in Grouped /\ p \in Grouped /\ p \notin Preflight \cup {"inline"}
        /\ task[t].pc \notin Preflight
    BY DEF Grouped, Preflight, Dispatch
  <1>3. task'[t].pc = p /\ task'[t].idx = k
    BY Zenon DEF TaskIs
  <1>4. /\ CallTypes' /\ calls' = calls /\ BudgetTypeOK' /\ UNCHANGED tools
        /\ UNCHANGED <<usage, gate, history>>
    BY <1>1 DEF CallTypes, BudgetTypeOK
  <1>5. ASSUME NEW j \in 1 .. Len(calls'[t]) PROVE CallOK(t, j)'
    <2> DEFINE c == calls[t][j]
    <2>1. CallFits(p, k, j, c.st, Parallel(c), Needs(c), c.approved, c.err)
      BY <1>4
    <2> QED BY <1>3, <1>4, <2>1, CallOKIs, Zenon
  <1>6. Open(t)' \subseteq Open(t) /\ \A n : Booked(t, n)' = Booked(t, n)
    BY <1>2, <1>3, <1>4, OpenSame
  <1>7. \A n \in Tools : Booked(t, n)' \subseteq Booked(t, n)
    BY <1>6
  <1>8. k \in 1 .. Len(calls'[t]) + 1
    BY <1>4
  <1> QED BY <1>2, <1>4, <1>5, <1>6, <1>7, <1>8, WithinKeeps

LEMMA NeedsNoApprovalKeeps ==
    ASSUME LoopInv, NEW t \in Tasks, NeedsNoApproval(t)
    PROVE  LoopInv'
  <1> DEFINE i == task[t].idx
             n == Len(calls[t])
  <1>1. BudgetTypeOK /\ CallTypes /\ TaskOK(t) /\ DetectorTypes
    BY DEF LoopInv, Types
  <1>2. /\ task[t].pc = "approve"
        /\ \/ i <= n /\ ~NeedsApproval(calls[t][i]) /\ Step(t, "approve")
           \/ i > n /\ task' = [task EXCEPT ![t].pc = "dispatch", ![t].idx = 1]
        /\ UNCHANGED <<usage, tools, calls, gate, history>>
        /\ UNCHANGED <<ended, seen, retries, faults>>
    BY Zenon DEF NeedsNoApproval, At, Current, shared
  <1>3. DetectorTypes'
    BY <1>1, <1>2 DEF DetectorTypes
  <1>4. task[t].pc \in Grouped /\ task[t].pc \in Dispatch \cup {"approve"}
    BY <1>2 DEF Grouped
  <1>5. /\ task \in [Tasks -> TaskRecord] /\ i \in Nat /\ n \in Nat /\ i \in 1 .. n + 1
        /\ \A j \in 1 .. n : CallOK(t, j)
    BY <1>1, <1>2, <1>4, GroupLoops, OpenFinite DEF TaskOK
  <1>6. "approve" \in Places /\ "dispatch" \in Places
    BY DEF Places
  <1>7. ASSUME NEW j \in 1 .. n
        PROVE  /\ j \in Nat /\ 1 <= j
               /\ LET c == calls[t][j]
                  IN  CallFits("approve", i, j, c.st, Parallel(c), Needs(c), c.approved, c.err)
    <2>1. CallOK(t, j)
      BY <1>5
    <2> QED BY <1>2, <1>5, <2>1, CallOKIs
  <1>8. CASE i <= n /\ ~NeedsApproval(calls[t][i]) /\ Step(t, "approve")
    <2>1. TaskIs(t, "approve", task[t].err, task[t].loops, task[t].attempt, i + 1)
      BY <1>5, <1>6, <1>8, StepIs
    <2>2. i + 1 \in 1 .. n + 1 /\ i \in 1 .. n
      BY <1>5, <1>8
    <2>3. ASSUME NEW j \in 1 .. n
          PROVE  LET c == calls[t][j]
                 IN  CallFits("approve", i + 1, j, c.st, Parallel(c), Needs(c), c.approved, c.err)
      <3> DEFINE c == calls[t][j]
      <3>1. /\ j \in Nat
            /\ CallFits("approve", i, j, c.st, Parallel(c), Needs(c), c.approved, c.err)
        BY <1>7
      <3>2. CASE j # i
        BY <1>5, <3>1, <3>2, ApprovalFits
      <3>3. CASE j = i
        <4>1. c.st \in Ready
          BY <1>5, <3>1, <3>3, ComesTo
        <4>2. c.st = "planned" /\ Needs(c) => c.approved
          BY <1>8, <3>3 DEF NeedsApproval, Needs
        <4> HIDE DEF c, i
        <4>3. CallFits("approve", i + 1, j, c.st, Parallel(c), Needs(c), c.approved, c.err)
          BY <1>5, <3>1, <3>3, <4>1, <4>2, ApprovalFits
        <4> QED BY <4>3 DEF c
      <3> QED BY <3>2, <3>3
    <2> QED BY <1>2, <1>3, <1>4, <2>1, <2>2, <2>3, TurnKeeps
  <1>9. CASE i > n /\ task' = [task EXCEPT ![t].pc = "dispatch", ![t].idx = 1]
    <2>1. TaskIs(t, "dispatch", task[t].err, task[t].loops, task[t].attempt, 1)
      BY <1>5, <1>6, <1>9, PcIdxIs
    <2>2. 1 \in 1 .. n + 1
      BY <1>5
    <2>3. ASSUME NEW j \in 1 .. n
          PROVE  LET c == calls[t][j]
                 IN  CallFits("dispatch", 1, j, c.st, Parallel(c), Needs(c), c.approved, c.err)
      BY <1>5, <1>7, <1>9, ApprovalFits
    <2> QED BY <1>2, <1>3, <1>4, <2>1, <2>2, <2>3, TurnKeeps
  <1> QED BY <1>2, <1>8, <1>9

LEMMA SerialDoneKeeps ==
    ASSUME LoopInv, NEW t \in Tasks, SerialDone(t)
    PROVE  LoopInv'
  <1> DEFINE i == task[t].idx
             n == Len(calls[t])
  <1>1. BudgetTypeOK /\ CallTypes /\ TaskOK(t) /\ DetectorTypes
    BY DEF LoopInv, Types
  <1>2. /\ task[t].pc = "inline" /\ calls[t][i].st = "result" /\ Step(t, "dispatch")
        /\ UNCHANGED <<usage, tools, calls, gate, history>>
        /\ UNCHANGED <<ended, seen, retries, faults>>
    BY Zenon DEF SerialDone, At, Current, shared
  <1>3. DetectorTypes'
    BY <1>1, <1>2 DEF DetectorTypes
  <1>4. task[t].pc \in Grouped /\ task[t].pc \in Dispatch \cup {"approve"}
    BY <1>2 DEF Grouped, Dispatch
  <1>5. /\ task \in [Tasks -> TaskRecord] /\ i \in Nat /\ n \in Nat /\ i \in 1 .. n
        /\ \A j \in 1 .. n : CallOK(t, j)
    BY <1>1, <1>2, <1>4, GroupLoops, OpenFinite DEF TaskOK
  <1>6. "dispatch" \in Places
    BY DEF Places
  <1>7. TaskIs(t, "dispatch", task[t].err, task[t].loops, task[t].attempt, i + 1)
    BY <1>2, <1>5, <1>6, StepIs
  <1>8. i + 1 \in 1 .. n + 1
    BY <1>5
  <1>9. ASSUME NEW j \in 1 .. n
        PROVE  LET c == calls[t][j]
               IN  CallFits("dispatch", i + 1, j, c.st, Parallel(c), Needs(c), c.approved, c.err)
    <2> DEFINE c == calls[t][j]
    <2>1. j \in Nat /\ CallOK(t, j)
      BY <1>5
    <2>2. CallFits("inline", i, j, c.st, Parallel(c), Needs(c), c.approved, c.err)
      BY <1>2, <2>1, CallOKIs
    <2>3. CASE j # i
      BY <1>5, <2>1, <2>2, <2>3, DispatchFits
    <2>4. CASE j = i
      <3>1. c.st = "result"
        BY <1>2, <2>4
      <3> HIDE DEF c, i
      <3>2. CallFits("inline", i, i, "result", Parallel(c), Needs(c), c.approved, c.err)
        BY <2>2, <2>4, <3>1
      <3>3. c.err \in Errors
        BY <1>5, <3>2, ComesTo, Zenon
      <3>4. CallFits("dispatch", i + 1, j, c.st, Parallel(c), Needs(c), c.approved, c.err)
        BY <1>5, <2>1, <2>4, <3>1, <3>3, DispatchFits
      <3> QED BY <3>4 DEF c
    <2> QED BY <2>3, <2>4
  <1> QED BY <1>2, <1>3, <1>4, <1>7, <1>8, <1>9, TurnKeeps

(* A step behind the preflight that changes one call of the group.         *)
LEMMA OneCall ==
    ASSUME LoopInv, NEW t \in Tasks, task[t].pc \in Dispatch \cup {"approve"},
           task'[t].pc \in Dispatch \cup {"approve"}, NEW i \in 1 .. Len(calls[t]), NEW st, NEW e,
           NEW ok, Becomes(t, i, st, e, ok)
    PROVE  /\ (st \in Ready \cup {"start", "backoff"}
                   => calls[t][i].st \in Ready \cup {"start", "backoff"})
                  => Open(t)' \subseteq Open(t)
           /\ (st \in {"planned", "start"} => calls[t][i].st \in {"planned", "start"})
                  => \A n : Booked(t, n)' \subseteq Booked(t, n)
  <1>1. CallTypes
    BY DEF LoopInv, Types
  <1>2. task[t].pc \in Grouped /\ task'[t].pc \in Grouped
    BY DEF Grouped
  <1>3. ASSUME st \in Ready \cup {"start", "backoff"}
                   => calls[t][i].st \in Ready \cup {"start", "backoff"}
        PROVE  Open(t)' \subseteq Open(t)
    <2>1. CASE st \in Ready \cup {"start", "backoff"}
      <3>1. i \in Open(t)
        BY <1>3, <2>1 DEF Open
      <3>2. Open(t)' = Open(t) \cup {i}
        BY <1>1, <2>1, OpenAfter
      <3> QED BY <3>1, <3>2
    <2>2. CASE st \notin Ready \cup {"start", "backoff"}
      <3>1. Open(t)' = Open(t) \ {i}
        BY <1>1, <2>2, OpenAfter
      <3> QED BY <3>1
    <2> QED BY <2>1, <2>2
  <1>4. ASSUME st \in {"planned", "start"} => calls[t][i].st \in {"planned", "start"}, NEW n
        PROVE  Booked(t, n)' \subseteq Booked(t, n)
    <2> DEFINE now == /\ st \in {"planned", "start"} /\ ToolOf(calls[t][i]) = n
                      /\ ~Kind[calls[t][i].kind].builtin
    <2>1. CASE now
      <3>1. i \in Booked(t, n)
        <4>1. task[t].pc \in Preflight \cup Dispatch \cup {"approve"}
          OBVIOUS
        <4> QED BY <1>4, <2>1, <4>1 DEF Booked
      <3>2. Booked(t, n)' = Booked(t, n) \cup {i}
        BY <1>1, <1>2, <2>1, BookedAfter, Zenon
      <3> QED BY <3>1, <3>2
    <2>2. CASE ~now
      <3>1. \/ st \notin {"planned", "start"} \/ ToolOf(calls[t][i]) # n
            \/ Kind[calls[t][i].kind].builtin
        BY <2>2, Zenon
      <3>2. Booked(t, n)' = Booked(t, n) \ {i}
        BY <1>1, <1>2, <3>1, BookedAfter, Zenon
      <3> QED BY <3>2
    <2> QED BY <2>1, <2>2
  <1> QED BY <1>3, <1>4

LEMMA OneCallKeeps ==
    ASSUME LoopInv, NEW t \in Tasks, task[t].pc \in Dispatch \cup {"approve"},
           NEW p \in Dispatch \cup {"approve"}, NEW k,
           TaskIs(t, p, task[t].err, task[t].loops, task[t].attempt, k),
           p = "inline" => k \in 1 .. Len(calls[t]), p # "inline" => k \in 1 .. Len(calls[t]) + 1,
           NEW i \in 1 .. Len(calls[t]), NEW st, NEW e, NEW ok, Becomes(t, i, st, e, ok),
           CallFits(p, k, i, st, Parallel(calls[t][i]), Needs(calls[t][i]), ok, e),
           \A j \in 1 .. Len(calls[t]) : j # i =>
               LET c == calls[t][j]
               IN  CallFits(p, k, j, c.st, Parallel(c), Needs(c), c.approved, c.err),
           st \in Ready \cup {"start", "backoff"}
               => calls[t][i].st \in Ready \cup {"start", "backoff"},
           UNCHANGED <<usage, gate, history>>, DetectorTypes', BudgetTypeOK',
           \/ /\ UNCHANGED tools
              /\ st \in {"planned", "start"} => calls[t][i].st \in {"planned", "start"}
           \/ Others(t) /\ task'[t].pc \in Grouped => ToolsReserved'
    PROVE  LoopInv'
  <1>1. p \in Grouped /\ task[t].pc \in Grouped /\ p \notin Preflight
    BY DEF Grouped, Dispatch, Preflight
  <1>2. task'[t].pc = p /\ task'[t].idx = k /\ \A q \in Tasks : q # t => task'[q] = task[q]
    BY Zenon DEF TaskIs
  <1>3. /\ CallTypes' /\ Len(calls'[t]) = Len(calls[t])
        /\ \A q \in Tasks : q # t => calls'[q] = calls[q]
    BY Zenon DEF Becomes
  <1>4. Others(t)
    BY <1>2, <1>3, Zenon DEF Others
  <1>5. ASSUME NEW j \in 1 .. Len(calls'[t]) PROVE CallOK(t, j)'
    <2>1. CASE j = i
      BY <1>2, <2>1, BecomesFits
    <2>2. CASE j # i
      BY <1>2, <1>3, <2>2, BecomesFits
    <2> QED BY <2>1, <2>2
  <1>6. /\ p \in Preflight \cup {"inline"} => k \in 1 .. Len(calls'[t])
        /\ p \in {"approve", "dispatch"} => k \in 1 .. Len(calls'[t]) + 1
    BY <1>1, <1>3
  <1>7. Open(t)' \subseteq Open(t)
    BY <1>2, OneCall
  <1>8. \/ ToolsReserved'
        \/ UNCHANGED tools /\ \A n \in Tools : Booked(t, n)' \subseteq Booked(t, n)
    <2>1. ASSUME UNCHANGED tools, st \in {"planned", "start"} => calls[t][i].st \in {"planned", "start"}
          PROVE  UNCHANGED tools /\ \A n \in Tools : Booked(t, n)' \subseteq Booked(t, n)
      BY <1>2, <2>1, OneCall
    <2> QED BY <1>1, <1>2, <1>4, <2>1, Zenon
  <1> QED BY <1>1, <1>3, <1>5, <1>6, <1>7, <1>8, WithinKeeps

(* A tool that is released leaves the plan.                                *)
LEMMA ReleasedOnce ==
    ASSUME LoopInv, CallTypes', NEW t \in Tasks, Others(t), UNCHANGED <<usage, history>>,
           NEW n \in Tools, ReleaseTool(n), NEW i \in Booked(t, n),
           \A m \in Tools : Booked(t, m)' = Booked(t, m) \ {i}
    PROVE  ToolsReserved'
  <1>1. BudgetTypeOK /\ CallTypes /\ HistoryTypes /\ ToolsReserved
    BY DEF LoopInv, Types
  <1>2. /\ BudgetTypeOK' /\ tools'[n].calls \in Nat /\ tools[n].calls \in Nat
        /\ tools[n].calls <= tools'[n].calls + 1 /\ tools'[n].calls <= tools[n].calls
        /\ \A m \in Tools : m # n => tools'[m] = tools[m]
    BY <1>1, ReleaseToolIs
  <1>3. Numbers /\ Numbers' /\ history' = history
    BY <1>1, <1>2 DEF Numbers, HistoryTypes
  <1>4. ASSUME NEW m \in Tools
        PROVE  /\ history'.ran[m] + Cardinality(Booked(t, m)') + tools[m].calls
                    <= history.ran[m] + Cardinality(Booked(t, m)) + tools'[m].calls
               /\ tools'[m].calls <= tools[m].calls
    <2> DEFINE B == Booked(t, m)
               d == Cardinality(B)
               dd == Cardinality(Booked(t, m)')
               x == history.ran[m]
               y == tools[m].calls
    <2>1. x \in Nat /\ y \in Nat /\ d \in Nat /\ IsFiniteSet(B)
      BY <1>1, NumberTypes, OpenFinite
    <2>2. dd = Cardinality(B \ {i}) /\ history'.ran[m] = x
      BY <1>3
    <2> HIDE DEF B
    <2>3. Cardinality(B \ {i}) = IF i \in B THEN Cardinality(B) - 1 ELSE Cardinality(B)
      BY <2>1, FS_RemoveElement
    <2>4. Cardinality(B \ {i}) \in Nat
      BY <2>1, FS_RemoveElement, FS_CardinalityType
    <2>5. CASE m = n
      <3>1. i \in B
        BY <2>5 DEF B
      <3>2. dd \in Nat /\ d = dd + 1
        BY <2>1, <2>2, <2>3, <2>4, <3>1
      <3>3. tools'[m].calls \in Nat /\ y <= tools'[m].calls + 1 /\ tools'[m].calls <= y
        BY <1>2, <2>5
      <3> HIDE DEF d, dd, x, y
      <3>4. history'.ran[m] + dd + y <= x + d + tools'[m].calls
        BY <2>1, <2>2, <3>2, <3>3
      <3> QED BY <3>3, <3>4 DEF d, dd, x, y, B
    <2>6. CASE m # n
      <3>1. dd \in Nat /\ dd <= d
        BY <2>1, <2>2, <2>3, <2>4
      <3>2. tools'[m].calls = y
        BY <1>2, <2>6
      <3> HIDE DEF d, dd, x, y
      <3>3. history'.ran[m] + dd + y <= x + d + tools'[m].calls /\ tools'[m].calls <= y
        BY <2>1, <2>2, <3>1, <3>2
      <3> QED BY <3>3 DEF d, dd, x, y, B
    <2> QED BY <2>5, <2>6
  <1> QED BY <1>1, <1>3, <1>4, ToolsStep

LEMMA ToolAnsweredKeeps ==
    ASSUME LoopInv, NEW t \in Tasks, ToolAnswered(t)
    PROVE  LoopInv'
  <1>1. BudgetTypeOK /\ CallTypes /\ TaskOK(t) /\ DetectorTypes
    BY DEF LoopInv, Types
  <1>2. /\ task[t].pc = "approve" /\ task[t].idx <= Len(calls[t])
        /\ NeedsApproval(calls[t][task[t].idx])
        /\ UNCHANGED <<usage, gate, history>> /\ UNCHANGED <<ended, seen, retries>>
    BY Zenon DEF ToolAnswered, At, Current
  <1>3. task[t].pc \in Grouped /\ task[t].pc \in Dispatch \cup {"approve"}
    BY <1>2 DEF Grouped
  <1>4. /\ task \in [Tasks -> TaskRecord] /\ Len(calls[t]) \in Nat
        /\ task[t].idx \in Nat /\ task[t].idx \in 1 .. Len(calls[t])
        /\ \A j \in 1 .. Len(calls[t]) : CallOK(t, j)
    BY <1>1, <1>2, <1>3, GroupLoops, OpenFinite DEF TaskOK
  <1>5. PICK i \in 1 .. Len(calls[t]) : i = task[t].idx
    BY <1>4
  <1> DEFINE b == calls[t][i]
  <1>6. PICK outcome \in Outcomes :
           /\ Answered(t, outcome)
           /\ \/ /\ UNCHANGED tools /\ Step(t, "approve")
                 /\ calls' = [calls EXCEPT ![t][i].approved = TRUE]
              \/ Mark(t, i, "refused") /\ ReleaseTool(ToolOf(b)) /\ Step(t, "approve")
              \/ Fail(t, "retryable") /\ UNCHANGED <<tools, calls>>
    BY <1>5, Zenon DEF ToolAnswered, MarkCurrent, Current
  <1>7. UNCHANGED faults \/ Fault
    BY <1>6, Zenon DEF Answered, Awaited
  <1>8. DetectorTypes'
    BY <1>1, <1>2, <1>7, DetectorStep
  <1>9. b.st = "planned" /\ Needs(b) /\ ~Kind[b.kind].builtin
    BY <1>2, <1>5 DEF NeedsApproval, Needs
  <1>10. /\ "approve" \in Places /\ "refused" \in CallStates /\ "refused" \in Ready
         /\ "planned" \in Ready /\ i \in Nat /\ i + 1 \in 1 .. Len(calls[t]) + 1
    BY <1>4 DEF Places, CallStates, Ready
  <1>11. ASSUME Step(t, "approve")
         PROVE  /\ TaskIs(t, "approve", task[t].err, task[t].loops, task[t].attempt, i + 1)
                /\ \A j \in 1 .. Len(calls[t]) : j # i =>
                       LET c == calls[t][j]
                       IN  CallFits("approve", i + 1, j, c.st, Parallel(c), Needs(c), c.approved,
                                    c.err)
    <2>1. TaskIs(t, "approve", task[t].err, task[t].loops, task[t].attempt, i + 1)
      BY <1>4, <1>5, <1>10, <1>11, StepIs
    <2>2. ASSUME NEW j \in 1 .. Len(calls[t]), j # i
          PROVE  LET c == calls[t][j]
                 IN  CallFits("approve", i + 1, j, c.st, Parallel(c), Needs(c), c.approved, c.err)
      <3> DEFINE c == calls[t][j]
      <3>1. j \in Nat /\ CallOK(t, j)
        BY <1>4
      <3>2. CallFits("approve", i, j, c.st, Parallel(c), Needs(c), c.approved, c.err)
        BY <1>2, <1>5, <3>1, CallOKIs
      <3> QED BY <1>10, <2>2, <3>1, <3>2, ApprovalFits
    <2> QED BY <2>1, <2>2
  <1>12. CASE /\ UNCHANGED tools /\ Step(t, "approve")
              /\ calls' = [calls EXCEPT ![t][i].approved = TRUE]
    <2>1. Becomes(t, i, b.st, b.err, TRUE)
      BY <1>1, <1>12, ApprovedIs
    <2>2. CallFits("approve", i + 1, i, b.st, Parallel(b), Needs(b), TRUE, b.err)
      <3> HIDE DEF b
      <3> QED BY <1>9, <1>10, ApprovalFits
    <2>3. BudgetTypeOK' /\ UNCHANGED tools /\ b.st \in Ready \cup {"start", "backoff"}
      BY <1>1, <1>2, <1>9, <1>10, <1>12 DEF BudgetTypeOK
    <2> QED BY <1>2, <1>3, <1>8, <1>10, <1>11, <1>12, <2>1, <2>2, <2>3, OneCallKeeps
  <1>13. CASE Mark(t, i, "refused") /\ ReleaseTool(ToolOf(b)) /\ Step(t, "approve")
    <2>1. Becomes(t, i, "refused", b.err, b.approved)
      BY <1>1, <1>10, <1>13, MarkIs
    <2>2. CallFits("approve", i + 1, i, "refused", Parallel(b), Needs(b), b.approved, b.err)
      <3> HIDE DEF b
      <3> QED BY <1>10, ApprovalFits
    <2>3. PICK n \in Tools : n = ToolOf(b)
      BY <1>1, TheTool
    <2>4. BudgetTypeOK'
      BY <1>1, <1>2, <1>13, <2>3, ReleaseToolIs
    <2>5. ASSUME Others(t), task'[t].pc \in Grouped PROVE ToolsReserved'
      <3>1. i \in Booked(t, n)
        BY <1>2, <1>9, <2>3 DEF Booked
      <3>2. \A m \in Tools : Booked(t, m)' = Booked(t, m) \ {i}
        BY <1>1, <1>3, <2>1, <2>5, BookedAfter
      <3>3. CallTypes' /\ UNCHANGED <<usage, history>> /\ ReleaseTool(n)
        BY <1>2, <1>13, <2>1, <2>3, Zenon DEF Becomes
      <3> QED BY <2>3, <2>5, <3>1, <3>2, <3>3, ReleasedOnce
    <2>6. b.st \in Ready \cup {"start", "backoff"}
      BY <1>9, <1>10
    <2> QED BY <1>2, <1>3, <1>8, <1>10, <1>11, <1>13, <2>1, <2>2, <2>4, <2>5, <2>6, OneCallKeeps
  <1>14. CASE Fail(t, "retryable") /\ UNCHANGED <<tools, calls>>
    <2>1. "retryable" \in Errors /\ UNCHANGED <<calls, tools, gate, history, ended, seen, retries>>
      BY <1>2, <1>14 DEF Errors
    <2> QED BY <1>2, <1>7, <1>14, <2>1, QuietFail
  <1> QED BY <1>6, <1>12, <1>13, <1>14

LEMMA InFlightIs ==
    ASSUME CallTypes, NEW t \in Tasks
    PROVE  /\ DOMAIN calls[t] = 1 .. Len(calls[t])
           /\ InFlight(t) = {j \in 1 .. Len(calls[t]) : calls[t][j].st \in Running}
  <1>1. DOMAIN calls[t] = 1 .. Len(calls[t])
    BY DEF CallTypes
  <1> QED BY <1>1, Zenon DEF InFlight, Running

LEMMA DispatchKeeps ==
    ASSUME LoopInv, NEW t \in Tasks,
           DispatchRefused(t) \/ DispatchParallel(t) \/ DispatchSerial(t)
    PROVE  LoopInv'
  <1>1. BudgetTypeOK /\ CallTypes /\ TaskOK(t) /\ DetectorTypes
    BY DEF LoopInv, Types
  <1>2. /\ task[t].pc = "dispatch" /\ task[t].idx <= Len(calls[t])
        /\ UNCHANGED <<usage, gate, history>> /\ UNCHANGED tools
        /\ UNCHANGED <<ended, seen, retries, faults>>
    BY Zenon DEF DispatchRefused, DispatchParallel, DispatchSerial, Dispatching, At, shared
  <1>3. task[t].pc \in Grouped /\ task[t].pc \in Dispatch \cup {"approve"}
    BY <1>2 DEF Grouped, Dispatch
  <1>4. /\ task \in [Tasks -> TaskRecord] /\ Len(calls[t]) \in Nat
        /\ task[t].idx \in Nat /\ task[t].idx \in 1 .. Len(calls[t])
        /\ \A j \in 1 .. Len(calls[t]) : CallOK(t, j)
    BY <1>1, <1>2, <1>3, GroupLoops, OpenFinite DEF TaskOK
  <1>5. PICK i \in 1 .. Len(calls[t]) : i = task[t].idx
    BY <1>4
  <1> DEFINE b == calls[t][i]
  <1>6. DetectorTypes' /\ BudgetTypeOK'
    BY <1>1, <1>2 DEF DetectorTypes, BudgetTypeOK
  <1>7. /\ {"dispatch", "inline"} \subseteq Places /\ {"dispatch", "inline"} \subseteq Dispatch
        /\ "start" \in CallStates /\ {"none", "retryable"} \subseteq Errors
        /\ i \in Nat /\ i + 1 \in 1 .. Len(calls[t]) + 1
    BY <1>4 DEF Places, Dispatch, CallStates, Errors
  <1>8. ASSUME NEW j \in 1 .. Len(calls[t])
        PROVE  LET c == calls[t][j]
               IN  /\ j \in Nat
                   /\ CallFits("dispatch", i, j, c.st, Parallel(c), Needs(c), c.approved, c.err)
    <2>1. CallOK(t, j)
      BY <1>4
    <2> QED BY <1>2, <1>4, <1>5, <2>1, CallOKIs
  <1>9. b.st \in Ready /\ (b.st = "planned" /\ Needs(b) => b.approved)
    <2>1. CallFits("dispatch", i, i, b.st, Parallel(b), Needs(b), b.approved, b.err)
      BY <1>8
    <2> HIDE DEF b
    <2> QED BY <1>7, <2>1, ComesTo
  <1>10. ASSUME Step(t, "dispatch")
         PROVE  /\ TaskIs(t, "dispatch", task[t].err, task[t].loops, task[t].attempt, i + 1)
                /\ \A j \in 1 .. Len(calls[t]) : j # i =>
                       LET c == calls[t][j]
                       IN  CallFits("dispatch", i + 1, j, c.st, Parallel(c), Needs(c), c.approved,
                                    c.err)
    <2>1. TaskIs(t, "dispatch", task[t].err, task[t].loops, task[t].attempt, i + 1)
      BY <1>4, <1>5, <1>7, <1>10, StepIs
    <2>2. ASSUME NEW j \in 1 .. Len(calls[t]), j # i
          PROVE  LET c == calls[t][j]
                 IN  CallFits("dispatch", i + 1, j, c.st, Parallel(c), Needs(c), c.approved, c.err)
      BY <1>7, <1>8, <2>2, DispatchFits
    <2> QED BY <2>1, <2>2
  <1>11. ASSUME NEW e \in {"none", "retryable"}, Answer(t, i, e), Step(t, "dispatch")
         PROVE  LoopInv'
    <2>1. Becomes(t, i, "result", e, FALSE)
      BY <1>1, <1>7, <1>11, AnswerIs
    <2>2. CallFits("dispatch", i + 1, i, "result", Parallel(b), Needs(b), FALSE, e)
      BY <1>7, DispatchFits
    <2>3. "result" \notin Ready \cup {"start", "backoff"} /\ "result" \notin {"planned", "start"}
      BY DEF Ready
    <2> QED BY <1>2, <1>3, <1>6, <1>7, <1>10, <1>11, <2>1, <2>2, <2>3, OneCallKeeps
  <1>12. CASE DispatchRefused(t)
    <2>1. Answer(t, i, "none") /\ Step(t, "dispatch")
      BY <1>5, <1>12, Zenon DEF DispatchRefused
    <2> QED BY <1>11, <2>1
  <1>13. ASSUME Mark(t, i, "start"), b.st = "planned"
         PROVE  /\ Becomes(t, i, "start", b.err, b.approved) /\ (Needs(b) => b.approved)
                /\ b.st \in Ready \cup {"start", "backoff"} /\ b.st \in {"planned", "start"}
    <2>1. Becomes(t, i, "start", b.err, b.approved)
      BY <1>1, <1>7, <1>13, MarkIs
    <2> QED BY <1>9, <1>13, <2>1
  <1>14. CASE DispatchParallel(t)
    <2>1. /\ b.st = "planned" /\ Parallel(b) /\ Step(t, "dispatch")
          /\ Mark(t, i, "start") \/ Answer(t, i, "retryable")
      BY <1>5, <1>14, Zenon DEF DispatchParallel, Dispatching, Current, MarkCurrent, Parallel
    <2>2. CASE Mark(t, i, "start")
      <3>1. CallFits("dispatch", i + 1, i, "start", Parallel(b), Needs(b), b.approved, b.err)
        <4>1. Needs(b) => b.approved
          BY <1>13, <2>1, <2>2
        <4> HIDE DEF b
        <4> QED BY <1>7, <2>1, <4>1, DispatchFits
      <3> QED BY <1>2, <1>3, <1>6, <1>7, <1>10, <1>13, <2>1, <2>2, <3>1, OneCallKeeps
    <2>3. CASE Answer(t, i, "retryable")
      BY <1>11, <2>1, <2>3
    <2> QED BY <2>1, <2>2, <2>3
  <1>15. CASE DispatchSerial(t)
    <2>1. /\ b.st = "planned" /\ ~Parallel(b) /\ Go(t, "inline")
          /\ Mark(t, i, "start") /\ InFlight(t) = {}
      BY <1>5, <1>15, Zenon DEF DispatchSerial, Dispatching, Current, MarkCurrent, Parallel
    <2>2. TaskIs(t, "inline", task[t].err, task[t].loops, task[t].attempt, i)
      BY <1>4, <1>5, <1>7, <2>1, GoIs
    <2>3. ASSUME NEW j \in 1 .. Len(calls[t]), j # i
          PROVE  LET c == calls[t][j]
                 IN  CallFits("inline", i, j, c.st, Parallel(c), Needs(c), c.approved, c.err)
      <3>1. calls[t][j].st \notin Running
        BY <1>1, <2>1, InFlightIs
      <3> QED BY <1>7, <1>8, <2>3, <3>1, DispatchFits
    <2>4. CallFits("inline", i, i, "start", Parallel(b), Needs(b), b.approved, b.err)
      <3>1. Needs(b) => b.approved
        BY <1>13, <2>1
      <3> HIDE DEF b
      <3> QED BY <1>7, <2>1, <3>1, DispatchFits
    <2> QED BY <1>2, <1>3, <1>6, <1>7, <1>13, <2>1, <2>2, <2>3, <2>4, OneCallKeeps
  <1> QED BY <1>12, <1>14, <1>15

(* The group's error is one of its results'.                               *)
LEMMA GroupErrorIs ==
    ASSUME LoopInv, NEW t \in Tasks, task[t].pc = "dispatch", task[t].idx > Len(calls[t]),
           InFlight(t) = {}
    PROVE  groupError(t) \in Errors
  <1> DEFINE failing == {i \in DOMAIN calls[t] : calls[t][i].err # "none"}
  <1>1. CallTypes /\ TaskOK(t)
    BY DEF LoopInv, Types
  <1>2. task[t].pc \in Grouped
    BY DEF Grouped, Dispatch
  <1>3. task[t].idx \in Nat /\ Len(calls[t]) \in Nat /\ \A j \in 1 .. Len(calls[t]) : CallOK(t, j)
    BY <1>1, <1>2, GroupLoops, OpenFinite DEF TaskOK
  <1>4. ASSUME NEW j \in 1 .. Len(calls[t]) PROVE calls[t][j].err \in Errors
    <2>1. CallOK(t, j) /\ j < task[t].idx
      BY <1>3
    <2>2. calls[t][j].st \notin Running
      BY <1>1, InFlightIs
    <2>3. calls[t][j].st \in Running \cup {"result"}
      BY <2>1 DEF CallOK, Expected, Dispatch, Preflight
    <2> QED BY <2>1, <2>2, <2>3 DEF CallOK
  <1>5. CASE failing = {}
    BY <1>5, Zenon DEF groupError, Errors
  <1>6. CASE failing # {}
    <2>1. failing \in SUBSET Nat /\ failing \subseteq 1 .. Len(calls[t])
      BY <1>1, <1>3, InFlightIs
    <2>2. Min(failing) \in failing
      BY <1>6, <2>1, MinIn
    <2>3. groupError(t) = calls[t][Min(failing)].err
      BY <1>6, Zenon DEF groupError
    <2> HIDE DEF failing
    <2> QED BY <1>4, <2>1, <2>2, <2>3
  <1> QED BY <1>5, <1>6

LEMMA JoinKeeps ==
    ASSUME LoopInv, NEW t \in Tasks, Join(t)
    PROVE  LoopInv'
  <1>1. /\ BudgetTypeOK /\ CallTypes /\ TaskTypes /\ DetectorTypes
    BY DEF LoopInv, Types
  <1>2. /\ task[t].pc = "dispatch" /\ task[t].idx > Len(calls[t]) /\ InFlight(t) = {}
        /\ \/ task' = [task EXCEPT ![t] = AtLoop(t)]
           \/ Fail(t, groupError(t))
        /\ calls' = [calls EXCEPT ![t] = <<>>]
        /\ UNCHANGED <<tools, gate, history>> /\ UNCHANGED usage
        /\ UNCHANGED <<ended, seen, retries, faults>>
    BY Zenon DEF Join, At, shared
  <1>3. DetectorTypes' /\ CostOnly
    <2>1. DetectorTypes'
      BY <1>1, <1>2 DEF DetectorTypes
    <2> QED BY <1>1, <1>2, <2>1, SameUsage
  <1>4. task[t].pc \in Dispatch
    BY <1>2 DEF Dispatch
  <1>5. CASE task' = [task EXCEPT ![t] = AtLoop(t)]
    BY <1>2, <1>3, <1>4, <1>5, LoopKeeps
  <1>6. CASE Fail(t, groupError(t))
    <2>1. groupError(t) \in Errors
      BY <1>2, GroupErrorIs
    <2>2. /\ task \in [Tasks -> TaskRecord] /\ task[t].attempt \in Nat
          /\ task[t].attempt <= MaxAttempts[t] /\ 0 <= MaxToolLoops[t]
      BY <1>1, TheTask
    <2>3. TaskIs(t, "failed", groupError(t), 0, task[t].attempt, 1)
      BY <1>6, <2>1, <2>2, FailIs
    <2>4. "failed" \in Away \ {"asking", "reserve"} /\ Fits(t, "failed", 0, task[t].attempt)
      BY DEF Away, Places, Grouped, Preflight, Dispatch, Fits
    <2>5. /\ CallTypes' /\ calls'[t] = <<>>
          /\ \A q \in Tasks : q # t => calls'[q] = calls[q]
      BY <1>1, <1>2, ClearedTypes
    <2>6. task[t].pc # "asking" /\ ("failed" \in {"create", "backoff"} <=> Beginning(t))
      BY <1>2 DEF Beginning
    <2> QED BY <1>2, <1>3, <2>2, <2>3, <2>4, <2>5, <2>6, AwayKeeps DEF CostOnly
  <1> QED BY <1>2, <1>5, <1>6

-----------------------------------------------------------------------------
(* invokeTool: one call of the group goes on, its task waits.              *)

(* What a step of a running call leaves.                                   *)
After(t, i, st, e, ok) ==
    /\ Becomes(t, i, st, e, ok)
    /\ \/ st \in Running /\ ok = calls[t][i].approved
       \/ st = "result" /\ e \in Errors

LEMMA GoingIs ==
    ASSUME LoopInv, NEW t \in Tasks, NEW i \in 1 .. Len(calls[t]), calls[t][i].st \in Running,
           UNCHANGED task, NEW st, NEW e, NEW ok, After(t, i, st, e, ok)
    PROVE  /\ task[t].pc \in Dispatch /\ Others(t) /\ CallTypes' /\ TaskTypes' /\ TaskOK(t)'
           /\ task'[t].pc = task[t].pc /\ ~Beginning(t) /\ ~Beginning(t)'
           /\ task[t].pc \notin {"asking", "reserve"}
  <1> DEFINE p == task[t].pc
             k == task[t].idx
             b == calls[t][i]
  <1>1. CallTypes /\ TaskTypes /\ TaskOK(t) /\ task' = task
    BY DEF LoopInv, Types
  <1>2. /\ p \in Places /\ k \in Nat /\ task \in [Tasks -> TaskRecord] /\ Len(calls[t]) \in Nat
        /\ \A j \in 1 .. Len(calls[t]) : CallOK(t, j)
    BY <1>1, TheTask, OpenFinite DEF TaskOK
  <1>3. i \in Nat /\ CallFits(p, k, i, b.st, Parallel(b), Needs(b), b.approved, b.err)
    BY <1>2, CallOKIs
  <1>4. /\ p \in Dispatch
        /\ \A ss \in Running : \A ee : CallFits(p, k, i, ss, Parallel(b), Needs(b), b.approved, ee)
        /\ \A ee \in Errors : \A y : CallFits(p, k, i, "result", Parallel(b), Needs(b), y, ee)
    <2>1. b.st \in Running
      OBVIOUS
    <2> HIDE DEF p, k, b
    <2> QED BY <1>2, <1>3, <2>1, GoingFits
  <1>5. CallFits(p, k, i, st, Parallel(b), Needs(b), ok, e)
    BY <1>4 DEF After
  <1>6. Becomes(t, i, st, e, ok)
    BY DEF After
  <1>7. /\ CallTypes' /\ Len(calls'[t]) = Len(calls[t])
        /\ \A q \in Tasks : q # t => calls'[q] = calls[q]
    BY <1>6, Zenon DEF Becomes
  <1>8. Others(t)
    BY <1>1, <1>7, Zenon DEF Others
  <1>9. p \in Grouped /\ p \notin {"create", "backoff", "asking", "reserve", "tools"} /\ p \notin Preflight
    BY <1>4 DEF Grouped, Dispatch, Preflight
  <1>10. TaskIs(t, p, task[t].err, task[t].loops, task[t].attempt, k)
    BY <1>1, <1>2, Zenon DEF TaskIs
  <1>11. ASSUME NEW j \in 1 .. Len(calls'[t]) PROVE CallOK(t, j)'
    <2>1. CASE j = i
      BY <1>1, <1>5, <1>6, <2>1, BecomesFits
    <2>2. CASE j # i
      <3> DEFINE c == calls[t][j]
      <3>1. CallFits(p, k, j, c.st, Parallel(c), Needs(c), c.approved, c.err)
        BY <1>2, <1>7, CallOKIs
      <3> QED BY <1>1, <1>6, <1>7, <2>2, <3>1, BecomesFits
    <2> QED BY <2>1, <2>2
  <1>12. TaskOK(t)'
    <2>1. task[t].loops > 0 /\ p \in Grouped \cup {"tools"}
      BY <1>9, GroupLoops
    <2>2. /\ p = "tools" => Len(calls'[t]) > 0
          /\ p \in Preflight \cup {"inline"} => k \in 1 .. Len(calls'[t])
          /\ p \in {"approve", "dispatch"} => k \in 1 .. Len(calls'[t]) + 1
      BY <1>1, <1>7, <1>9 DEF TaskOK
    <2> HIDE DEF p, k
    <2> QED BY <1>10, <1>11, <2>1, <2>2, GroupOK
  <1>13. TaskTypes'
    BY <1>1 DEF TaskTypes
  <1> QED BY <1>1, <1>4, <1>7, <1>8, <1>9, <1>12, <1>13 DEF Beginning

LEMMA CallKeeps ==
    ASSUME LoopInv, NEW t \in Tasks, NEW i \in 1 .. Len(calls[t]), calls[t][i].st \in Running,
           UNCHANGED <<task, gate>>, NEW st, NEW e, NEW ok, After(t, i, st, e, ok),
           BudgetTypeOK', HistoryTypes', DetectorTypes', history'.over = history.over,
           usage'["cost"] >= usage["cost"], Reserved', ToolsReserved'
    PROVE  LoopInv'
  <1>1. UNCHANGED task /\ UNCHANGED gate
    OBVIOUS
  <1>2. /\ Others(t) /\ CallTypes' /\ TaskTypes' /\ TaskOK(t)'
        /\ task'[t].pc = task[t].pc /\ task[t].pc \notin {"asking", "reserve"}
    BY <1>1, GoingIs
  <1>3. task[t].pc # "asking" /\ task'[t].pc \notin {"asking", "reserve"}
    BY <1>2
  <1> QED BY <1>1, <1>2, <1>3, GroupKeeps

(* The call needs no reservation.                                          *)
LEMMA QuietCall ==
    ASSUME LoopInv, NEW t \in Tasks, NEW i \in 1 .. Len(calls[t]), calls[t][i].st \in Running,
           UNCHANGED <<task, gate>>, NEW st \in {"storm", "retry", "returned", "commit", "result"},
           NEW e, NEW ok, After(t, i, st, e, ok),
           BudgetTypeOK', UNCHANGED history, DetectorTypes',
           \A r \in Resources \ {"cost"} : usage'[r] = usage[r], usage'["cost"] >= usage["cost"],
           \A n \in Tools : tools'[n].calls = tools[n].calls
    PROVE  LoopInv'
  <1>1. BudgetTypeOK /\ HistoryTypes /\ CallTypes /\ Reserved /\ ToolsReserved
    BY DEF LoopInv, Types
  <1>2. UNCHANGED task /\ history' = history /\ UNCHANGED <<task, gate>>
    OBVIOUS
  <1>3. /\ task[t].pc \in Dispatch /\ Others(t) /\ CallTypes'
        /\ task'[t].pc = task[t].pc /\ ~Beginning(t) /\ ~Beginning(t)'
    BY <1>2, GoingIs
  <1>4. HistoryTypes'
    BY <1>1, <1>2 DEF HistoryTypes
  <1>5. Numbers /\ Numbers'
    BY <1>1, <1>3, <1>4 DEF Numbers
  <1>6. Uncounted
    BY <1>2 DEF Uncounted
  <1>7. st \notin Ready \cup {"start", "backoff"} /\ st \notin {"planned", "start"}
    BY DEF Ready
  <1>8. Open(t)' \subseteq Open(t) /\ \A n : Booked(t, n)' \subseteq Booked(t, n)
    <2>1. Becomes(t, i, st, e, ok)
      BY DEF After
    <2> QED BY <1>3, <1>7, <2>1, OneCall
  <1>9. Reserved' /\ ToolsReserved'
    BY <1>1, <1>3, <1>5, <1>6, <1>8, CalmStep
  <1> QED BY <1>2, <1>4, <1>9, CallKeeps

(* The step leaves the run's budget, and the tools' but for time and cost. *)
LEMMA StillCall ==
    ASSUME LoopInv, NEW t \in Tasks, NEW i \in 1 .. Len(calls[t]), calls[t][i].st \in Running,
           UNCHANGED <<usage, tools, task, gate, history>>,
           NEW st \in {"storm", "retry", "returned", "commit", "result"},
           NEW e, NEW ok, After(t, i, st, e, ok), DetectorTypes'
    PROVE  LoopInv'
  <1>1. BudgetTypeOK
    BY DEF LoopInv, Types
  <1>2. CostOnly /\ UNCHANGED <<task, gate>> /\ UNCHANGED history
        /\ \A n \in Tools : tools'[n].calls = tools[n].calls
    BY <1>1, SameUsage
  <1> QED BY <1>2, QuietCall DEF CostOnly

LEMMA IsIs ==
    ASSUME CallTypes, NEW t \in Tasks, NEW i, NEW st \in Running, Is(t, i, st)
    PROVE  i \in 1 .. Len(calls[t]) /\ calls[t][i].st = st /\ calls[t][i].st \in Running
  BY InFlightIs DEF Is

(* How a call that is answered, marked or returned goes on.                *)
LEMMA AfterIs ==
    ASSUME CallTypes, NEW t \in Tasks, NEW i \in 1 .. Len(calls[t])
    PROVE  /\ \A e \in Errors : Answer(t, i, e) => After(t, i, "result", e, FALSE)
           /\ \A st \in Running : Mark(t, i, st)
                  => After(t, i, st, calls[t][i].err, calls[t][i].approved)
           /\ \A e \in CallErrors : Returns(t, i, e)
                  => After(t, i, "returned", e, calls[t][i].approved)
  <1>1. ASSUME NEW e \in Errors, Answer(t, i, e) PROVE After(t, i, "result", e, FALSE)
    <2>1. Becomes(t, i, "result", e, FALSE)
      BY <1>1, AnswerIs
    <2> QED BY <2>1, Zenon DEF After
  <1>2. ASSUME NEW st \in Running, Mark(t, i, st)
        PROVE  After(t, i, st, calls[t][i].err, calls[t][i].approved)
    <2>1. st \in CallStates
      BY DEF Running, CallStates
    <2>2. Becomes(t, i, st, calls[t][i].err, calls[t][i].approved)
      BY <1>2, <2>1, MarkIs
    <2> QED BY <2>2, Zenon DEF After
  <1>3. ASSUME NEW e \in CallErrors, Returns(t, i, e)
        PROVE  After(t, i, "returned", e, calls[t][i].approved)
    <2>1. "returned" \in Running /\ Becomes(t, i, "returned", e, calls[t][i].approved)
      BY <1>3, ReturnsIs DEF Running
    <2> QED BY <2>1, Zenon DEF After
  <1> QED BY <1>1, <1>2, <1>3

LEMMA SlotFailsKeeps ==
    ASSUME LoopInv, NEW t \in Tasks, NEW i, SlotFails(t, i) \/ RetryGivenUp(t, i)
    PROVE  LoopInv'
  <1>1. CallTypes /\ DetectorTypes
    BY DEF LoopInv, Types
  <1>2. /\ UNCHANGED <<usage, tools, task, gate, history>>
        /\ UNCHANGED <<ended, seen, retries, faults>>
    BY Zenon DEF SlotFails, RetryGivenUp, shared
  <1>3. DetectorTypes'
    BY <1>1, <1>2 DEF DetectorTypes
  <1>4. {"start", "backoff"} \subseteq Running /\ "retryable" \in Errors /\ "other" \in CallErrors
    BY DEF Running, Errors, CallErrors
  <1>5. CASE SlotFails(t, i)
    <2>1. Is(t, i, "start") /\ Answer(t, i, "retryable")
      BY <1>5, Zenon DEF SlotFails
    <2>2. i \in 1 .. Len(calls[t]) /\ calls[t][i].st \in Running
      BY <1>1, <1>4, <2>1, IsIs
    <2>3. After(t, i, "result", "retryable", FALSE)
      BY <1>1, <1>4, <2>1, <2>2, AfterIs
    <2> QED BY <1>2, <1>3, <2>2, <2>3, StillCall
  <1>6. CASE RetryGivenUp(t, i)
    <2>1. Is(t, i, "backoff") /\ Returns(t, i, "other")
      BY <1>6, Zenon DEF RetryGivenUp
    <2>2. i \in 1 .. Len(calls[t]) /\ calls[t][i].st \in Running
      BY <1>1, <1>4, <2>1, IsIs
    <2>3. After(t, i, "returned", "other", calls[t][i].approved)
      BY <1>1, <1>4, <2>1, <2>2, AfterIs
    <2> QED BY <1>2, <1>3, <2>2, <2>3, StillCall
  <1> QED BY <1>5, <1>6

LEMMA ExecuteReturnsKeeps ==
    ASSUME LoopInv, NEW t \in Tasks, NEW i, ExecuteReturns(t, i)
    PROVE  LoopInv'
  <1>1. CallTypes /\ DetectorTypes
    BY DEF LoopInv, Types
  <1>2. /\ Is(t, i, "executing") /\ UNCHANGED <<usage, tools, task, gate, history>>
        /\ UNCHANGED <<ended, seen>> /\ UNCHANGED faults
        /\ ObserveRetry \/ UNCHANGED retries
    BY Zenon DEF ExecuteReturns, bvars
  <1>3. DetectorTypes'
    BY <1>1, <1>2, DetectorStep
  <1>4. "executing" \in Running /\ {"retry", "storm", "returned"} \subseteq Running
    BY DEF Running
  <1>5. i \in 1 .. Len(calls[t]) /\ calls[t][i].st \in Running
    BY <1>1, <1>2, <1>4, IsIs
  <1>6. PICK st \in {"retry", "storm", "returned"}, e \in CallErrors :
            Becomes(t, i, st, e, calls[t][i].approved)
    BY <1>1, <1>5, ExecutedIs, Zenon
  <1>7. After(t, i, st, e, calls[t][i].approved)
    BY <1>4, <1>6, Zenon DEF After
  <1>8. st \in {"storm", "retry", "returned", "commit", "result"}
    BY <1>6
  <1> QED BY <1>2, <1>3, <1>5, <1>7, <1>8, StillCall

LEMMA ToolStormAnsweredKeeps ==
    ASSUME LoopInv, NEW t \in Tasks, NEW i, ToolStormAnswered(t, i)
    PROVE  LoopInv'
  <1>1. CallTypes /\ DetectorTypes
    BY DEF LoopInv, Types
  <1>2. PICK outcome \in Outcomes :
           /\ Answered(t, outcome)
           /\ \/ retries' = 0 /\ Mark(t, i, "retry")
              \/ UNCHANGED retries /\ Returns(t, i, "final")
              \/ UNCHANGED retries /\ Returns(t, i, "other")
    BY Zenon DEF ToolStormAnswered
  <1>3. /\ Is(t, i, "storm") /\ UNCHANGED <<usage, tools, task, gate, history>>
        /\ UNCHANGED <<ended, seen>>
    BY Zenon DEF ToolStormAnswered, bvars
  <1>4. UNCHANGED faults \/ Fault
    BY <1>2, Zenon DEF Answered, Awaited
  <1>5. DetectorTypes'
    BY <1>1, <1>2, <1>3, <1>4, DetectorStep
  <1>6. {"storm", "retry"} \subseteq Running /\ {"final", "other"} \subseteq CallErrors
    BY DEF Running, CallErrors
  <1>7. i \in 1 .. Len(calls[t]) /\ calls[t][i].st \in Running
    BY <1>1, <1>3, <1>6, IsIs
  <1>8. CASE Mark(t, i, "retry")
    <2>1. After(t, i, "retry", calls[t][i].err, calls[t][i].approved)
      BY <1>1, <1>6, <1>7, <1>8, AfterIs
    <2> QED BY <1>3, <1>5, <1>7, <2>1, StillCall
  <1>9. ASSUME NEW e \in {"final", "other"}, Returns(t, i, e) PROVE LoopInv'
    <2>1. After(t, i, "returned", e, calls[t][i].approved)
      BY <1>1, <1>6, <1>7, <1>9, AfterIs
    <2> QED BY <1>3, <1>5, <1>7, <2>1, StillCall
  <1> QED BY <1>2, <1>8, <1>9

LEMMA CountToolUseKeeps ==
    ASSUME LoopInv, NEW t \in Tasks, NEW i, CountToolUse(t, i)
    PROVE  LoopInv'
  <1>1. CallTypes /\ DetectorTypes /\ BudgetTypeOK
    BY DEF LoopInv, Types
  <1>2. /\ Is(t, i, "returned") /\ Mark(t, i, "commit")
        /\ CommitTool(ToolOf(calls[t][i]), calls[t][i].took, calls[t][i].cost)
        /\ UNCHANGED usage /\ UNCHANGED <<task, gate>> /\ UNCHANGED history
        /\ UNCHANGED <<ended, seen, retries, faults>>
    BY Zenon DEF CountToolUse
  <1>3. DetectorTypes'
    BY <1>1, <1>2 DEF DetectorTypes
  <1>4. {"returned", "commit"} \subseteq Running
    BY DEF Running
  <1>5. i \in 1 .. Len(calls[t]) /\ calls[t][i].st \in Running
    BY <1>1, <1>2, <1>4, IsIs
  <1>6. After(t, i, "commit", calls[t][i].err, calls[t][i].approved)
    BY <1>1, <1>2, <1>4, <1>5, AfterIs
  <1>7. BudgetTypeOK' /\ \A n \in Tools : tools'[n].calls = tools[n].calls
    <2>1. /\ ToolOf(calls[t][i]) \in Tools /\ calls[t][i].took \in Nat /\ calls[t][i].cost \in Nat
      BY <1>1, <1>5, TheTool, TheCall
    <2> QED BY <1>1, <1>2, <2>1, CommitToolIs
  <1>8. /\ \A r \in Resources \ {"cost"} : usage'[r] = usage[r]
        /\ usage'["cost"] >= usage["cost"]
    BY <1>1, <1>2 DEF BudgetTypeOK, Resources
  <1> QED BY <1>2, <1>3, <1>5, <1>6, <1>7, <1>8, QuietCall

LEMMA CommitCostKeeps ==
    ASSUME LoopInv, NEW t \in Tasks, NEW i, CommitCost(t, i) \/ ArtifactsFail(t, i)
    PROVE  LoopInv'
  <1>1. CallTypes /\ DetectorTypes /\ BudgetTypeOK
    BY DEF LoopInv, Types
  <1>2. /\ Is(t, i, "commit") /\ Commit(Amount("cost", calls[t][i].cost))
        /\ \E e \in Errors : Answer(t, i, e)
        /\ UNCHANGED tools /\ UNCHANGED <<task, gate>> /\ UNCHANGED history
        /\ UNCHANGED <<ended, seen, retries, faults>>
    <2>1. "none" \in Errors /\ "retryable" \in Errors /\ "final" \in Errors
      BY DEF Errors
    <2>2. CASE CommitCost(t, i)
      <3>1. /\ Is(t, i, "commit") /\ Commit(Amount("cost", calls[t][i].cost))
            /\ \E x : Answer(t, i, invokeError(t, calls[t][i], x))
            /\ UNCHANGED tools /\ UNCHANGED <<task, gate>> /\ UNCHANGED history
            /\ UNCHANGED <<ended, seen, retries, faults>>
        BY <2>2, Zenon DEF CommitCost
      <3>2. \A x : invokeError(t, calls[t][i], x) \in Errors
        BY <2>1, Zenon DEF invokeError
      <3> QED BY <3>1, <3>2, Zenon
    <2>3. CASE ArtifactsFail(t, i)
      BY <2>1, <2>3, Zenon DEF ArtifactsFail
    <2> QED BY <2>2, <2>3
  <1>3. DetectorTypes'
    BY <1>1, <1>2 DEF DetectorTypes
  <1>4. "commit" \in Running
    BY DEF Running
  <1>5. i \in 1 .. Len(calls[t]) /\ calls[t][i].st \in Running
    BY <1>1, <1>2, <1>4, IsIs
  <1>6. PICK e \in Errors : After(t, i, "result", e, FALSE)
    BY <1>1, <1>2, <1>5, AfterIs
  <1>7. calls[t][i].cost \in Nat
    BY <1>1, <1>5, TheCall
  <1>8. CostOnly /\ \A n \in Tools : tools'[n].calls = tools[n].calls
    BY <1>1, <1>2, <1>7, MoreCost
  <1> QED BY <1>2, <1>3, <1>5, <1>6, <1>8, QuietCall DEF CostOnly

(* What executing once more counts.                                        *)
LEMMA CountedIs ==
    ASSUME HistoryTypes, NEW n \in Tools,
           \/ history' = [history EXCEPT !.executed = @ + 1]
           \/ history' = [history EXCEPT !.executed = @ + 1, !.ran[n] = @ + 1]
    PROVE  /\ HistoryTypes' /\ history'.spawned = history.spawned
           /\ history'.executed = history.executed + 1 /\ history'.over = history.over
           /\ history'.ran[n] \in Nat /\ history.ran[n] \in Nat
           /\ history'.ran[n] = history.ran[n] \/ history'.ran[n] = history.ran[n] + 1
           /\ \A m \in Tools : m # n => history'.ran[m] = history.ran[m]
           /\ history' = [history EXCEPT !.executed = @ + 1] => history'.ran = history.ran
  <1> DEFINE x == history.executed + 1
             g == history.ran[n] + 1
             f == [history.ran EXCEPT ![n] = g]
  <1>1. /\ history.ran \in [Tools -> Nat] /\ x \in Nat /\ g \in Nat /\ history.ran[n] \in Nat
    BY DEF HistoryTypes
  <1>2. f \in [Tools -> Nat] /\ f[n] = g /\ \A m \in Tools : m # n => f[m] = history.ran[m]
    <2> HIDE DEF g
    <2> QED BY <1>1
  <1>3. CASE history' = [history EXCEPT !.executed = @ + 1]
    <2>1. history' = [history EXCEPT !.executed = x]
      BY <1>3, Zenon
    <2> HIDE DEF x
    <2>2. /\ HistoryTypes' /\ history'.spawned = history.spawned /\ history'.executed = x
          /\ history'.over = history.over /\ history'.ran = history.ran
      BY <1>1, <2>1, Zenon DEF HistoryTypes
    <2> QED BY <1>1, <2>2 DEF x
  <1>4. CASE history' = [history EXCEPT !.executed = @ + 1, !.ran[n] = @ + 1]
    <2> DEFINE h == [history EXCEPT !.executed = x]
    <2>1. history' = [h EXCEPT !.ran = [h.ran EXCEPT ![n] = h.ran[n] + 1]]
      BY <1>4, Zenon
    <2> HIDE DEF x
    <2>2. /\ h \in [spawned : Nat, executed : Nat, ran : [Tools -> Nat], over : [Tasks -> Nat]]
          /\ h.spawned = history.spawned /\ h.executed = x
          /\ h.over = history.over /\ h.ran = history.ran
      BY <1>1, Zenon DEF HistoryTypes
    <2> HIDE DEF h
    <2>3. history' = [h EXCEPT !.ran = f]
      BY <2>1, <2>2, Zenon
    <2> HIDE DEF f
    <2>4. /\ HistoryTypes' /\ history'.spawned = h.spawned /\ history'.executed = h.executed
          /\ history'.over = h.over /\ history'.ran = f
      BY <1>2, <2>2, <2>3, Zenon DEF HistoryTypes
    <2>5. history'.ran[n] = history.ran[n] + 1
      BY <1>2, <2>4 DEF g
    <2>6. /\ history'.spawned = history.spawned /\ history'.executed = history.executed + 1
          /\ history'.over = history.over
      BY <2>2, <2>4 DEF x
    <2>7. \A m \in Tools : m # n => history'.ran[m] = history.ran[m]
      BY <1>2, <2>4
    <2>8. history'.ran[n] \in Nat
      BY <1>1, <2>5
    <2>9. history' = [history EXCEPT !.executed = @ + 1] => history'.ran = history.ran
      <3>1. ASSUME history' = [history EXCEPT !.executed = @ + 1] PROVE history'.ran = history.ran
        BY <3>1, Zenon DEF HistoryTypes
      <3> QED BY <3>1
    <2> QED BY <1>1, <2>4, <2>5, <2>6, <2>7, <2>8, <2>9
  <1> QED BY <1>3, <1>4

(* A call executes what was reserved for it.                               *)
LEMMA ExecutingKeeps ==
    ASSUME LoopInv, NEW t \in Tasks, NEW i \in 1 .. Len(calls[t]), NEW n \in Tools,
           n = ToolOf(calls[t][i]), calls[t][i].st \in {"start", "backoff"},
           UNCHANGED <<usage, tools, task, gate>>, DetectorTypes',
           Becomes(t, i, "executing", calls[t][i].err, calls[t][i].approved),
           \/ history' = [history EXCEPT !.executed = @ + 1]
           \/ /\ calls[t][i].st = "start"
              /\ history' = [history EXCEPT !.executed = @ + 1, !.ran[n] = @ + 1]
    PROVE  LoopInv'
  <1>1. BudgetTypeOK /\ HistoryTypes /\ CallTypes /\ Reserved /\ ToolsReserved
    BY DEF LoopInv, Types
  <1>2. UNCHANGED task /\ UNCHANGED <<task, gate>> /\ usage' = usage /\ tools' = tools
    OBVIOUS
  <1>3. calls[t][i].st \in Running /\ "executing" \in Running
    BY DEF Running
  <1>4. After(t, i, "executing", calls[t][i].err, calls[t][i].approved)
    BY <1>3, Zenon DEF After
  <1>5. /\ task[t].pc \in Dispatch /\ Others(t) /\ CallTypes'
        /\ task'[t].pc = task[t].pc /\ ~Beginning(t) /\ ~Beginning(t)'
    BY <1>2, <1>3, <1>4, GoingIs
  <1>6. /\ HistoryTypes' /\ history'.spawned = history.spawned
        /\ history'.executed = history.executed + 1 /\ history'.over = history.over
        /\ history'.ran[n] \in Nat /\ history.ran[n] \in Nat
        /\ history'.ran[n] = history.ran[n] \/ history'.ran[n] = history.ran[n] + 1
        /\ \A m \in Tools : m # n => history'.ran[m] = history.ran[m]
    BY <1>1, CountedIs
  <1>7. BudgetTypeOK'
    BY <1>1, <1>2 DEF BudgetTypeOK
  <1>8. Numbers /\ Numbers'
    BY <1>1, <1>5, <1>6, <1>7 DEF Numbers
  <1>9. Reserved'
    <2> DEFINE B == Open(t)
               c == Cardinality(B)
               cc == Cardinality(Open(t)')
    <2>1. i \in B
      BY <1>5 DEF Open
    <2>2. Open(t)' = B \ {i}
      <3>1. "executing" \notin Ready \cup {"start", "backoff"}
        BY DEF Ready
      <3> QED BY <1>1, <1>5, <3>1, OpenAfter
    <2>3. IsFiniteSet(B) /\ c \in Nat
      BY <1>1, OpenFinite
    <2> HIDE DEF B
    <2>4. cc = c - 1
      BY <2>1, <2>2, <2>3, FS_RemoveElement
    <2>5. usage["toolCalls"] \in Nat /\ history.executed \in Nat
      BY <1>1, NumberTypes DEF Resources
    <2> HIDE DEF c, cc
    <2>6. history'.executed + cc + usage["toolCalls"] <= history.executed + c + usage'["toolCalls"]
      BY <1>2, <1>6, <2>3, <2>4, <2>5
    <2>7. usage'["subAgents"] + history.spawned + Cardinality(Starting)
               = usage["subAgents"] + history'.spawned + Cardinality(Starting')
      BY <1>2, <1>5, <1>6, <1>8, SubAgentSum DEF Numbers
    <2>8. \A r \in Resources \ {"cost"} : usage'[r] <= usage[r]
      BY <1>1, <1>2, NumberTypes
    <2> QED BY <1>1, <1>5, <1>8, <2>6, <2>7, <2>8, ReservedStep DEF c, cc, B
  <1>10. ToolsReserved'
    <2>1. ASSUME NEW m \in Tools, ToolBudgets[m] # {}
          PROVE  /\ history'.ran[m] + Cardinality(Booked(t, m)') + tools[m].calls
                      <= history.ran[m] + Cardinality(Booked(t, m)) + tools'[m].calls
                 /\ tools'[m].calls <= tools[m].calls
      <3> DEFINE B == Booked(t, m)
                 d == Cardinality(B)
                 dd == Cardinality(Booked(t, m)')
                 x == history.ran[m]
                 y == tools[m].calls
      <3>1. x \in Nat /\ y \in Nat /\ d \in Nat /\ IsFiniteSet(B)
        BY <1>1, NumberTypes, OpenFinite
      <3>2. Booked(t, m)' = B \ {i}
        <4>1. task[t].pc \in Grouped /\ task'[t].pc \in Grouped /\ "executing" \notin {"planned", "start"}
          BY <1>5 DEF Grouped
        <4> QED BY <1>1, <4>1, BookedAfter
      <3>3. tools'[m].calls = y /\ tools'[m].calls <= y
        BY <1>2, <3>1
      <3>4. CASE m = n /\ i \in B
        <4> HIDE DEF B
        <4>1. dd = d - 1
          BY <3>1, <3>2, <3>4, FS_RemoveElement
        <4>2. history'.ran[m] \in Nat /\ history'.ran[m] <= x + 1
          BY <1>6, <3>1, <3>4
        <4> HIDE DEF d, dd, x, y
        <4>3. history'.ran[m] + dd + y <= x + d + tools'[m].calls
          BY <3>1, <3>3, <4>1, <4>2
        <4> QED BY <3>3, <4>3 DEF d, dd, x, y, B
      <3>5. CASE history'.ran[m] = x
        <4>1. dd \in Nat /\ dd <= d
          BY <1>1, <3>2, OpenShrinks
        <4> HIDE DEF d, dd, x, y
        <4>2. history'.ran[m] + dd + y <= x + d + tools'[m].calls
          BY <3>1, <3>3, <3>5, <4>1
        <4> QED BY <3>3, <4>2 DEF d, dd, x, y, B
      <3>6. (m = n /\ i \in B) \/ history'.ran[m] = x
        <4>1. CASE m # n
          BY <1>6, <4>1
        <4>2. CASE history' = [history EXCEPT !.executed = @ + 1]
          BY <1>1, <4>2, CountedIs
        <4>3. CASE m = n /\ calls[t][i].st = "start"
          <5>1. calls[t][i].kind \in Kinds
            BY <1>1, TheCall
          <5>2. ~Kind[calls[t][i].kind].builtin
            BY <2>1, <4>3, <5>1, BuiltinAssumption DEF ToolOf
          <5>3. i \in B
            <6>1. /\ task[t].pc \in Preflight \cup Dispatch \cup {"approve"}
                  /\ calls[t][i].st \in {"planned", "start"} /\ ToolOf(calls[t][i]) = m
              BY <1>5, <4>3
            <6> QED BY <5>2, <6>1 DEF Booked
          <5> QED BY <4>3, <5>3
        <4> QED BY <4>1, <4>2, <4>3
      <3> QED BY <3>4, <3>5, <3>6
    <2> QED BY <1>1, <1>5, <1>8, <2>1, ToolsStep
  <1>11. usage'["cost"] >= usage["cost"]
    BY <1>1, <1>2 DEF BudgetTypeOK, Resources
  <1> QED BY <1>2, <1>3, <1>4, <1>6, <1>7, <1>9, <1>10, <1>11, CallKeeps

LEMMA ExecuteKeeps ==
    ASSUME LoopInv, NEW t \in Tasks, NEW i, Execute(t, i) \/ ExecuteAgain(t, i)
    PROVE  LoopInv'
  <1>1. CallTypes /\ DetectorTypes /\ BudgetTypeOK
    BY DEF LoopInv, Types
  <1>2. UNCHANGED <<usage, tools, task, gate>> /\ UNCHANGED <<ended, seen, retries, faults>>
    BY Zenon DEF Execute, ExecuteAgain, shared
  <1>3. DetectorTypes'
    BY <1>1, <1>2 DEF DetectorTypes
  <1>4. {"start", "backoff"} \subseteq Running /\ "other" \in CallErrors /\ 0 \in Nat
    BY DEF Running, CallErrors
  <1>5. /\ Is(t, i, "start") \/ Is(t, i, "backoff")
        /\ Execute(t, i) => Is(t, i, "start")
        /\ ExecuteAgain(t, i) => Is(t, i, "backoff")
    BY Zenon DEF Execute, ExecuteAgain
  <1>6. /\ i \in 1 .. Len(calls[t]) /\ calls[t][i].st \in Running
        /\ calls[t][i].st \in {"start", "backoff"} /\ (Execute(t, i) => calls[t][i].st = "start")
    BY <1>1, <1>4, <1>5, IsIs
  <1>7. PICK n \in Tools : n = ToolOf(calls[t][i])
    BY <1>1, <1>6, TheTool
  <1>8. CASE Returns(t, i, "other") /\ UNCHANGED history
    <2>1. After(t, i, "returned", "other", calls[t][i].approved)
      BY <1>1, <1>4, <1>6, <1>8, AfterIs
    <2> QED BY <1>2, <1>3, <1>6, <1>8, <2>1, StillCall
  <1>9. CASE Execute(t, i) /\ ~(Returns(t, i, "other") /\ UNCHANGED history)
    <2> DEFINE l == ToolTimeLeft(n)
    <2>1. /\ calls' = [calls EXCEPT ![t][i] = [Executes(t, i) EXCEPT !.left = l]]
          /\ history' = [history EXCEPT !.executed = @ + 1, !.ran[n] = @ + 1]
      BY <1>7, <1>9, Zenon DEF Execute
    <2>2. l \in Nat
      BY <1>1, TimeLeftType
    <2> HIDE DEF l
    <2>3. Becomes(t, i, "executing", calls[t][i].err, calls[t][i].approved)
      BY <1>1, <1>6, <2>1, <2>2, ExecutesIs
    <2> QED BY <1>2, <1>3, <1>6, <1>7, <1>9, <2>1, <2>3, ExecutingKeeps
  <1>10. CASE ExecuteAgain(t, i)
    <2>1. /\ calls' = [calls EXCEPT ![t][i] = Executes(t, i)]
          /\ history' = [history EXCEPT !.executed = @ + 1]
      BY <1>10, Zenon DEF ExecuteAgain
    <2>2. Becomes(t, i, "executing", calls[t][i].err, calls[t][i].approved)
      BY <1>1, <1>4, <1>6, <2>1, ExecutesIs
    <2> QED BY <1>2, <1>3, <1>6, <1>7, <2>1, <2>2, ExecutingKeeps
  <1> QED BY <1>8, <1>9, <1>10

(* A retry is reserved before it waits.                                    *)
LEMMA ReserveRetryKeeps ==
    ASSUME LoopInv, NEW t \in Tasks, NEW i, ReserveRetry(t, i)
    PROVE  LoopInv'
  <1>1. CallTypes /\ DetectorTypes /\ BudgetTypeOK /\ HistoryTypes /\ Reserved /\ ToolsReserved
    BY DEF LoopInv, Types
  <1>2. /\ Is(t, i, "retry") /\ UNCHANGED <<task, gate>> /\ UNCHANGED task /\ UNCHANGED tools
        /\ UNCHANGED history /\ UNCHANGED <<ended, seen, retries, faults>>
        /\ \/ Reserve(Amount("toolCalls", 1)) /\ Mark(t, i, "backoff")
           \/ UNCHANGED usage /\ Returns(t, i, "other")
    BY Zenon DEF ReserveRetry
  <1>3. DetectorTypes'
    BY <1>1, <1>2 DEF DetectorTypes
  <1>4. {"retry", "backoff"} \subseteq Running /\ "other" \in CallErrors
    BY DEF Running, CallErrors
  <1>5. i \in 1 .. Len(calls[t]) /\ calls[t][i].st \in Running
    BY <1>1, <1>2, <1>4, IsIs
  <1>6. CASE UNCHANGED usage /\ Returns(t, i, "other")
    <2>1. After(t, i, "returned", "other", calls[t][i].approved)
      BY <1>1, <1>4, <1>5, <1>6, AfterIs
    <2>2. UNCHANGED <<usage, tools, task, gate, history>>
      BY <1>2, <1>6
    <2> QED BY <1>3, <1>5, <2>1, <2>2, StillCall
  <1>7. CASE Reserve(Amount("toolCalls", 1)) /\ Mark(t, i, "backoff")
    <2>1. After(t, i, "backoff", calls[t][i].err, calls[t][i].approved)
      BY <1>1, <1>4, <1>5, <1>7, AfterIs
    <2>2. Becomes(t, i, "backoff", calls[t][i].err, calls[t][i].approved)
      BY <2>1, Zenon DEF After
    <2>3. /\ task[t].pc \in Dispatch /\ Others(t) /\ CallTypes'
          /\ task'[t].pc = task[t].pc /\ ~Beginning(t) /\ ~Beginning(t)'
      BY <1>2, <1>5, <2>1, GoingIs
    <2>4. /\ BudgetTypeOK' /\ usage'["toolCalls"] = usage["toolCalls"] + 1
          /\ \A r \in Resources : r # "toolCalls" => usage'[r] = usage[r]
          /\ \A r \in Resources : Limits[r] > 0 => usage'[r] <= Limits[r]
      <3>1. "toolCalls" \in Resources /\ 1 \in Nat
        BY DEF Resources
      <3> QED BY <1>1, <1>2, <1>7, <3>1, ReserveIs
    <2>5. HistoryTypes' /\ history' = history
      BY <1>1, <1>2 DEF HistoryTypes
    <2>6. Numbers /\ Numbers'
      BY <1>1, <2>3, <2>4, <2>5 DEF Numbers
    <2>7. Reserved'
      <3> DEFINE B == Open(t)
                 c == Cardinality(B)
                 cc == Cardinality(Open(t)')
      <3>1. Open(t)' = B \cup {i}
        BY <1>1, <1>5, <2>2, <2>3, OpenAfter
      <3>2. IsFiniteSet(B) /\ c \in Nat
        BY <1>1, OpenFinite
      <3> HIDE DEF B
      <3>3. cc \in Nat /\ cc <= c + 1
        <4>1. Cardinality(B \cup {i}) = IF i \in B THEN Cardinality(B) ELSE Cardinality(B) + 1
          BY <3>2, FS_AddElement
        <4> QED BY <3>1, <3>2, <4>1
      <3>4. usage["toolCalls"] \in Nat /\ history.executed \in Nat
        BY <1>1, NumberTypes DEF Resources
      <3> HIDE DEF c, cc
      <3>5. history'.executed + cc + usage["toolCalls"] <= history.executed + c + usage'["toolCalls"]
        BY <2>4, <2>5, <3>2, <3>3, <3>4
      <3>6. usage'["subAgents"] = usage["subAgents"] /\ history'.spawned = history.spawned
        BY <2>4, <2>5 DEF Resources
      <3>7. usage'["subAgents"] + history.spawned + Cardinality(Starting)
                 = usage["subAgents"] + history'.spawned + Cardinality(Starting')
        BY <2>3, <2>6, <3>6, SubAgentSum DEF Numbers
      <3> QED BY <1>1, <2>3, <2>4, <2>6, <3>5, <3>7, ReservedStep DEF c, cc, B
    <2>8. ToolsReserved'
      <3>1. "backoff" \notin {"planned", "start"}
        OBVIOUS
      <3>2. \A n : Booked(t, n)' \subseteq Booked(t, n)
        BY <1>5, <2>2, <2>3, <3>1, OneCall
      <3>3. ASSUME NEW m \in Tools
            PROVE  /\ history'.ran[m] + Cardinality(Booked(t, m)') + tools[m].calls
                        <= history.ran[m] + Cardinality(Booked(t, m)) + tools'[m].calls
                   /\ tools'[m].calls <= tools[m].calls
        <4> DEFINE d == Cardinality(Booked(t, m))
                   dd == Cardinality(Booked(t, m)')
        <4>1. d \in Nat /\ dd \in Nat /\ dd <= d
          BY <1>1, <3>2, OpenFinite, OpenShrinks
        <4>2. history.ran[m] \in Nat /\ tools[m].calls \in Nat
          BY <1>1, NumberTypes
        <4>3. history'.ran[m] = history.ran[m] /\ tools'[m] = tools[m]
          BY <1>2
        <4> HIDE DEF d, dd
        <4>4. history'.ran[m] + dd + tools[m].calls <= history.ran[m] + d + tools'[m].calls
          BY <4>1, <4>2, <4>3
        <4>5. tools'[m].calls <= tools[m].calls
          BY <4>2, <4>3
        <4> QED BY <4>4, <4>5 DEF d, dd
      <3> QED BY <1>1, <2>3, <2>6, <3>3, ToolsStep
    <2>9. usage'["cost"] >= usage["cost"] /\ history'.over = history.over
      <3>1. usage'["cost"] = usage["cost"] /\ usage["cost"] \in Nat
        BY <1>1, <2>4 DEF BudgetTypeOK, Resources
      <3> QED BY <2>5, <3>1
    <2> QED BY <1>2, <1>3, <1>5, <2>1, <2>4, <2>5, <2>7, <2>8, <2>9, CallKeeps
  <1> QED BY <1>2, <1>6, <1>7

-----------------------------------------------------------------------------
(* The invariant.                                                          *)

LEMMA InitTypes ==
    ASSUME Init
    PROVE  Types
  <1>1. BudgetTypeOK
    BY DEF Init, BudgetInit, BudgetTypeOK, ToolBudget
  <1>2. TaskTypes
    <2> DEFINE r == [pc |-> "new", err |-> "none", loops |-> 0, attempt |-> 1, idx |-> 1]
    <2>1. r \in TaskRecord /\ r.loops = 0 /\ r.attempt = 1
      BY DEF TaskRecord, Places, Errors
    <2>2. task = [t \in Tasks |-> r]
      BY DEF Init
    <2>3. \A t \in Tasks : MaxToolLoops[t] \in Nat \ {0} /\ MaxAttempts[t] \in Nat \ {0}
      BY AgentLoopAssumption
    <2> HIDE DEF r
    <2> QED BY <2>1, <2>2, <2>3 DEF TaskTypes
  <1>3. CallTypes
    BY DEF Init, CallTypes
  <1>4. HistoryTypes
    <2>1. /\ [n \in Tools |-> 0] \in [Tools -> Nat] /\ [t \in Tasks |-> 0] \in [Tasks -> Nat]
      OBVIOUS
    <2> QED BY <2>1 DEF Init, HistoryTypes
  <1>5. DetectorTypes
    BY AgentLoopAssumption DEF Init, DetectorTypes
  <1>6. GateTypes
    BY DEF Init, GateTypes
  <1> QED BY <1>1, <1>2, <1>3, <1>4, <1>5, <1>6 DEF Types

LEMMA InitLoop ==
    ASSUME Init
    PROVE  LoopInv
  <1>1. Types
    BY InitTypes
  <1>2. ASSUME NEW t \in Tasks PROVE calls[t] = <<>> /\ task[t].pc = "new" /\ Len(calls[t]) = 0
    BY DEF Init
  <1>3. ASSUME NEW t \in Tasks PROVE TaskOK(t)
    <2>1. \A j \in 1 .. Len(calls[t]) : CallOK(t, j)
      BY <1>2
    <2>2. ~InAttempt(t)
      BY <1>2 DEF InAttempt
    <2> QED BY <1>2, <2>1, <2>2 DEF TaskOK, Preflight
  <1>4. ASSUME NEW t \in Tasks PROVE Open(t) = {} /\ \A n : Booked(t, n) = {}
    <2>1. 1 .. Len(calls[t]) = {}
      BY <1>2
    <2> QED BY <2>1 DEF Open, Booked
  <1>5. Total(AllOpen) = 0 /\ \A n : Total(AllBooked(n)) = 0
    <2>1. Pairs(AllOpen) = {}
      BY <1>4 DEF Pairs, AllOpen
    <2>2. \A n : Pairs(AllBooked(n)) = {}
      BY <1>4 DEF Pairs, AllBooked
    <2> QED BY <2>1, <2>2, FS_EmptySet DEF Total
  <1>6. /\ \A r \in Resources : usage[r] = 0
        /\ \A n \in Tools : tools[n].calls = 0
        /\ history.executed = 0 /\ history.spawned = 0
        /\ \A n \in Tools : history.ran[n] = 0
        /\ \A t \in Tasks : history.over[t] = 0
    BY DEF Init, BudgetInit
  <1>7. Reserved
    <2>1. Cardinality(Starting) = 0
      <3>1. Starting = {}
        BY <1>2 DEF Starting
      <3> QED BY <3>1, FS_EmptySet
    <2>2. \A r \in Resources : Limits[r] \in Nat
      BY BudgetAssumption
    <2> QED BY <1>5, <1>6, <2>1, <2>2 DEF Reserved, Resources
  <1>8. ToolsReserved
    <2>1. \A n \in Tools : \A b \in ToolBudgets[n] : b.calls \in Nat
      BY BudgetAssumption DEF ToolBudget
    <2> QED BY <1>5, <1>6, <2>1 DEF ToolsReserved
  <1>9. Gated
    <2>1. gate.asking = Nobody /\ gate.answer = "none"
      BY DEF Init
    <2>2. HumanAskedFirst
      BY <1>2, <1>6, <2>1, AgentLoopAssumption DEF HumanAskedFirst, At
    <2> QED BY <1>6, <2>2 DEF Gated
  <1> QED BY <1>1, <1>3, <1>7, <1>8, <1>9 DEF LoopInv

LEMMA NextLoop ==
    ASSUME LoopInv, [Next]_vars
    PROVE  LoopInv'
  <1>1. CASE UNCHANGED vars
    <2>1. /\ UNCHANGED <<task, calls, usage, tools, gate, history>>
          /\ UNCHANGED <<ended, seen, retries, faults>>
      BY <1>1, Zenon DEF vars, bvars
    <2>2. DetectorTypes'
      BY <2>1 DEF LoopInv, Types, DetectorTypes
    <2> QED BY <2>1, <2>2, IdleKeeps
  <1>2. ASSUME NEW t \in Tasks, taskStep(t) PROVE LoopInv'
    BY <1>2, RunTaskKeeps, CreateTaskKeeps, GivenBackKeeps, AttemptFailsKeeps, StormAnsweredKeeps,
       NextAttemptKeeps, Zenon DEF taskStep
  <1>3. ASSUME NEW t \in Tasks, loopStep(t) PROVE LoopInv'
    BY <1>3, FailuresKeep, checkCostKeeps, CostAnsweredKeeps, ReserveModelCallKeeps, ChatKeeps,
       ReplyAnsweredKeeps, ChatCallsToolsKeeps, Zenon DEF loopStep
  <1>4. ASSUME NEW t \in Tasks, groupStep(t) PROVE LoopInv'
    BY <1>4, ReserveToolCallsKeeps, ObserveKeeps, PlanBuiltinKeeps, PlanToolKeeps,
       NeedsNoApprovalKeeps, ToolAnsweredKeeps, DispatchKeeps, SerialDoneKeeps, JoinKeeps, Zenon
       DEF groupStep
  <1>5. ASSUME NEW t \in Tasks, NEW i, callStep(t, i) PROVE LoopInv'
    BY <1>5, SlotFailsKeeps, ExecuteKeeps, ExecuteReturnsKeeps, ToolStormAnsweredKeeps,
       ReserveRetryKeeps, CountToolUseKeeps, CommitCostKeeps, Zenon DEF callStep
  <1>6. ASSUME NEW t \in Tasks, Timeout(t) \/ Cancel(t) PROVE LoopInv'
    BY <1>6, ContextKeeps
  <1> QED BY <1>1, <1>2, <1>3, <1>4, <1>5, <1>6, Zenon DEF Next

(* Tasks that run side by side keep their budgets, groups and gate in      *)
(* order, however runTask, agentLoop, runToolCalls and invokeTool          *)
(* interleave.                                                             *)
THEOREM LoopInvariant == Spec => []LoopInv
  <1>1. Init => LoopInv
    BY InitLoop
  <1>2. LoopInv /\ [Next]_vars => LoopInv'
    BY NextLoop
  <1> QED BY <1>1, <1>2, PTL DEF Spec

-----------------------------------------------------------------------------
(* What follows from it.                                                   *)

(* Every step of a task and of its tool calls keeps the types.             *)
THEOREM AgentTypes == Spec => []TypeOK
  <1>1. LoopInv => TypeOK
    <2>1. ASSUME LoopInv PROVE TypeOK
      <3>1. Types
        BY <2>1 DEF LoopInv
      <3>2. \A t \in Tasks : calls[t] \in Seq(Call)
        BY <3>1 DEF Types, CallTypes
      <3>3. /\ task \in [Tasks -> [pc : Places, err : Errors, loops : Nat, attempt : Nat, idx : Nat]]
            /\ \A t \in Tasks : task[t].loops <= MaxToolLoops[t] /\ task[t].attempt <= MaxAttempts[t]
        BY <3>1, Zenon DEF Types, TaskTypes, TaskRecord
      <3> QED BY <3>1, <3>2, <3>3, Zenon
              DEF TypeOK, Types, HistoryTypes, DetectorTypes, GateTypes
    <2> QED BY <2>1
  <1> QED BY <1>1, LoopInvariant, PTL

(* runTask, runToolCalls and executeWithRetries, with what they reserve    *)
(* and release in the run's BudgetManager, never execute unreserved, pass  *)
(* a limit, or lose count of sub-agents.                                   *)
THEOREM BudgetsAreHeld == Spec => []BudgetsHold
  <1>1. LoopInv => BudgetsHold
    <2> SUFFICES ASSUME LoopInv PROVE BudgetsHold
      OBVIOUS
    <2>1. BudgetTypeOK /\ HistoryTypes /\ CallTypes /\ Reserved /\ ToolsReserved
      BY DEF LoopInv, Types
    <2>2. Total(AllOpen) \in Nat /\ \A n : Total(AllBooked(n)) \in Nat
      <3>1. AllOpen \in Families /\ \A n : AllBooked(n) \in Families
        <4>1. \A t \in Tasks : Open(t) \in SUBSET Nat /\ IsFiniteSet(Open(t))
          BY <2>1, OpenFinite DEF Open
        <4>2. AllOpen \in Families
          BY <4>1 DEF AllOpen, Families
        <4>3. ASSUME NEW n PROVE AllBooked(n) \in Families
          <5>1. ASSUME NEW t \in Tasks PROVE Booked(t, n) \in SUBSET Nat /\ IsFiniteSet(Booked(t, n))
            <6>1. Booked(t, n) \subseteq 1 .. Len(calls[t])
              BY Zenon DEF Booked
            <6>2. IsFiniteSet(Booked(t, n))
              BY <2>1, OpenFinite
            <6> QED BY <6>1, <6>2
          <5> QED BY <5>1 DEF AllBooked, Families
        <4> QED BY <4>2, <4>3
      <3> QED BY <3>1, PairsFinite
    <2>3. ReservedFirst
      <3> DEFINE o == Total(AllOpen)
      <3>1. /\ history.executed + o <= usage["toolCalls"] /\ o \in Nat
            /\ history.executed \in Nat /\ usage["toolCalls"] \in Nat
        BY <2>1, <2>2, NumberTypes DEF Reserved, Resources
      <3> HIDE DEF o
      <3>2. history.executed <= usage["toolCalls"]
        BY <3>1
      <3> QED BY <2>1, <3>2 DEF ReservedFirst, Reserved
    <2>4. SubAgentsCounted
      BY <2>1 DEF Reserved, SubAgentsCounted, Starting
    <2>5. ASSUME NEW n \in Tools, NEW b \in ToolBudgets[n], b.calls > 0
          PROVE  history.ran[n] <= b.calls
      <3> DEFINE o == Total(AllBooked(n))
      <3>1. /\ history.ran[n] + o <= tools[n].calls /\ tools[n].calls <= b.calls
        BY <2>1, <2>5 DEF ToolsReserved
      <3>2. o \in Nat /\ history.ran[n] \in Nat /\ tools[n].calls \in Nat /\ b.calls \in Nat
        BY <2>1, <2>2, NumberTypes, BudgetAssumption DEF ToolBudget
      <3> HIDE DEF o
      <3> QED BY <3>1, <3>2
    <2> QED BY <2>3, <2>4, <2>5 DEF BudgetsHold, ToolBudgetsHold
  <1> QED BY <1>1, LoopInvariant, PTL

(* checkCost asks once, and past ApproveAbove no task starts more than the *)
(* model call it had been let into.                                        *)
THEOREM HumanIsAsked == Spec => []HumanAskedFirst
  <1>1. LoopInv => HumanAskedFirst
    BY DEF LoopInv, Gated
  <1> QED BY <1>1, LoopInvariant, PTL

(* A call in flight is one of a task that dispatches.                      *)
LEMMA FlightIs ==
    ASSUME LoopInv, NEW t \in Tasks, NEW i \in InFlight(t)
    PROVE  /\ i \in 1 .. Len(calls[t]) /\ DOMAIN calls[t] = 1 .. Len(calls[t])
           /\ calls[t][i].st \in Running /\ task[t].pc \in Dispatch
           /\ task[t].idx \in Nat /\ Len(calls[t]) \in Nat
           /\ \A j \in 1 .. Len(calls[t]) : CallOK(t, j)
  <1>1. CallTypes /\ TaskTypes /\ TaskOK(t)
    BY DEF LoopInv, Types
  <1>2. /\ i \in 1 .. Len(calls[t]) /\ DOMAIN calls[t] = 1 .. Len(calls[t])
        /\ calls[t][i].st \in Running
    BY <1>1, InFlightIs
  <1>3. /\ task[t].idx \in Nat /\ Len(calls[t]) \in Nat
        /\ \A j \in 1 .. Len(calls[t]) : CallOK(t, j)
    BY <1>1, TheTask, OpenFinite DEF TaskOK
  <1>4. task[t].pc \in Dispatch
    BY <1>2, <1>3, NotRunning
  <1> QED BY <1>2, <1>3, <1>4

(* runToolCalls asks for all approvals of a group before it dispatches,    *)
(* and runs a serial call alone.                                           *)
THEOREM GroupsInOrder == Spec => []GroupInOrder
  <1>1. LoopInv => GroupInOrder
    <2> SUFFICES ASSUME LoopInv PROVE GroupInOrder
      OBVIOUS
    <2>1. ASSUME NEW t \in Tasks, NEW i \in InFlight(t), ~Kind[calls[t][i].kind].parallel,
                 NEW j \in DOMAIN calls[t]
          PROVE  /\ j < i => calls[t][j].st = "result"
                 /\ j > i => calls[t][j].st \in {"planned", "refused"}
      <3>1. /\ i \in 1 .. Len(calls[t]) /\ j \in 1 .. Len(calls[t])
            /\ calls[t][i].st \in Running /\ task[t].pc \in Dispatch
            /\ task[t].idx \in Nat /\ Len(calls[t]) \in Nat /\ CallOK(t, i) /\ CallOK(t, j)
        BY <2>1, FlightIs
      <3>2. calls[t][i].st # "result" /\ calls[t][i].st \notin Ready
        BY <3>1 DEF Running, Ready
      <3>3. i = task[t].idx /\ task[t].pc = "inline"
        <4>1. ~(i < task[t].idx)
          BY <2>1, <3>1, <3>2 DEF CallOK
        <4>2. i < task[t].idx \/ (i = task[t].idx /\ task[t].pc = "inline")
          BY <3>1, <3>2 DEF CallOK, Expected, Dispatch, Preflight
        <4> QED BY <4>1, <4>2
      <3>4. j < i => calls[t][j].st = "result"
        BY <3>1, <3>3 DEF CallOK
      <3>5. j > i => calls[t][j].st \in Ready
        BY <3>1, <3>3 DEF CallOK, Expected, Dispatch, Preflight
      <3> QED BY <3>4, <3>5 DEF Ready
    <2>2. ASSUME NEW t \in Tasks, NEW i \in InFlight(t)
          PROVE  /\ ~At(t, "approve")
                 /\ Kind[calls[t][i].kind].approve /\ ~Kind[calls[t][i].kind].builtin
                        => calls[t][i].approved
      <3>1. calls[t][i].st \in Running /\ task[t].pc \in Dispatch /\ CallOK(t, i)
        BY <2>2, FlightIs
      <3>2. ~At(t, "approve")
        BY <3>1 DEF At, Dispatch
      <3> QED BY <3>1, <3>2 DEF CallOK
    <2> QED BY <2>1, <2>2, Zenon DEF GroupInOrder, SerialAlone, ApprovedFirst
  <1> QED BY <1>1, LoopInvariant, PTL

(* No call runs on behind a task that runToolCalls returned to.            *)
THEOREM NothingStraggles == Spec => []NoStragglers
  <1>1. LoopInv => NoStragglers
    <2> SUFFICES ASSUME LoopInv, NEW t \in Tasks, task[t].pc \notin {"dispatch", "inline"},
                        NEW i \in InFlight(t)
                 PROVE  FALSE
      BY DEF NoStragglers
    <2> QED BY FlightIs DEF Dispatch
  <1> QED BY <1>1, LoopInvariant, PTL

=============================================================================
