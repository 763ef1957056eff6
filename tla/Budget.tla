------------------------------- MODULE Budget -------------------------------
(***************************************************************************)
(* policy.BudgetManager for one run: what the run used against its limits, *)
(* and what each tool used against the budgets of every policy.  Each      *)
(* operator is one critical section of the manager's mutex.  Tokens are    *)
(* counted and compared as cost units are, so "cost" stands for both.      *)
(***************************************************************************)
EXTENDS Integers, FiniteSets, FiniteSetsExt

CONSTANTS
    Tools,         \* tool names, those of the built-ins included
    Limits,        \* core.Limits per resource; zero is unlimited
    ToolBudgets    \* per tool the ToolBudgets that apply to it; zero is unlimited

Resources == {"modelCalls", "toolCalls", "subAgents", "cost"}
ToolBudget == [calls : Nat, time : Nat, cost : Nat]

ASSUME BudgetAssumption ==
    /\ Limits \in [Resources -> Nat]
    /\ \A n \in Tools : ToolBudgets[n] \subseteq ToolBudget

VARIABLES
    usage,         \* BudgetManager.usage of the run
    tools          \* BudgetManager.tools of the run

bvars == <<usage, tools>>

BudgetTypeOK ==
    /\ usage \in [Resources -> Nat]
    /\ tools \in [Tools -> ToolBudget]

BudgetInit ==
    /\ usage = [r \in Resources |-> 0]
    /\ tools = [n \in Tools |-> [calls |-> 0, time |-> 0, cost |-> 0]]

(* A core.Usage with one field set.                                        *)
Amount(resource, n) == [r \in Resources |-> IF r = resource THEN n ELSE 0]

Add(used) == [r \in Resources |-> usage[r] + used[r]]

checkLimits(u) == \A r \in Resources : Limits[r] > 0 => u[r] <= Limits[r]

CanReserve(used) == checkLimits(Add(used))

Reserve(used) == CanReserve(used) /\ usage' = Add(used)

Release(used) == usage' = [r \in Resources |-> Max({0, usage[r] - used[r]})]

(* The usage is counted even when it is past a limit.                      *)
Commit(used) == usage' = Add(used)

-----------------------------------------------------------------------------
(* Mutant of HasToolBudget: the call that reaches the limit is let past it.*)
HasToolBudgetPlusOne(n) ==
    \A b \in ToolBudgets[n] :
        /\ b.calls > 0 => tools[n].calls <= b.calls
        /\ b.time > 0 => tools[n].time < b.time
        /\ b.cost > 0 => tools[n].cost < b.cost

HasToolBudget(n) ==
    \A b \in ToolBudgets[n] :
        /\ b.calls > 0 => tools[n].calls < b.calls
        /\ b.time > 0 => tools[n].time < b.time
        /\ b.cost > 0 => tools[n].cost < b.cost

ReserveTool(n) ==
    /\ HasToolBudget(n)
    /\ tools' = [tools EXCEPT ![n].calls = @ + 1]

ReleaseTool(n) == tools' = [tools EXCEPT ![n].calls = Max({0, @ - 1})]

TimeLimits(n) == {b.time : b \in {b \in ToolBudgets[n] : b.time > 0}}

(* What is left of the tightest time budget; zero without one.             *)
ToolTimeLeft(n) ==
    IF TimeLimits(n) = {} THEN 0 ELSE Max({0, Min(TimeLimits(n)) - tools[n].time})

ToolTimeUsedUp(n) == TimeLimits(n) # {} /\ Min(TimeLimits(n)) <= tools[n].time

CommitTool(n, took, cost) ==
    tools' = [tools EXCEPT ![n].time = @ + took, ![n].cost = @ + cost]

=============================================================================
