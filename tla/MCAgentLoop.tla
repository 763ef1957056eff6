---------------------------- MODULE MCAgentLoop -----------------------------
(* AgentLoop with tools of every class: a read that may run in parallel    *)
(* and be retried, a write that is serial and needs approval, a delegation *)
(* and a tool the agent does not have.                                     *)
EXTENDS AgentLoop, TLC

CONSTANTS t1, t2

Definition(tool, builtin, known, approve, parallel, retry) ==
    [tool |-> tool, builtin |-> builtin, known |-> known, valid |-> TRUE,
     approve |-> approve, parallel |-> parallel, retry |-> retry]

MCKind ==
    [read |-> Definition("read", FALSE, TRUE, FALSE, TRUE, TRUE),
     write |-> Definition("write", FALSE, TRUE, TRUE, FALSE, FALSE),
     delegate |-> Definition("delegate", TRUE, TRUE, FALSE, TRUE, FALSE),
     unknown |-> Definition("read", FALSE, FALSE, FALSE, FALSE, FALSE)]

MCLimits == [modelCalls |-> 3, toolCalls |-> 3, subAgents |-> 3, cost |-> 3]

MCToolBudgets ==
    [read |-> {[calls |-> 2, time |-> 0, cost |-> 0], [calls |-> 3, time |-> 1, cost |-> 0]},
     write |-> {[calls |-> 1, time |-> 0, cost |-> 1]},
     delegate |-> {}]

(* The tasks compete for the one write of the run and for reads.           *)
ToolGroups ==
    [t \in Tasks |-> IF t = t1 THEN {<<"read", "write">>} ELSE {<<"read">>, <<"write">>}]

(* A delegation that may fail its task beside a read.                      *)
DelegateGroups ==
    [t \in Tasks |-> IF t = t1 THEN {<<"delegate", "read">>} ELSE {<<"unknown">>}]

Loops == [t \in Tasks |-> IF t = t1 THEN 2 ELSE 1]

Attempts == [t \in Tasks |-> IF t = t1 THEN 1 ELSE 2]

MCResults ==
    {[err |-> "none", cost |-> 1, took |-> 1],
     [err |-> "transient", cost |-> 0, took |-> 0],
     [err |-> "final", cost |-> 0, took |-> 0]}

Alike == Permutations(Tasks)

=============================================================================
