---------------------------- MODULE MCStageTasks ----------------------------
(* StageTasks for TLC: a stage of every kind and policy, among them one    *)
(* with two equal steps and two with a step that delegates.                *)
EXTENDS StageTasks

CONSTANTS a, b, c

PlanOf(kind, policy, quorum, attempts, keys, child, gates) ==
    [kind |-> kind, policy |-> policy, quorum |-> quorum, attempts |-> attempts,
     keys |-> keys, child |-> child, gates |-> gates]

NoChild(n) == [i \in 1 .. n |-> "none"]

MCPlans == {
    PlanOf("parallel", "quorum", 2, 1, <<a, b, c>>, NoChild(3), {}),
    PlanOf("parallel", "fail_fast", 0, 2, <<a, a>>, NoChild(2), {}),
    PlanOf("parallel", "best_effort", 0, 1, <<a, b>>, <<c, "none">>, {}),
    PlanOf("parallel", "wait_all", 0, 2, <<a, b>>, NoChild(2), {"output"}),
    PlanOf("sequential", "fail_fast", 0, 2, <<a, b>>, <<"none", c>>, {"start"}),
    PlanOf("sequential", "fail_fast", 0, 2, <<a, b>>, <<"none", c>>, {})}

(* A step delegates the task of another step.                              *)
MCShared == {PlanOf("parallel", "wait_all", 0, 1, <<a, b>>, <<b, "none">>, {})}

(* A single step.                                                          *)
MCAlone == {PlanOf("sequential", "fail_fast", 0, 1, <<a>>, NoChild(1), {})}

=============================================================================
