---------------------------- MODULE MCApprovals -----------------------------
(* Approvals with named waiters, runs and messages.                        *)
EXTENDS Approvals

CONSTANTS q1, q2, a1, m1, m2, r1, r2

OneRun  == <<r1>>
TwoRuns == <<r1, r2>>

InOneRun == [w \in Waiters |-> r1]

InTwoRuns == [w \in Waiters |-> IF w = q2 THEN r2 ELSE r1]

=============================================================================
