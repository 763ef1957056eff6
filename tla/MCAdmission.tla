---------------------------- MODULE MCAdmission -----------------------------
(* Admission with named runs: a tenant with two runs of one workflow, and  *)
(* a tenant with a run of its own.                                         *)
EXTENDS Admission, TLC

CONSTANTS r1, r2, r3, s1, s2, s3, s4

Tenants == [r \in Runs |-> IF r = r3 THEN "B" ELSE "A"]

(* One tenant with two runs of a workflow and one without.                 *)
OneTenant == [r \in Runs |-> "A"]

Names == [r \in Runs |-> IF r = r3 THEN NoName ELSE "w"]

OneAgent == [i \in Inner |-> "agent"]

Alike == Permutations({r1, r2})

=============================================================================
