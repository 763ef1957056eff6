--------------------------- MODULE MCEventStream ----------------------------
(* EventStream with named writers.                                         *)
EXTENDS EventStream

CONSTANTS w1, w2

(* mem: no channel fills, since no event beyond MaxEvents is stored.       *)
Roomy == [d \in Drivers |-> IF d = "mem" THEN MaxEvents ELSE 2]

Tight == [d \in Drivers |-> 1]

=============================================================================
