---------------------------- MODULE MCMcpClient -----------------------------
(* McpClient for TLC: a tool that only reads and one that is dangerous,    *)
(* called side by side, one whose name is taken and one that is broken.    *)
EXTENDS McpClient

CONSTANTS t1, t2, t3, t4, c1, c2

MCHints ==
    [t \in Tools |-> [readOnly |-> t = t1, idempotent |-> FALSE,
                      destructive |-> TRUE, openWorld |-> TRUE]]

MCToolOf == [c \in Calls |-> IF c = c1 THEN t1 ELSE t2]

=============================================================================
