---------------------------- MODULE MCStageGraph ----------------------------
(* StageGraph with named stages; Init chooses every valid plan over them.  *)
EXTENDS StageGraph

CONSTANTS s1, s2, s3

=============================================================================
