----------------------------- MODULE KeyedStarts ----------------------------
(***************************************************************************)
(* What an idempotency key promises: at any time a key stands for at most  *)
(* one run, a start answers with the run its key stands for or fails, and  *)
(* it creates a run only when the key stands for none.  A key is free      *)
(* again when its run is deleted.                                          *)
(***************************************************************************)
CONSTANTS Requests, KeyOf, NoKey, NoAnswer, Failed

VARIABLES
    runs,     \* the runs that exist; a run has its request's name
    answer    \* what each request was told

Init == runs = {} /\ answer = [q \in Requests |-> NoAnswer]

Same(q) == {r \in runs : KeyOf[q] # NoKey /\ KeyOf[r] = KeyOf[q]}

Tell(q, a) == answer' = [answer EXCEPT ![q] = a]

Create(q) ==
    /\ answer[q] = NoAnswer /\ q \notin runs /\ Same(q) = {}
    /\ runs' = runs \cup {q} /\ Tell(q, q)

Replay(q) ==
    /\ answer[q] = NoAnswer
    /\ \E r \in Same(q) : Tell(q, r)
    /\ UNCHANGED runs

(* Also after its run exists: the answer was lost or the launch failed.    *)
Fail(q) ==
    /\ answer[q] \in {NoAnswer, q} /\ Tell(q, Failed)
    /\ UNCHANGED runs

Forget ==
    /\ \E gone \in SUBSET runs : runs' = runs \ gone
    /\ UNCHANGED answer

Next == (\E q \in Requests : Create(q) \/ Replay(q) \/ Fail(q)) \/ Forget

Spec == Init /\ [][Next]_<<runs, answer>>

=============================================================================
