----------------------------- MODULE EventFeed ------------------------------
(***************************************************************************)
(* What a run's event stream promises (docs/04-contracts-and-tests.md,     *)
(* SSE): a client gets the events its role may read, each once, in         *)
(* sequence order and without a gap, across reconnects, and gets all of    *)
(* them in the end.                                                        *)
(***************************************************************************)
EXTENDS Naturals, Sequences, FiniteSets

CONSTANT Kinds  \* "hidden" events are not for this client

VARIABLES
    log,  \* the run's stored events by sequence number
    got   \* the sequence numbers the client received

Last(s) == IF s = <<>> THEN 0 ELSE s[Len(s)]

Shown(l) == {s \in DOMAIN l : l[s] # "hidden"}

With(l, s, k) == [x \in DOMAIN l \cup {s} |-> IF x = s THEN k ELSE l[x]]

Init == log = [s \in {} |-> "shown"] /\ got = <<>>

(* Sequence numbers are dense.                                             *)
Store ==
    /\ \E k \in Kinds : log' = With(log, Cardinality(DOMAIN log) + 1, k)
    /\ UNCHANGED got

(* The next event the client may read.                                     *)
Receive ==
    /\ \E s \in Shown(log) :
          /\ s > Last(got)
          /\ \A t \in Shown(log) : t > Last(got) => s <= t
          /\ got' = Append(got, s)
    /\ UNCHANGED log

Next == Store \/ Receive

Spec == Init /\ [][Next]_<<log, got>> /\ WF_<<log, got>>(Receive)

=============================================================================
