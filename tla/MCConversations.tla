-------------------------- MODULE MCConversations ---------------------------
(* Conversations for TLC: a message that starts a run and a plain start    *)
(* with its key, and a start without one, in one session.                  *)
EXTENDS Conversations

CONSTANTS q1, q2, q3, s1, k1

MCSessionOf == [q \in Runs |-> s1]

MCKeyOf == [q \in Runs |-> IF q \in {q1, q2} THEN k1 ELSE NoKey]

MCKeepRecent == [q \in Runs |-> IF q = q1 THEN 1 ELSE 0]

MCMaxReplies == [q \in Runs |-> IF q = q2 THEN 0 ELSE 1]

(* Without the exceptions of NothingForgotten: every message written so    *)
(* far is in the summary or after it (docs/01-domain-model.md:342-347).    *)
NeverForgotten == \A s \in live : Missed(s) = {}

=============================================================================
