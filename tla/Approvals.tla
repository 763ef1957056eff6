----------------------------- MODULE Approvals ------------------------------
(***************************************************************************)
(* Humans in the loop: the goroutines of a run that wait for a decision    *)
(* (runtime/orchestrator.go awaitApproval, closeApproval), the store's     *)
(* approvals (store/store.go, store/pg/pg.go), people who resolve them     *)
(* over the API and messages that answer an agent's question               *)
(* (runtime/chat.go askHuman, PostMessage, openQuestion).                  *)
(*                                                                         *)
(* Each waiter asks once; asking again is another waiter.  Runs is the     *)
(* list of runs of one session, in the order of ListRuns.                  *)
(***************************************************************************)
EXTENDS Naturals, Sequences, FiniteSets

CONSTANTS
    Waiters,    \* goroutines that ask for a decision
    Questions,  \* those in askHuman: approvals of gate "input"
    Runs,       \* the session's runs
    RunOf,      \* the run of each waiter
    Messages,   \* messages people post to the session
    Nobody,     \* no run, message or waiter
    Person,     \* who resolves over POST /v1/approvals/{aid}
    Expires,    \* is Orchestrator.ApprovalTimeout positive?
    Skewed,     \* may the store's clock be behind the process's?
    MaxResumes, \* bound: runs resumed by another execution
    MaxErrors   \* bound: store calls that fail

ASSUME ApprovalAssumption ==
    /\ Questions \subseteq Waiters
    /\ RunOf \in [Waiters -> {Runs[i] : i \in 1 .. Len(Runs)}]
    /\ Nobody \notin Waiters \cup Messages /\ Person \notin Messages \cup {Nobody}
    /\ Expires \in BOOLEAN /\ Skewed \in BOOLEAN
    /\ MaxResumes \in Nat /\ MaxErrors \in Nat

VARIABLES
    state,    \* the stored Approval.Status, "none" before CreateApproval
    answerer, \* the stored ResolvedBy and Resolution: a message, or Person
    made,     \* approvals in the order of CreatedAt
    late,     \* those past ExpiresAt by the store's clock
    status,   \* per run: Run.Status
    ended,    \* runs whose context ended in the executing process
    pc,       \* per waiter: where awaitApproval is
    fired,    \* waiters whose deadline passed
    held,     \* per waiter: the approval awaitApproval holds
    post,     \* per message: where PostMessage is
    todo,     \* per message: the runs openQuestion has still to list
    open,     \* per message: the open questions it found
    picked,   \* per message: the question it answers
    resuming, \* runs whose execution was lost and that are taken over
    resumes, errors

approvals == <<state, answerer, made, late>>
waits     == <<pc, fired, held>>
posts     == <<post, todo, open, picked>>
taken     == <<resuming, resumes>>
vars      == <<approvals, status, ended, waits, posts, taken, errors>>

-----------------------------------------------------------------------------
Decisions == {"approved", "rejected", "expired", "canceled"}

Unresolved == [status |-> "requested", by |-> Nobody]

Closing == {"expiring", "canceling"}

AtWork == {"created", "waiting", "closed", "decided"} \cup Closing

Session == {Runs[i] : i \in 1 .. Len(Runs)}

TypeOK ==
    /\ state \in [Waiters -> {"none", "requested"} \cup Decisions]
    /\ answerer \in [Waiters -> Messages \cup {Person, Nobody}]
    /\ Len(made) = Cardinality({w \in Waiters : state[w] # "none"})
    /\ late \subseteq Waiters /\ fired \subseteq Waiters /\ ended \subseteq Session
    /\ status \in [Session -> {"running", "awaiting_approval", "over"}]
    /\ pc \in [Waiters -> {"idle", "returned", "failed", "gone"} \cup AtWork]
    /\ held \in [Waiters -> [status : {"requested"} \cup Decisions,
                             by : Messages \cup {Person, Nobody}]]
    /\ post \in [Messages -> {"none", "listing", "picked", "answered", "unanswered"}]
    /\ \A m \in Messages : \A i \in DOMAIN todo[m] : todo[m][i] \in Session
    /\ open \in [Messages -> SUBSET Questions]
    /\ picked \in [Messages -> Questions \cup {Nobody}]
    /\ resuming \subseteq Session /\ resumes \in 0 .. MaxResumes /\ errors \in 0 .. MaxErrors

Init ==
    /\ state = [w \in Waiters |-> "none"]
    /\ answerer = [w \in Waiters |-> Nobody]
    /\ made = <<>> /\ late = {}
    /\ status = [r \in Session |-> "running"] /\ ended = {}
    /\ pc = [w \in Waiters |-> "idle"] /\ fired = {}
    /\ held = [w \in Waiters |-> Unresolved]
    /\ post = [m \in Messages |-> "none"]
    /\ todo = [m \in Messages |-> <<>>]
    /\ open = [m \in Messages |-> {}]
    /\ picked = [m \in Messages |-> Nobody]
    /\ resuming = {} /\ resumes = 0 /\ errors = 0

Fault == errors < MaxErrors /\ errors' = errors + 1

-----------------------------------------------------------------------------
(* The store.                                                              *)

(* ResolveApproval's condition; an expired approval can only be closed.    *)
Open(w, decision) ==
    /\ state[w] = "requested"
    /\ w \notin late \/ decision \in {"expired", "canceled"}

ResolveApproval(w, decision, by) ==
    /\ state' = [state EXCEPT ![w] = decision]
    /\ answerer' = [answerer EXCEPT ![w] = by]

-----------------------------------------------------------------------------
(* awaitApproval.                                                          *)

WaiterTo(w, place) == pc' = [pc EXCEPT ![w] = place] /\ UNCHANGED <<fired, held>>

(* transitionRun: a context that ended, or an error, skips the write.      *)
transitionRun(r, to) ==
    \/ r \notin ended /\ status' = [status EXCEPT ![r] = to] /\ UNCHANGED errors
    \/ r \in ended /\ UNCHANGED <<status, errors>>
    \/ Fault /\ UNCHANGED status

CreateApproval(w) ==
    /\ pc[w] = "idle" /\ status[RunOf[w]] # "over"
    /\ \/ /\ state' = [state EXCEPT ![w] = "requested"]
          /\ made' = Append(made, w)
          /\ WaiterTo(w, "created")
          /\ UNCHANGED errors
       \/ /\ Fault \/ (RunOf[w] \in ended /\ UNCHANGED errors)
          /\ WaiterTo(w, "failed")
          /\ UNCHANGED <<state, made>>
    /\ UNCHANGED <<answerer, late, status, ended, posts, taken>>

Announce(w) ==
    /\ pc[w] = "created"
    /\ transitionRun(RunOf[w], "awaiting_approval")
    /\ WaiterTo(w, "waiting")
    /\ UNCHANGED <<approvals, ended, posts, taken>>

Hold(w) ==
    /\ held' = [held EXCEPT ![w] = [status |-> state[w], by |-> answerer[w]]]
    /\ pc' = [pc EXCEPT ![w] = "decided"]
    /\ UNCHANGED fired

(* WaitForApproval returns the resolved approval.                          *)
WaitResolved(w) ==
    /\ pc[w] = "waiting" /\ state[w] # "requested"
    /\ Hold(w)
    /\ UNCHANGED <<approvals, status, ended, posts, taken, errors>>

(* Mutant of WaitEnds: the deadline is not passed on.                      *)
WaitEndsWithRun(w) ==
    /\ pc[w] = "waiting" /\ RunOf[w] \in ended
    /\ WaiterTo(w, "canceling")
    /\ UNCHANGED <<approvals, status, ended, posts, taken, errors>>

(* It returns an error because its deadline or the run's context ended,    *)
(* whatever was stored meanwhile.                                          *)
WaitEnds(w) ==
    /\ pc[w] = "waiting" /\ (w \in fired \/ RunOf[w] \in ended)
    /\ WaiterTo(w, IF RunOf[w] \in ended THEN "canceling" ELSE "expiring")
    /\ UNCHANGED <<approvals, status, ended, posts, taken, errors>>

(* Its query fails: awaitApproval returns, and leaves the approval open.   *)
WaitFails(w) ==
    /\ pc[w] = "waiting" /\ RunOf[w] \notin ended /\ Fault
    /\ WaiterTo(w, "failed")
    /\ UNCHANGED <<approvals, status, ended, posts, taken>>

(* Mutant of CloseApproval: a run that ended leaves the approval open.     *)
CloseExpiredOnly(w) ==
    /\ pc[w] \in Closing
    /\ \/ pc[w] = "expiring" /\ Open(w, "expired") /\ ResolveApproval(w, "expired", Nobody)
       \/ (pc[w] = "canceling" \/ ~Open(w, "expired")) /\ UNCHANGED <<state, answerer>>
    /\ WaiterTo(w, "closed")
    /\ UNCHANGED <<made, late, status, ended, posts, taken, errors>>

(* closeApproval resolves it, unless somebody was faster.                  *)
CloseApproval(w) ==
    /\ pc[w] \in Closing
    /\ LET d == IF pc[w] = "canceling" THEN "canceled" ELSE "expired"
       IN  \/ Open(w, d) /\ ResolveApproval(w, d, Nobody) /\ WaiterTo(w, "closed")
              /\ UNCHANGED errors
           \/ ~Open(w, d) /\ WaiterTo(w, "closed") /\ UNCHANGED <<state, answerer, errors>>
           \/ Fault /\ WaiterTo(w, "failed") /\ UNCHANGED <<state, answerer>>
    /\ UNCHANGED <<made, late, status, ended, posts, taken>>

(* Mutant of ReadBack: the decision is the one it tried to record.         *)
ReadBackOwn(w) ==
    /\ pc[w] = "closed"
    /\ held' = [held EXCEPT ![w] = [status |-> IF RunOf[w] \in ended THEN "canceled"
                                                                  ELSE "expired",
                                    by |-> Nobody]]
    /\ pc' = [pc EXCEPT ![w] = "decided"]
    /\ UNCHANGED <<approvals, status, ended, fired, posts, taken, errors>>

(* closeApproval's GetApproval: the decision that was recorded first.      *)
ReadBack(w) ==
    /\ pc[w] = "closed"
    /\ \/ Hold(w) /\ UNCHANGED errors
       \/ Fault /\ WaiterTo(w, "failed")
    /\ UNCHANGED <<approvals, status, ended, posts, taken>>

(* The run runs again, and the caller acts on the decision; an ended       *)
(* context returns an error instead.                                       *)
Return(w) ==
    /\ pc[w] = "decided"
    /\ \/ /\ RunOf[w] \in ended
          /\ WaiterTo(w, "failed") /\ UNCHANGED <<status, errors>>
       \/ /\ RunOf[w] \notin ended
          /\ WaiterTo(w, "returned")
          /\ transitionRun(RunOf[w], "running")
    /\ UNCHANGED <<approvals, ended, posts, taken>>

-----------------------------------------------------------------------------
(* Time: the store's clock, which matters while the approval is open, and  *)
(* the process's.                                                          *)

ExpiresAt(w) ==
    /\ Expires /\ state[w] = "requested" /\ w \notin late
    /\ late' = late \cup {w}
    /\ UNCHANGED <<state, answerer, made, status, ended, waits, posts, taken,
                   errors>>

Deadline(w) ==
    /\ Expires /\ pc[w] \in {"created", "waiting"} /\ w \notin fired
    /\ Skewed \/ w \in late \/ state[w] # "requested"
    /\ fired' = fired \cup {w}
    /\ UNCHANGED <<approvals, status, ended, pc, held, posts, taken, errors>>

-----------------------------------------------------------------------------
(* People.                                                                 *)

(* POST /v1/approvals/{aid}.                                               *)
resolveApproval(w, decision) ==
    /\ decision \in {"approved", "rejected"} /\ Open(w, decision)
    /\ ResolveApproval(w, decision, Person)
    /\ UNCHANGED <<made, late, status, ended, waits, posts, taken, errors>>

PostTo(m, place) == post' = [post EXCEPT ![m] = place]

Relist(m) ==
    /\ PostTo(m, "listing")
    /\ todo' = [todo EXCEPT ![m] = SelectSeq(Runs, LAMBDA r : status[r] # "over")]
    /\ open' = [open EXCEPT ![m] = {}]
    /\ picked' = [picked EXCEPT ![m] = Nobody]

PostMessage(m) ==
    /\ post[m] = "none"
    /\ Relist(m)
    /\ UNCHANGED <<approvals, status, ended, waits, taken, errors>>

(* The store's ListApprovals: the questions of a run that can be answered. *)
Listed(r) == {q \in Questions : RunOf[q] = r /\ state[q] = "requested" /\ q \notin late}

(* openQuestion lists the open approvals of one run after the other.       *)
ListApprovals(m) ==
    /\ post[m] = "listing" /\ todo[m] # <<>>
    /\ open' = [open EXCEPT ![m] = @ \cup Listed(Head(todo[m]))]
    /\ todo' = [todo EXCEPT ![m] = Tail(@)]
    /\ UNCHANGED <<approvals, status, ended, waits, post, picked, taken, errors>>

Oldest(q, S) ==
    /\ q \in S
    /\ \A p \in S : \A i, j \in 1 .. Len(made) : made[i] = q /\ made[j] = p => i <= j

PickQuestion(m) ==
    /\ post[m] = "listing" /\ todo[m] = <<>>
    /\ open' = [open EXCEPT ![m] = {}]
    /\ \/ /\ open[m] = {}
          /\ PostTo(m, "unanswered") /\ UNCHANGED picked
       \/ \E q \in open[m] :
             /\ Oldest(q, open[m])
             /\ PostTo(m, "picked") /\ picked' = [picked EXCEPT ![m] = q]
    /\ UNCHANGED <<approvals, status, ended, waits, todo, taken, errors>>

(* Mutant of Answer: a conflict is taken for success.                      *)
AnswerBlindly(m) ==
    /\ post[m] = "picked"
    /\ IF Open(picked[m], "approved")
       THEN ResolveApproval(picked[m], "approved", m)
       ELSE UNCHANGED <<state, answerer>>
    /\ PostTo(m, "answered")
    /\ UNCHANGED <<made, late, status, ended, waits, todo, open, picked, taken,
                   errors>>

(* The message resolves the question; if somebody was faster, look again.  *)
Answer(m) ==
    /\ post[m] = "picked"
    /\ \/ /\ Open(picked[m], "approved")
          /\ ResolveApproval(picked[m], "approved", m)
          /\ PostTo(m, "answered")
          /\ UNCHANGED <<todo, open, picked>>
       \/ /\ ~Open(picked[m], "approved")
          /\ Relist(m)
          /\ UNCHANGED <<state, answerer>>
    /\ UNCHANGED <<made, late, status, ended, waits, taken, errors>>

(* A store call of PostMessage fails after the message was stored.         *)
PostFails(m) ==
    /\ post[m] \in {"listing", "picked"} /\ Fault
    /\ PostTo(m, "unanswered")
    /\ todo' = [todo EXCEPT ![m] = <<>>]
    /\ open' = [open EXCEPT ![m] = {}]
    /\ UNCHANGED <<approvals, status, ended, waits, picked, taken>>

-----------------------------------------------------------------------------
(* Runs.                                                                   *)

(* A run is canceled, stopped, or runs out of time.                        *)
EndRun(r) ==
    /\ status[r] # "over" /\ r \notin ended
    /\ ended' = ended \cup {r}
    /\ UNCHANGED <<approvals, status, waits, posts, taken, errors>>

(* execute writes the final status once its goroutines returned.           *)
FinishRun(r) ==
    /\ status[r] # "over"
    /\ \A w \in Waiters : RunOf[w] = r => pc[w] \notin AtWork
    /\ status' = [status EXCEPT ![r] = "over"]
    /\ UNCHANGED <<approvals, ended, waits, posts, taken, errors>>

(* The executing process dies or stalls past its lease; the next execution *)
(* cancels the open approvals before it starts.                            *)
Lost(r) ==
    /\ status[r] # "over" /\ r \notin resuming /\ resumes < MaxResumes
    /\ resuming' = resuming \cup {r} /\ resumes' = resumes + 1
    /\ \/ /\ pc' = [w \in Waiters |-> IF RunOf[w] = r /\ pc[w] \in AtWork THEN "gone"
                                                                       ELSE pc[w]]
          /\ UNCHANGED <<fired, held>>
       \/ UNCHANGED waits
    /\ UNCHANGED <<approvals, status, ended, posts, errors>>

CancelRunApprovals(r) ==
    /\ r \in resuming
    /\ resuming' = resuming \ {r}
    /\ state' = [w \in Waiters |-> IF RunOf[w] = r /\ state[w] = "requested"
                                   THEN "canceled" ELSE state[w]]
    /\ UNCHANGED <<answerer, made, late, status, ended, waits, posts, resumes,
                   errors>>

-----------------------------------------------------------------------------
Await(w) ==
    \/ Announce(w) \/ WaitResolved(w) \/ WaitEnds(w) \/ CloseApproval(w)
    \/ ReadBack(w) \/ Return(w)

Posting(m) == ListApprovals(m) \/ PickQuestion(m) \/ Answer(m)

Next ==
    \/ \E w \in Waiters :
          \/ CreateApproval(w) \/ Await(w) \/ WaitFails(w)
          \/ ExpiresAt(w) \/ Deadline(w)
          \/ \E d \in Decisions : resolveApproval(w, d)
    \/ \E m \in Messages : PostMessage(m) \/ Posting(m) \/ PostFails(m)
    \/ \E r \in Session : EndRun(r) \/ FinishRun(r) \/ Lost(r) \/ CancelRunApprovals(r)

Spec == Init /\ [][Next]_vars

(* Goroutines run, clocks advance; people may never act.                   *)
Fairness ==
    /\ \A w \in Waiters : /\ WF_vars(Await(w)) /\ WF_vars(Deadline(w))
                          /\ WF_vars(ExpiresAt(w))
    /\ \A m \in Messages : WF_vars(Posting(m))

FairSpec == Spec /\ Fairness

-----------------------------------------------------------------------------
(* Properties.                                                             *)

(* A timeout that races a late answer: what the waiter acts on, and what   *)
(* its approval_resolved event says, is the one decision the store keeps.  *)
ActsOnStored ==
    \A w \in Waiters : pc[w] \in {"decided", "returned"} =>
        /\ held[w] = [status |-> state[w], by |-> answerer[w]]
        /\ state[w] \in Decisions

(* Messages that race each other, people and deadlines: a message that     *)
(* reports an answered question is that question's answer, so no question  *)
(* has two and no message answers two.                                     *)
AnswersTheirs ==
    \A m \in Messages : post[m] = "answered" =>
        state[picked[m]] = "approved" /\ answerer[picked[m]] = m

(* While the store answers, an open approval has a goroutine that waits    *)
(* for it, or the execution that takes its run over is about to cancel it: *)
(* nobody is asked for a decision that no run will use.                    *)
OpenIsAwaited ==
    \A w \in Waiters : errors = 0 /\ state[w] = "requested" =>
        \/ pc[w] \in {"created", "waiting"} \cup Closing
        \/ RunOf[w] \in resuming

(* Whoever asks gets a decision or an error: an approval times out even if *)
(* nobody acts.                                                            *)
WaiterReturns ==
    \A w \in Waiters : pc[w] \in AtWork ~> pc[w] \notin AtWork

(* Whose message askHuman gives its agent, if any.                         *)
askHuman(q) ==
    IF pc[q] = "returned" /\ held[q].status = "approved" THEN held[q].by ELSE Nobody

(* An answer reported to its sender reaches the agent that asked, unless   *)
(* its run ended, its process died or the store failed it.                 *)
AnswerReachesAgent ==
    \A m \in Messages, q \in Questions :
        post[m] = "answered" /\ picked[m] = q ~>
            \/ askHuman(q) = m
            \/ RunOf[q] \in ended \/ pc[q] = "gone"
            \/ pc[q] = "failed" /\ errors > 0

(* While a live run has an open approval it waits for, its status is       *)
(* awaiting_approval.                                                      *)
WaitingShown ==
    \A w \in Waiters :
        pc[w] = "waiting" /\ state[w] = "requested" /\ RunOf[w] \notin ended
            => status[RunOf[w]] = "awaiting_approval"

(* The oldest open question takes the message as its answer.               *)
OldestAnswered ==
    [][\A m \in Messages : post[m] = "picked" /\ post'[m] = "answered" =>
          Oldest(picked[m], {q \in Questions : Open(q, "approved")})]_vars

=============================================================================
