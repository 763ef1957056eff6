-------------------------- MODULE ApprovalsProofs ---------------------------
(***************************************************************************)
(* Proofs about Approvals, for any number of waiters, runs, messages,      *)
(* faults and takeovers.                                                   *)
(***************************************************************************)
EXTENDS Approvals, TLAPS

Views == [status : {"none", "requested"} \cup Decisions,
          by : Messages \cup {Person, Nobody}]

(* The part of TypeOK the argument needs.                                  *)
Types ==
    /\ state \in [Waiters -> {"none", "requested"} \cup Decisions]
    /\ answerer \in [Waiters -> Messages \cup {Person, Nobody}]
    /\ pc \in [Waiters -> {"idle", "returned", "failed", "gone"} \cup AtWork]
    /\ held \in [Waiters -> Views]
    /\ post \in [Messages -> {"none", "listing", "picked", "answered", "unanswered"}]
    /\ open \in [Messages -> SUBSET Questions]
    /\ picked \in [Messages -> Questions \cup {Nobody}]

(* Who waits has asked, and asked once; who has closed finds a decision.   *)
Asked ==
    \A w \in Waiters :
        /\ pc[w] = "idle" => state[w] = "none"
        /\ pc[w] \in {"created", "waiting"} \cup Closing => state[w] # "none"
        /\ pc[w] = "closed" => state[w] \in Decisions

Picked ==
    \A m \in Messages : post[m] \in {"picked", "answered"} => picked[m] \in Questions

ApprovalInv == Types /\ Asked /\ Picked /\ ActsOnStored /\ AnswersTheirs

(* A decision, and who took it, stays in the store as it is.               *)
DecisionStays ==
    \A w \in Waiters : state[w] \in Decisions =>
        state'[w] = state[w] /\ answerer'[w] = answerer[w]

-----------------------------------------------------------------------------
LEMMA InitApproval == Init => ApprovalInv
  <1> SUFFICES ASSUME Init PROVE ApprovalInv
    OBVIOUS
  <1>1. Unresolved \in Views
    BY DEF Unresolved, Views
  <1>2. Types
    BY <1>1 DEF Init, Types
  <1>3. Asked /\ Picked /\ ActsOnStored /\ AnswersTheirs
    BY DEF Init, Asked, Picked, ActsOnStored, AnswersTheirs, Closing
  <1> QED BY <1>2, <1>3 DEF ApprovalInv

(* A waiter that holds a decision keeps it, or takes the stored one.       *)
LEMMA KeepsOrTakes ==
    ASSUME Types, ActsOnStored, DecisionStays,
           \A w \in Waiters : pc'[w] \in {"decided", "returned"} =>
               \/ pc[w] \in {"decided", "returned"} /\ held'[w] = held[w]
               \/ /\ held'[w] = [status |-> state'[w], by |-> answerer'[w]]
                  /\ state'[w] \in Decisions
    PROVE  ActsOnStored'
  BY DEF ActsOnStored, DecisionStays

(* A message that answered keeps its question, or has just answered one.   *)
LEMMA StaysTheirs ==
    ASSUME Types, Picked, AnswersTheirs, DecisionStays,
           \A m \in Messages : post'[m] = "answered" =>
               \/ post[m] = "answered" /\ picked'[m] = picked[m]
               \/ state'[picked'[m]] = "approved" /\ answerer'[picked'[m]] = m
    PROVE  AnswersTheirs'
  <1> SUFFICES ASSUME NEW m \in Messages, post'[m] = "answered"
               PROVE  state'[picked'[m]] = "approved" /\ answerer'[picked'[m]] = m
    BY DEF AnswersTheirs
  <1>1. CASE post[m] = "answered" /\ picked'[m] = picked[m]
    <2>1. picked[m] \in Waiters /\ state[picked[m]] = "approved" /\ answerer[picked[m]] = m
      BY <1>1, ApprovalAssumption DEF ApprovalAssumption, Picked, AnswersTheirs
    <2> QED BY <1>1, <2>1 DEF DecisionStays, Decisions
  <1> QED BY <1>1

-----------------------------------------------------------------------------
(* One lemma for each kind of step.  A decision stays because every write  *)
(* of an approval asks first whether it is still open.                     *)
LEMMA AskStep ==
    ASSUME ApprovalInv, NEW w \in Waiters,
           CreateApproval(w)
    PROVE  ApprovalInv' /\ DecisionStays
  <1> USE ApprovalAssumption DEF ApprovalAssumption, CreateApproval, WaiterTo, posts
  <1>0. Types /\ Asked /\ Picked /\ ActsOnStored /\ AnswersTheirs
    BY DEF ApprovalInv
  <1>1. Types'
    <2>1. state' \in [Waiters -> {"none", "requested"} \cup Decisions]
      BY <1>0 DEF Types, Decisions
    <2>2. answerer' \in [Waiters -> Messages \cup {Person, Nobody}]
      BY <1>0 DEF Types
    <2>3. pc' \in [Waiters -> {"idle", "returned", "failed", "gone"} \cup AtWork]
      BY <1>0 DEF Types, AtWork, Closing
    <2>4. held' \in [Waiters -> Views]
      BY <1>0 DEF Types
    <2>5. post' \in [Messages -> {"none", "listing", "picked", "answered", "unanswered"}]
      BY <1>0 DEF Types
    <2>6. open' \in [Messages -> SUBSET Questions]
      BY <1>0 DEF Types
    <2>7. picked' \in [Messages -> Questions \cup {Nobody}]
      BY <1>0 DEF Types
    <2> QED BY <2>1, <2>2, <2>3, <2>4, <2>5, <2>6, <2>7 DEF Types
  <1>2. DecisionStays
    BY <1>0 DEF DecisionStays, Types, Asked, Decisions
  <1>3. Asked'
    BY <1>0 DEF Asked, Types, Closing, Decisions
  <1>4. Picked'
    BY <1>0 DEF Picked, Types
  <1>5. ActsOnStored'
    <2>1. ASSUME NEW v \in Waiters, pc'[v] \in {"decided", "returned"}
          PROVE  \/ pc[v] \in {"decided", "returned"} /\ held'[v] = held[v]
                 \/ /\ held'[v] = [status |-> state'[v], by |-> answerer'[v]]
                    /\ state'[v] \in Decisions
      BY <1>0, <2>1 DEF Types, Asked, Decisions
    <2> QED BY <2>1, <1>0, <1>2, KeepsOrTakes
  <1>6. AnswersTheirs'
    <2>1. ASSUME NEW n \in Messages, post'[n] = "answered"
          PROVE  \/ post[n] = "answered" /\ picked'[n] = picked[n]
                 \/ state'[picked'[n]] = "approved" /\ answerer'[picked'[n]] = n
      BY <1>0, <2>1 DEF Types, Picked
    <2> QED BY <2>1, <1>0, <1>2, StaysTheirs
  <1> QED BY <1>1, <1>2, <1>3, <1>4, <1>5, <1>6 DEF ApprovalInv

LEMMA WaitStep ==
    ASSUME ApprovalInv, NEW w \in Waiters,
           Announce(w) \/ WaitEnds(w) \/ WaitFails(w) \/ Deadline(w) \/ ExpiresAt(w)
    PROVE  ApprovalInv' /\ DecisionStays
  <1> USE ApprovalAssumption DEF ApprovalAssumption, Announce, WaitEnds, WaitFails,
      Deadline, ExpiresAt, WaiterTo, approvals, waits, posts
  <1>0. Types /\ Asked /\ Picked /\ ActsOnStored /\ AnswersTheirs
    BY DEF ApprovalInv
  <1>1. Types'
    <2>1. state' \in [Waiters -> {"none", "requested"} \cup Decisions]
      BY <1>0 DEF Types, Decisions
    <2>2. answerer' \in [Waiters -> Messages \cup {Person, Nobody}]
      BY <1>0 DEF Types
    <2>3. pc' \in [Waiters -> {"idle", "returned", "failed", "gone"} \cup AtWork]
      BY <1>0 DEF Types, AtWork, Closing
    <2>4. held' \in [Waiters -> Views]
      BY <1>0 DEF Types
    <2>5. post' \in [Messages -> {"none", "listing", "picked", "answered", "unanswered"}]
      BY <1>0 DEF Types
    <2>6. open' \in [Messages -> SUBSET Questions]
      BY <1>0 DEF Types
    <2>7. picked' \in [Messages -> Questions \cup {Nobody}]
      BY <1>0 DEF Types
    <2> QED BY <2>1, <2>2, <2>3, <2>4, <2>5, <2>6, <2>7 DEF Types
  <1>2. DecisionStays
    BY <1>0 DEF DecisionStays, Types, Asked, Decisions
  <1>3. Asked'
    BY <1>0 DEF Asked, Types, Closing, Decisions
  <1>4. Picked'
    BY <1>0 DEF Picked, Types
  <1>5. ActsOnStored'
    <2>1. ASSUME NEW v \in Waiters, pc'[v] \in {"decided", "returned"}
          PROVE  \/ pc[v] \in {"decided", "returned"} /\ held'[v] = held[v]
                 \/ /\ held'[v] = [status |-> state'[v], by |-> answerer'[v]]
                    /\ state'[v] \in Decisions
      BY <1>0, <2>1 DEF Types, Asked, Decisions
    <2> QED BY <2>1, <1>0, <1>2, KeepsOrTakes
  <1>6. AnswersTheirs'
    <2>1. ASSUME NEW n \in Messages, post'[n] = "answered"
          PROVE  \/ post[n] = "answered" /\ picked'[n] = picked[n]
                 \/ state'[picked'[n]] = "approved" /\ answerer'[picked'[n]] = n
      BY <1>0, <2>1 DEF Types, Picked
    <2> QED BY <2>1, <1>0, <1>2, StaysTheirs
  <1> QED BY <1>1, <1>2, <1>3, <1>4, <1>5, <1>6 DEF ApprovalInv

LEMMA HoldStep ==
    ASSUME ApprovalInv, NEW w \in Waiters,
           WaitResolved(w) \/ ReadBack(w)
    PROVE  ApprovalInv' /\ DecisionStays
  <1> USE ApprovalAssumption DEF ApprovalAssumption, WaitResolved, ReadBack, Hold, WaiterTo,
      approvals, posts
  <1>0. Types /\ Asked /\ Picked /\ ActsOnStored /\ AnswersTheirs
    BY DEF ApprovalInv
  <1>v. [status |-> state[w], by |-> answerer[w]] \in Views
    BY <1>0 DEF Types, Views, Decisions
  <1>1. Types'
    <2>1. state' \in [Waiters -> {"none", "requested"} \cup Decisions]
      BY <1>0 DEF Types, Decisions
    <2>2. answerer' \in [Waiters -> Messages \cup {Person, Nobody}]
      BY <1>0 DEF Types
    <2>3. pc' \in [Waiters -> {"idle", "returned", "failed", "gone"} \cup AtWork]
      BY <1>0 DEF Types, AtWork, Closing
    <2>4. held' \in [Waiters -> Views]
      BY <1>0, <1>v DEF Types
    <2>5. post' \in [Messages -> {"none", "listing", "picked", "answered", "unanswered"}]
      BY <1>0 DEF Types
    <2>6. open' \in [Messages -> SUBSET Questions]
      BY <1>0 DEF Types
    <2>7. picked' \in [Messages -> Questions \cup {Nobody}]
      BY <1>0 DEF Types
    <2> QED BY <2>1, <2>2, <2>3, <2>4, <2>5, <2>6, <2>7 DEF Types
  <1>2. DecisionStays
    BY <1>0 DEF DecisionStays, Types, Asked, Decisions
  <1>3. Asked'
    BY <1>0 DEF Asked, Types, Closing, Decisions
  <1>4. Picked'
    BY <1>0 DEF Picked, Types
  <1>5. ActsOnStored'
    <2>1. ASSUME NEW v \in Waiters, pc'[v] \in {"decided", "returned"}
          PROVE  \/ pc[v] \in {"decided", "returned"} /\ held'[v] = held[v]
                 \/ /\ held'[v] = [status |-> state'[v], by |-> answerer'[v]]
                    /\ state'[v] \in Decisions
      BY <1>0, <2>1 DEF Types, Asked, Decisions
    <2> QED BY <2>1, <1>0, <1>2, KeepsOrTakes
  <1>6. AnswersTheirs'
    <2>1. ASSUME NEW n \in Messages, post'[n] = "answered"
          PROVE  \/ post[n] = "answered" /\ picked'[n] = picked[n]
                 \/ state'[picked'[n]] = "approved" /\ answerer'[picked'[n]] = n
      BY <1>0, <2>1 DEF Types, Picked
    <2> QED BY <2>1, <1>0, <1>2, StaysTheirs
  <1> QED BY <1>1, <1>2, <1>3, <1>4, <1>5, <1>6 DEF ApprovalInv

LEMMA CloseStep ==
    ASSUME ApprovalInv, NEW w \in Waiters,
           CloseApproval(w)
    PROVE  ApprovalInv' /\ DecisionStays
  <1> USE ApprovalAssumption DEF ApprovalAssumption, CloseApproval, Open, ResolveApproval, WaiterTo,
      posts
  <1>0. Types /\ Asked /\ Picked /\ ActsOnStored /\ AnswersTheirs
    BY DEF ApprovalInv
  <1>1. Types'
    <2>1. state' \in [Waiters -> {"none", "requested"} \cup Decisions]
      BY <1>0 DEF Types, Decisions
    <2>2. answerer' \in [Waiters -> Messages \cup {Person, Nobody}]
      BY <1>0 DEF Types
    <2>3. pc' \in [Waiters -> {"idle", "returned", "failed", "gone"} \cup AtWork]
      BY <1>0 DEF Types, AtWork, Closing
    <2>4. held' \in [Waiters -> Views]
      BY <1>0 DEF Types
    <2>5. post' \in [Messages -> {"none", "listing", "picked", "answered", "unanswered"}]
      BY <1>0 DEF Types
    <2>6. open' \in [Messages -> SUBSET Questions]
      BY <1>0 DEF Types
    <2>7. picked' \in [Messages -> Questions \cup {Nobody}]
      BY <1>0 DEF Types
    <2> QED BY <2>1, <2>2, <2>3, <2>4, <2>5, <2>6, <2>7 DEF Types
  <1>2. DecisionStays
    BY <1>0 DEF DecisionStays, Types, Asked, Decisions
  <1>3. Asked'
    BY <1>0 DEF Asked, Types, Closing, Decisions
  <1>4. Picked'
    BY <1>0 DEF Picked, Types
  <1>5. ActsOnStored'
    <2>1. ASSUME NEW v \in Waiters, pc'[v] \in {"decided", "returned"}
          PROVE  \/ pc[v] \in {"decided", "returned"} /\ held'[v] = held[v]
                 \/ /\ held'[v] = [status |-> state'[v], by |-> answerer'[v]]
                    /\ state'[v] \in Decisions
      BY <1>0, <2>1 DEF Types, Asked, Decisions
    <2> QED BY <2>1, <1>0, <1>2, KeepsOrTakes
  <1>6. AnswersTheirs'
    <2>1. ASSUME NEW n \in Messages, post'[n] = "answered"
          PROVE  \/ post[n] = "answered" /\ picked'[n] = picked[n]
                 \/ state'[picked'[n]] = "approved" /\ answerer'[picked'[n]] = n
      BY <1>0, <2>1 DEF Types, Picked
    <2> QED BY <2>1, <1>0, <1>2, StaysTheirs
  <1> QED BY <1>1, <1>2, <1>3, <1>4, <1>5, <1>6 DEF ApprovalInv

LEMMA ReturnStep ==
    ASSUME ApprovalInv, NEW w \in Waiters,
           Return(w)
    PROVE  ApprovalInv' /\ DecisionStays
  <1> USE ApprovalAssumption DEF ApprovalAssumption, Return, WaiterTo, approvals, posts
  <1>0. Types /\ Asked /\ Picked /\ ActsOnStored /\ AnswersTheirs
    BY DEF ApprovalInv
  <1>1. Types'
    <2>1. state' \in [Waiters -> {"none", "requested"} \cup Decisions]
      BY <1>0 DEF Types, Decisions
    <2>2. answerer' \in [Waiters -> Messages \cup {Person, Nobody}]
      BY <1>0 DEF Types
    <2>3. pc' \in [Waiters -> {"idle", "returned", "failed", "gone"} \cup AtWork]
      BY <1>0 DEF Types, AtWork, Closing
    <2>4. held' \in [Waiters -> Views]
      BY <1>0 DEF Types
    <2>5. post' \in [Messages -> {"none", "listing", "picked", "answered", "unanswered"}]
      BY <1>0 DEF Types
    <2>6. open' \in [Messages -> SUBSET Questions]
      BY <1>0 DEF Types
    <2>7. picked' \in [Messages -> Questions \cup {Nobody}]
      BY <1>0 DEF Types
    <2> QED BY <2>1, <2>2, <2>3, <2>4, <2>5, <2>6, <2>7 DEF Types
  <1>2. DecisionStays
    BY <1>0 DEF DecisionStays, Types, Asked, Decisions
  <1>3. Asked'
    BY <1>0 DEF Asked, Types, Closing, Decisions
  <1>4. Picked'
    BY <1>0 DEF Picked, Types
  <1>5. ActsOnStored'
    <2>1. ASSUME NEW v \in Waiters, pc'[v] \in {"decided", "returned"}
          PROVE  \/ pc[v] \in {"decided", "returned"} /\ held'[v] = held[v]
                 \/ /\ held'[v] = [status |-> state'[v], by |-> answerer'[v]]
                    /\ state'[v] \in Decisions
      BY <1>0, <2>1 DEF Types, Asked, Decisions
    <2> QED BY <2>1, <1>0, <1>2, KeepsOrTakes
  <1>6. AnswersTheirs'
    <2>1. ASSUME NEW n \in Messages, post'[n] = "answered"
          PROVE  \/ post[n] = "answered" /\ picked'[n] = picked[n]
                 \/ state'[picked'[n]] = "approved" /\ answerer'[picked'[n]] = n
      BY <1>0, <2>1 DEF Types, Picked
    <2> QED BY <2>1, <1>0, <1>2, StaysTheirs
  <1> QED BY <1>1, <1>2, <1>3, <1>4, <1>5, <1>6 DEF ApprovalInv

LEMMA PersonStep ==
    ASSUME ApprovalInv, NEW w \in Waiters, NEW d \in Decisions,
           resolveApproval(w, d)
    PROVE  ApprovalInv' /\ DecisionStays
  <1> USE ApprovalAssumption DEF ApprovalAssumption, resolveApproval, Open, ResolveApproval,
      waits, posts
  <1>0. Types /\ Asked /\ Picked /\ ActsOnStored /\ AnswersTheirs
    BY DEF ApprovalInv
  <1>1. Types'
    <2>1. state' \in [Waiters -> {"none", "requested"} \cup Decisions]
      BY <1>0 DEF Types, Decisions
    <2>2. answerer' \in [Waiters -> Messages \cup {Person, Nobody}]
      BY <1>0 DEF Types
    <2>3. pc' \in [Waiters -> {"idle", "returned", "failed", "gone"} \cup AtWork]
      BY <1>0 DEF Types, AtWork, Closing
    <2>4. held' \in [Waiters -> Views]
      BY <1>0 DEF Types
    <2>5. post' \in [Messages -> {"none", "listing", "picked", "answered", "unanswered"}]
      BY <1>0 DEF Types
    <2>6. open' \in [Messages -> SUBSET Questions]
      BY <1>0 DEF Types
    <2>7. picked' \in [Messages -> Questions \cup {Nobody}]
      BY <1>0 DEF Types
    <2> QED BY <2>1, <2>2, <2>3, <2>4, <2>5, <2>6, <2>7 DEF Types
  <1>2. DecisionStays
    BY <1>0 DEF DecisionStays, Types, Asked, Decisions
  <1>3. Asked'
    BY <1>0 DEF Asked, Types, Closing, Decisions
  <1>4. Picked'
    BY <1>0 DEF Picked, Types
  <1>5. ActsOnStored'
    <2>1. ASSUME NEW v \in Waiters, pc'[v] \in {"decided", "returned"}
          PROVE  \/ pc[v] \in {"decided", "returned"} /\ held'[v] = held[v]
                 \/ /\ held'[v] = [status |-> state'[v], by |-> answerer'[v]]
                    /\ state'[v] \in Decisions
      BY <1>0, <2>1 DEF Types, Asked, Decisions
    <2> QED BY <2>1, <1>0, <1>2, KeepsOrTakes
  <1>6. AnswersTheirs'
    <2>1. ASSUME NEW n \in Messages, post'[n] = "answered"
          PROVE  \/ post[n] = "answered" /\ picked'[n] = picked[n]
                 \/ state'[picked'[n]] = "approved" /\ answerer'[picked'[n]] = n
      BY <1>0, <2>1 DEF Types, Picked
    <2> QED BY <2>1, <1>0, <1>2, StaysTheirs
  <1> QED BY <1>1, <1>2, <1>3, <1>4, <1>5, <1>6 DEF ApprovalInv

LEMMA ListStep ==
    ASSUME ApprovalInv, NEW m \in Messages,
           PostMessage(m) \/ ListApprovals(m) \/ PickQuestion(m) \/ PostFails(m)
    PROVE  ApprovalInv' /\ DecisionStays
  <1> USE ApprovalAssumption DEF ApprovalAssumption, PostMessage, Relist, ListApprovals, Listed,
      PickQuestion, Oldest, PostFails, PostTo, approvals, waits
  <1>0. Types /\ Asked /\ Picked /\ ActsOnStored /\ AnswersTheirs
    BY DEF ApprovalInv
  <1>1. Types'
    <2>1. state' \in [Waiters -> {"none", "requested"} \cup Decisions]
      BY <1>0 DEF Types, Decisions
    <2>2. answerer' \in [Waiters -> Messages \cup {Person, Nobody}]
      BY <1>0 DEF Types
    <2>3. pc' \in [Waiters -> {"idle", "returned", "failed", "gone"} \cup AtWork]
      BY <1>0 DEF Types, AtWork, Closing
    <2>4. held' \in [Waiters -> Views]
      BY <1>0 DEF Types
    <2>5. post' \in [Messages -> {"none", "listing", "picked", "answered", "unanswered"}]
      BY <1>0 DEF Types
    <2>6. open' \in [Messages -> SUBSET Questions]
      BY <1>0 DEF Types
    <2>7. picked' \in [Messages -> Questions \cup {Nobody}]
      <3>1. PICK q : \/ picked' = picked
                     \/ /\ picked' = [picked EXCEPT ![m] = q]
                        /\ q = Nobody \/ q \in open[m]
        BY <1>0
      <3>2. open[m] \subseteq Questions /\ picked \in [Messages -> Questions \cup {Nobody}]
        BY <1>0 DEF Types
      <3> QED BY ONLY <3>1, <3>2
    <2> QED BY <2>1, <2>2, <2>3, <2>4, <2>5, <2>6, <2>7 DEF Types
  <1>2. DecisionStays
    BY <1>0 DEF DecisionStays, Types, Asked, Decisions
  <1>3. Asked'
    BY <1>0 DEF Asked, Types, Closing, Decisions
  <1>4. Picked'
    BY <1>0 DEF Picked, Types
  <1>5. ActsOnStored'
    <2>1. ASSUME NEW v \in Waiters, pc'[v] \in {"decided", "returned"}
          PROVE  \/ pc[v] \in {"decided", "returned"} /\ held'[v] = held[v]
                 \/ /\ held'[v] = [status |-> state'[v], by |-> answerer'[v]]
                    /\ state'[v] \in Decisions
      BY <1>0, <2>1 DEF Types, Asked, Decisions
    <2> QED BY <2>1, <1>0, <1>2, KeepsOrTakes
  <1>6. AnswersTheirs'
    <2>1. ASSUME NEW n \in Messages, post'[n] = "answered"
          PROVE  \/ post[n] = "answered" /\ picked'[n] = picked[n]
                 \/ state'[picked'[n]] = "approved" /\ answerer'[picked'[n]] = n
      BY <1>0, <2>1 DEF Types, Picked
    <2> QED BY <2>1, <1>0, <1>2, StaysTheirs
  <1> QED BY <1>1, <1>2, <1>3, <1>4, <1>5, <1>6 DEF ApprovalInv

LEMMA AnswerStep ==
    ASSUME ApprovalInv, NEW m \in Messages,
           Answer(m)
    PROVE  ApprovalInv' /\ DecisionStays
  <1> USE ApprovalAssumption DEF ApprovalAssumption, Answer, Open, ResolveApproval, Relist, PostTo,
      waits
  <1>0. Types /\ Asked /\ Picked /\ ActsOnStored /\ AnswersTheirs
    BY DEF ApprovalInv
  <1>1. Types'
    <2>1. state' \in [Waiters -> {"none", "requested"} \cup Decisions]
      <3>1. PICK q : state' = state \/ state' = [state EXCEPT ![q] = "approved"]
        OBVIOUS
      <3>2. state \in [Waiters -> {"none", "requested"} \cup Decisions]
        BY <1>0 DEF Types
      <3> QED BY ONLY <3>1, <3>2 DEF Decisions
    <2>2. answerer' \in [Waiters -> Messages \cup {Person, Nobody}]
      BY <1>0 DEF Types
    <2>3. pc' \in [Waiters -> {"idle", "returned", "failed", "gone"} \cup AtWork]
      BY <1>0 DEF Types, AtWork, Closing
    <2>4. held' \in [Waiters -> Views]
      BY <1>0 DEF Types
    <2>5. post' \in [Messages -> {"none", "listing", "picked", "answered", "unanswered"}]
      BY <1>0 DEF Types
    <2>6. open' \in [Messages -> SUBSET Questions]
      BY <1>0 DEF Types
    <2>7. picked' \in [Messages -> Questions \cup {Nobody}]
      BY <1>0 DEF Types
    <2> QED BY <2>1, <2>2, <2>3, <2>4, <2>5, <2>6, <2>7 DEF Types
  <1>2. DecisionStays
    BY <1>0 DEF DecisionStays, Types, Asked, Decisions
  <1>3. Asked'
    BY <1>0 DEF Asked, Types, Closing, Decisions
  <1>4. Picked'
    BY <1>0 DEF Picked, Types
  <1>5. ActsOnStored'
    <2>1. ASSUME NEW v \in Waiters, pc'[v] \in {"decided", "returned"}
          PROVE  \/ pc[v] \in {"decided", "returned"} /\ held'[v] = held[v]
                 \/ /\ held'[v] = [status |-> state'[v], by |-> answerer'[v]]
                    /\ state'[v] \in Decisions
      BY <1>0, <2>1 DEF Types, Asked, Decisions
    <2> QED BY <2>1, <1>0, <1>2, KeepsOrTakes
  <1>6. AnswersTheirs'
    <2>1. ASSUME NEW n \in Messages, post'[n] = "answered"
          PROVE  \/ post[n] = "answered" /\ picked'[n] = picked[n]
                 \/ state'[picked'[n]] = "approved" /\ answerer'[picked'[n]] = n
      BY <1>0, <2>1 DEF Types, Picked
    <2> QED BY <2>1, <1>0, <1>2, StaysTheirs
  <1> QED BY <1>1, <1>2, <1>3, <1>4, <1>5, <1>6 DEF ApprovalInv

LEMMA RunStep ==
    ASSUME ApprovalInv, NEW r \in Session,
           EndRun(r) \/ FinishRun(r) \/ Lost(r) \/ CancelRunApprovals(r)
    PROVE  ApprovalInv' /\ DecisionStays
  <1> USE ApprovalAssumption DEF ApprovalAssumption, EndRun, FinishRun, Lost, CancelRunApprovals,
      approvals, waits, posts
  <1>0. Types /\ Asked /\ Picked /\ ActsOnStored /\ AnswersTheirs
    BY DEF ApprovalInv
  <1>1. Types'
    <2>1. state' \in [Waiters -> {"none", "requested"} \cup Decisions]
      BY <1>0 DEF Types, Decisions
    <2>2. answerer' \in [Waiters -> Messages \cup {Person, Nobody}]
      BY <1>0 DEF Types
    <2>3. pc' \in [Waiters -> {"idle", "returned", "failed", "gone"} \cup AtWork]
      BY <1>0 DEF Types, AtWork, Closing
    <2>4. held' \in [Waiters -> Views]
      BY <1>0 DEF Types
    <2>5. post' \in [Messages -> {"none", "listing", "picked", "answered", "unanswered"}]
      BY <1>0 DEF Types
    <2>6. open' \in [Messages -> SUBSET Questions]
      BY <1>0 DEF Types
    <2>7. picked' \in [Messages -> Questions \cup {Nobody}]
      BY <1>0 DEF Types
    <2> QED BY <2>1, <2>2, <2>3, <2>4, <2>5, <2>6, <2>7 DEF Types
  <1>2. DecisionStays
    BY <1>0 DEF DecisionStays, Types, Asked, Decisions
  <1>3. Asked'
    BY <1>0 DEF Asked, Types, Closing, Decisions
  <1>4. Picked'
    BY <1>0 DEF Picked, Types
  <1>5. ActsOnStored'
    <2>1. ASSUME NEW v \in Waiters, pc'[v] \in {"decided", "returned"}
          PROVE  \/ pc[v] \in {"decided", "returned"} /\ held'[v] = held[v]
                 \/ /\ held'[v] = [status |-> state'[v], by |-> answerer'[v]]
                    /\ state'[v] \in Decisions
      BY <1>0, <2>1 DEF Types, Asked, Decisions
    <2> QED BY <2>1, <1>0, <1>2, KeepsOrTakes
  <1>6. AnswersTheirs'
    <2>1. ASSUME NEW n \in Messages, post'[n] = "answered"
          PROVE  \/ post[n] = "answered" /\ picked'[n] = picked[n]
                 \/ state'[picked'[n]] = "approved" /\ answerer'[picked'[n]] = n
      BY <1>0, <2>1 DEF Types, Picked
    <2> QED BY <2>1, <1>0, <1>2, StaysTheirs
  <1> QED BY <1>1, <1>2, <1>3, <1>4, <1>5, <1>6 DEF ApprovalInv

LEMMA NextApproval == ApprovalInv /\ [Next]_vars => ApprovalInv' /\ DecisionStays
  <1> SUFFICES ASSUME ApprovalInv, [Next]_vars PROVE ApprovalInv' /\ DecisionStays
    OBVIOUS
  <1>1. ASSUME NEW w \in Waiters,
               \/ CreateApproval(w) \/ Await(w) \/ WaitFails(w) \/ ExpiresAt(w) \/ Deadline(w)
               \/ \E d \in Decisions : resolveApproval(w, d)
        PROVE  ApprovalInv' /\ DecisionStays
    BY <1>1, AskStep, WaitStep, HoldStep, CloseStep, ReturnStep, PersonStep DEF Await
  <1>2. ASSUME NEW m \in Messages, PostMessage(m) \/ Posting(m) \/ PostFails(m)
        PROVE  ApprovalInv' /\ DecisionStays
    BY <1>2, ListStep, AnswerStep DEF Posting
  <1>3. CASE UNCHANGED vars
    BY <1>3 DEF vars, approvals, waits, posts, ApprovalInv, DecisionStays, Types, Asked,
                Picked, ActsOnStored, AnswersTheirs
  <1> QED BY <1>1, <1>2, <1>3, RunStep DEF Next

LEMMA ApprovalInvHolds == Spec => []ApprovalInv
  BY InitApproval, NextApproval, PTL DEF Spec

(* awaitApproval's caller and its events go by the one decision the store  *)
(* keeps, however timeouts, people, messages, takeovers and failures race. *)
THEOREM WaitersActOnStored == Spec => []ActsOnStored
  BY ApprovalInvHolds, PTL DEF ApprovalInv

(* PostMessage reports an answer only when the store kept this message as  *)
(* the answer.                                                             *)
THEOREM MessagesAnswerTheirs == Spec => []AnswersTheirs
  BY ApprovalInvHolds, PTL DEF ApprovalInv

(* Who decided first decided: no later step changes a decision.            *)
THEOREM DecisionsAreFinal == Spec => [][DecisionStays]_vars
  <1>1. ApprovalInv /\ [Next]_vars => [DecisionStays]_vars
    BY NextApproval
  <1> QED BY <1>1, ApprovalInvHolds, PTL DEF Spec

-----------------------------------------------------------------------------
(* An open approval has somebody who waits.                                *)

Awaited == {"created", "waiting"} \cup Closing

Watched == errors \in Nat /\ OpenIsAwaited

(* A step keeps OpenIsAwaited if it is an error, or if every waiter that   *)
(* is asked for after it either waits, or was open before and has kept its *)
(* place and its takeover.                                                 *)
LEMMA StaysAwaited ==
    ASSUME Watched, errors' \in Nat,
           \/ errors' > 0
           \/ /\ errors' = errors
              /\ \A w \in Waiters : state'[w] = "requested" =>
                    \/ pc'[w] \in Awaited
                    \/ RunOf[w] \in resuming'
                    \/ /\ state[w] = "requested"
                       /\ pc'[w] = pc[w] \/ pc[w] \notin Awaited
                       /\ resuming' = resuming
    PROVE  Watched'
  BY DEF Watched, OpenIsAwaited, Awaited

LEMMA WaiterWatched ==
    ASSUME ApprovalInv, Watched, NEW w \in Waiters,
           CreateApproval(w) \/ Announce(w) \/ WaitEnds(w) \/ WaitFails(w)
    PROVE  Watched'
  <1>1. Types /\ errors \in Nat
    BY DEF ApprovalInv, Watched
  <1>2. CASE CreateApproval(w)
    <2>1. errors' \in Nat /\ (errors' = errors \/ errors' > 0)
      BY <1>1, <1>2 DEF CreateApproval, Fault
    <2>2. resuming' = resuming
      BY <1>2 DEF CreateApproval, taken
    <2>3. ASSUME NEW v \in Waiters, state'[v] = "requested"
          PROVE  \/ pc'[v] \in Awaited
                 \/ state[v] = "requested" /\ (pc'[v] = pc[v] \/ pc[v] \notin Awaited)
      BY <1>1, <1>2, <2>3 DEF CreateApproval, WaiterTo, Types, Awaited, Closing
    <2> QED BY <2>1, <2>2, <2>3, StaysAwaited
  <1>3. CASE Announce(w)
    <2>1. errors' \in Nat /\ (errors' = errors \/ errors' > 0)
      BY <1>1, <1>3 DEF Announce, transitionRun, Fault
    <2>2. resuming' = resuming /\ state' = state
      BY <1>3 DEF Announce, taken, approvals
    <2>3. ASSUME NEW v \in Waiters
          PROVE  pc'[v] \in Awaited \/ pc'[v] = pc[v]
      BY <1>1, <1>3 DEF Announce, WaiterTo, Types, Awaited
    <2> QED BY <2>1, <2>2, <2>3, StaysAwaited
  <1>4. CASE WaitEnds(w)
    <2>1. errors' = errors /\ resuming' = resuming /\ state' = state
      BY <1>4 DEF WaitEnds, taken, approvals
    <2>2. ASSUME NEW v \in Waiters
          PROVE  pc'[v] \in Awaited \/ pc'[v] = pc[v]
      BY <1>1, <1>4 DEF WaitEnds, WaiterTo, Types, Awaited, Closing
    <2> QED BY <1>1, <2>1, <2>2, StaysAwaited
  <1>5. CASE WaitFails(w)
    <2>1. errors' \in Nat /\ errors' > 0
      BY <1>1, <1>5 DEF WaitFails, Fault
    <2> QED BY <2>1, StaysAwaited
  <1> QED BY <1>2, <1>3, <1>4, <1>5

(* Whoever closes an approval finds it open only to resolve it, and whoever *)
(* holds a decision has no open approval.                                  *)
LEMMA DecidedWatched ==
    ASSUME ApprovalInv, Watched, NEW w \in Waiters,
           WaitResolved(w) \/ CloseApproval(w) \/ ReadBack(w) \/ Return(w)
    PROVE  Watched'
  <1>1. Types /\ Asked /\ ActsOnStored /\ errors \in Nat
    BY DEF ApprovalInv, Watched
  <1>2. resuming' = resuming
    BY DEF WaitResolved, CloseApproval, ReadBack, Return, taken
  <1>3. errors' \in Nat /\ (errors' = errors \/ errors' > 0)
    BY <1>1 DEF WaitResolved, CloseApproval, ReadBack, Return, transitionRun, Fault
  <1>4. ASSUME NEW v \in Waiters, v # w
        PROVE  state'[v] = state[v] /\ pc'[v] = pc[v]
    BY <1>1, <1>4 DEF WaitResolved, CloseApproval, ReadBack, Return, ResolveApproval,
                      Hold, WaiterTo, Types, approvals
  <1>5. CASE WaitResolved(w)
    <2>1. state' = state /\ state[w] # "requested"
      BY <1>5 DEF WaitResolved, approvals
    <2> QED BY <1>2, <1>3, <1>4, <2>1, StaysAwaited
  <1>6. CASE CloseApproval(w)
    <2>1. errors' > 0 \/ state'[w] # "requested"
      BY <1>1, <1>6 DEF CloseApproval, Open, ResolveApproval, Fault, Types
    <2> QED BY <1>2, <1>3, <1>4, <2>1, StaysAwaited
  <1>7. CASE ReadBack(w)
    <2>1. state' = state /\ state[w] # "requested"
      BY <1>1, <1>7 DEF ReadBack, approvals, Asked, Decisions
    <2> QED BY <1>2, <1>3, <1>4, <2>1, StaysAwaited
  <1>8. CASE Return(w)
    <2>1. state' = state /\ state[w] # "requested"
      BY <1>1, <1>8 DEF Return, approvals, ActsOnStored, Decisions
    <2> QED BY <1>2, <1>3, <1>4, <2>1, StaysAwaited
  <1> QED BY <1>5, <1>6, <1>7, <1>8

(* Clocks, people, messages and the end of a run move no waiter, and open  *)
(* no approval.                                                            *)
LEMMA OthersWatched ==
    ASSUME ApprovalInv, Watched,
           \/ \E w \in Waiters : \/ ExpiresAt(w) \/ Deadline(w)
                                 \/ \E d \in Decisions : resolveApproval(w, d)
           \/ \E m \in Messages : PostMessage(m) \/ Posting(m) \/ PostFails(m)
           \/ \E r \in Session : EndRun(r) \/ FinishRun(r)
    PROVE  Watched'
  <1>1. Types /\ errors \in Nat
    BY DEF ApprovalInv, Watched
  <1>2. resuming' = resuming /\ pc' = pc
    BY DEF ExpiresAt, Deadline, resolveApproval, PostMessage, Posting, ListApprovals,
           PickQuestion, Answer, PostFails, EndRun, FinishRun, taken, waits
  <1>3. errors' \in Nat /\ (errors' = errors \/ errors' > 0)
    BY <1>1 DEF ExpiresAt, Deadline, resolveApproval, PostMessage, Posting, ListApprovals,
           PickQuestion, Answer, PostFails, EndRun, FinishRun, Fault
  <1>4. ASSUME NEW v \in Waiters, state'[v] = "requested"
        PROVE  state[v] = "requested"
    BY <1>1, <1>4 DEF ExpiresAt, Deadline, resolveApproval, PostMessage, Posting,
           ListApprovals, PickQuestion, Answer, PostFails, EndRun, FinishRun,
           ResolveApproval, Types, approvals
  <1> QED BY <1>2, <1>3, <1>4, StaysAwaited

(* A takeover that loses waiters cancels what they asked for.              *)
LEMMA TakeoverWatched ==
    ASSUME ApprovalInv, Watched, NEW r \in Session, Lost(r) \/ CancelRunApprovals(r)
    PROVE  Watched'
  <1>1. Types /\ errors \in Nat /\ errors' = errors
    BY DEF ApprovalInv, Watched, Lost, CancelRunApprovals
  <1>2. CASE Lost(r)
    <2> SUFFICES ASSUME NEW v \in Waiters, errors = 0, state'[v] = "requested"
                 PROVE  pc'[v] \in Awaited \/ RunOf[v] \in resuming'
      BY <1>1 DEF Watched, OpenIsAwaited, Awaited
    <2>1. state' = state /\ resuming' = resuming \cup {r}
      BY <1>2 DEF Lost, approvals
    <2>2. RunOf[v] # r => pc'[v] = pc[v]
      BY <1>2 DEF Lost, waits
    <2> QED BY <2>1, <2>2 DEF Watched, OpenIsAwaited, Awaited
  <1>3. CASE CancelRunApprovals(r)
    <2> SUFFICES ASSUME NEW v \in Waiters, errors = 0, state'[v] = "requested"
                 PROVE  pc[v] \in Awaited \/ RunOf[v] \in resuming'
      BY <1>1, <1>3 DEF Watched, OpenIsAwaited, Awaited, CancelRunApprovals, waits
    <2>1. state[v] = "requested" /\ RunOf[v] # r
      BY <1>3 DEF CancelRunApprovals
    <2>2. resuming' = resuming \ {r}
      BY <1>3 DEF CancelRunApprovals
    <2> QED BY <2>1, <2>2 DEF Watched, OpenIsAwaited, Awaited
  <1> QED BY <1>2, <1>3

(* As long as the store answers, nobody is shown an approval that no run   *)
(* waits for: awaitApproval closes what it stops waiting for, and a        *)
(* takeover cancels what the lost execution left.                          *)
THEOREM ApprovalsAreAwaited == Spec => []OpenIsAwaited
  <1>1. Init => Watched
    BY DEF Init, Watched, OpenIsAwaited
  <1>2. ApprovalInv /\ Watched /\ [Next]_vars => Watched'
    <2> SUFFICES ASSUME ApprovalInv, Watched, [Next]_vars PROVE Watched'
      OBVIOUS
    <2>1. CASE UNCHANGED vars
      BY <2>1 DEF vars, approvals, waits, taken, Watched, OpenIsAwaited
    <2> QED BY <2>1, WaiterWatched, DecidedWatched, OthersWatched, TakeoverWatched
            DEF Next, Await
  <1>3. Watched => OpenIsAwaited
    BY DEF Watched
  <1> QED BY <1>1, <1>2, <1>3, ApprovalInvHolds, PTL DEF Spec

=============================================================================
