--------------------------- MODULE Conversations ----------------------------
(***************************************************************************)
(* Requests that start runs and post messages (runtime/orchestrator.go     *)
(* StartRun, prepareRun, createRun; runtime/chat.go PostMessage), and what *)
(* their runs do to the session's messages: sessionHistory reads them,     *)
(* compact folds the older ones into a snapshot, completeTask adds the     *)
(* replies (runtime/compaction.go).  Store calls of different requests and *)
(* runs interleave with each other and with a purge.                       *)
(***************************************************************************)
EXTENDS SessionStore

CONSTANTS
    Posting,       \* requests of PostMessage with a run; the others are StartRun's
    MaxMessages,   \* Compaction
    MaxTokens,
    KeepRecent,    \* per run: as the process that executes it is configured
    ReplySize,     \* tokens of a reply; a human's message has one
    MaxReplies,    \* bound: the tasks each run completes
    MaxResumes,    \* bound: how often stopped runs are taken up again
    ResumeFailed   \* may a failed run be resumed?

ASSUME ConversationAssumption ==
    /\ Posting \subseteq Runs
    /\ MaxMessages \in Nat /\ MaxTokens \in Nat /\ KeepRecent \in [Runs -> Nat]
    /\ ReplySize \in Nat /\ MaxReplies \in [Runs -> Nat] /\ MaxResumes \in Nat
    /\ ResumeFailed \in BOOLEAN

VARIABLES
    pc,       \* per request: where it, and then its run, is
    stamp,    \* the created_at it has read for its next message, or 0
    answer,   \* what the request was answered
    next,     \* the summary compact is writing
    replies,  \* how many tasks its run has completed
    resumes

vars == <<stvars, pc, stamp, answer, next, replies, resumes>>

Executing == {"failing", "summarising", "working", "replying"}

Places ==
    Executing \cup {"new", "checked", "prepared", "posting", "creating",
                    "created", "queued", "stopped", "reopened", "over"}

NoSnapshot == [through |-> 0, covers |-> {}, count |-> 0]

TypeOK ==
    /\ StoreTypeOK
    /\ pc \in [Runs -> Places]
    /\ stamp \in [Runs -> Nat]
    /\ answer \in [Runs -> Runs \cup {"none", "error"}]
    /\ next \in [Runs -> [through : Nat, covers : SUBSET Nat, count : Nat]]
    /\ \A q \in Runs : replies[q] \in 0 .. MaxReplies[q]
    /\ resumes \in 0 .. MaxResumes

Init ==
    /\ StoreInit
    /\ pc = [q \in Runs |-> "new"] /\ stamp = [q \in Runs |-> 0]
    /\ answer = [q \in Runs |-> "none"] /\ next = [q \in Runs |-> NoSnapshot]
    /\ replies = [q \in Runs |-> 0] /\ resumes = 0

Goto(q, place) == pc' = [pc EXCEPT ![q] = place]

Answers(q, a) == answer' = [answer EXCEPT ![q] = a]

Quiet == UNCHANGED <<next, replies, resumes>>

-----------------------------------------------------------------------------
(* StartRun and PostMessage.                                               *)

(* GetSession.                                                             *)
Checks(q) ==
    /\ pc[q] = "new"
    /\ IF GetSession(SessionOf[q])
       THEN Goto(q, "checked") /\ UNCHANGED answer
       ELSE Goto(q, "over") /\ Answers(q, "error")
    /\ UNCHANGED <<stvars, stamp>> /\ Quiet

(* The rest of prepareRun: a run of another session has the key, a run of  *)
(* this one, or none.                                                      *)
Prepares(q) ==
    /\ pc[q] = "checked"
    /\ \/ \E r \in FindByIdempotency(q) :
             /\ Goto(q, "over")
             /\ Answers(q, IF SessionOf[r] = SessionOf[q] THEN r ELSE "error")
       \/ /\ FindByIdempotency(q) = {}
          /\ Goto(q, IF q \in Posting THEN "prepared" ELSE "creating")
          /\ UNCHANGED answer
    /\ UNCHANGED <<stvars, stamp>> /\ Quiet

(* PostMessage appends the event.                                          *)
PostsEvent(q) ==
    /\ pc[q] = "prepared" /\ Unlocked(SessionOf[q])
    /\ Append(SessionOf[q])
    /\ IF Accepts(SessionOf[q])
       THEN Goto(q, "posting") /\ UNCHANGED answer
       ELSE Goto(q, "over") /\ Answers(q, "error")
    /\ UNCHANGED <<backend, live, row, msgs, clock, purge, stamp>> /\ Quiet

(* AddMessage of pg.go reads the time before its insert.                   *)
Stamps(q) ==
    /\ pc[q] \in {"posting", "summarising", "replying"} /\ backend = "pg" /\ stamp[q] = 0
    /\ stamp' = [stamp EXCEPT ![q] = clock] /\ clock' = clock + 1
    /\ UNCHANGED <<backend, live, recent, row, msgs, purge, pc, answer>> /\ Quiet

Stamped(q) == backend = "mem" \/ stamp[q] # 0

StampOf(q) == IF backend = "mem" THEN clock ELSE stamp[q]

(* The insert of AddMessage.                                               *)
Writes(q, m) ==
    /\ Stamped(q) /\ Unlocked(SessionOf[q]) /\ AddMessage(m)
    /\ clock' = IF backend = "mem" THEN clock + 1 ELSE clock
    /\ stamp' = [stamp EXCEPT ![q] = 0]
    /\ UNCHANGED <<backend, live, row, purge>>

Text(q, run) ==
    [session |-> SessionOf[q], run |-> run, at |-> StampOf(q), snapshot |-> FALSE,
     through |-> 0, covers |-> {}, count |-> 0, late |-> FALSE]

Posts(q) ==
    /\ pc[q] = "posting"
    /\ Writes(q, Text(q, NoRun))
    /\ IF Accepts(SessionOf[q])
       THEN Goto(q, "creating") /\ UNCHANGED answer
       ELSE Goto(q, "over") /\ Answers(q, "error")
    /\ UNCHANGED recent /\ Quiet

(* Mutant of Creates: the key is not looked up again.                      *)
CreatesBlindly(q) ==
    /\ pc[q] = "creating" /\ Unlocked(SessionOf[q])
    /\ Accepts(SessionOf[q]) /\ CreateRun(q) /\ Goto(q, "created") /\ Answers(q, q)
    /\ UNCHANGED <<backend, live, recent, msgs, clock, purge, stamp>> /\ Quiet

(* createRun: admitted or not, the row is written or refused.              *)
Creates(q) ==
    /\ pc[q] = "creating" /\ Unlocked(SessionOf[q])
    /\ \/ CanCreate(q) /\ CreateRun(q) /\ Goto(q, "created") /\ Answers(q, q)
       \/ Goto(q, "over") /\ Answers(q, "error") /\ UNCHANGED row
    /\ UNCHANGED <<backend, live, recent, msgs, clock, purge, stamp>> /\ Quiet

(* launch, or an image that cannot be stored; the row stays for Recover.   *)
Launches(q) ==
    /\ pc[q] = "created" /\ Unlocked(SessionOf[q])
    /\ \/ Goto(q, "queued") /\ Append(SessionOf[q]) /\ UNCHANGED answer
       \/ Goto(q, "stopped") /\ Answers(q, "error") /\ UNCHANGED recent
    /\ UNCHANGED <<backend, live, row, msgs, clock, purge, stamp>> /\ Quiet

-----------------------------------------------------------------------------
(* sessionHistory and compact.                                             *)

(* The last snapshot of a list of messages in the order of the stamps.     *)
Last(list) ==
    LET snaps == {m \in list : m.snapshot}
        last == CHOOSE m \in snaps : \A n \in snaps : n.at <= m.at
    IN  IF snaps = {} THEN NoSnapshot
        ELSE [through |-> last.through, covers |-> last.covers, count |-> last.count]

(* Mutant of Tail: the last summarized message is told twice.              *)
TailTwice(list, run, last) ==
    {m \in list : ~m.snapshot /\ m.run # run /\ m.at >= last.through}

(* The texts after it, without the run's own.                              *)
Tail(list, run, last) ==
    {m \in list : ~m.snapshot /\ m.run # run /\ m.at > last.through}

Size(set) ==
    Cardinality({m \in set : m.run = NoRun})
        + ReplySize * Cardinality({m \in set : m.run # NoRun})

exceeded(tail) ==
    \/ MaxMessages > 0 /\ Cardinality(tail) > MaxMessages
    \/ MaxTokens > 0 /\ Size(tail) > MaxTokens

(* Mutant of Older: the messages to keep are taken from the wrong end.     *)
OlderNewest(q, tail) ==
    {m \in tail : Cardinality({n \in tail : n.at < m.at}) >= KeepRecent[q]}

(* All but the KeepRecent last ones.                                       *)
Older(q, tail) ==
    {m \in tail : Cardinality({n \in tail : n.at > m.at}) >= KeepRecent[q]}

StampsOf(set) == {m.at : m \in set}

(* The summary of what last covers and of older.                           *)
Summary(last, older) ==
    [through |-> Max(StampsOf(older)),
     covers |-> last.covers \cup StampsOf(older),
     count |-> last.count + Cardinality(older)]

(* What sessionHistory does with the list it got.                          *)
History(q, list) ==
    LET last == Last(list)
        tail == Tail(list, q, last)
        older == Older(q, tail)
    IN  IF exceeded(tail) /\ older # {}
        THEN /\ Goto(q, "summarising")
             /\ next' = [next EXCEPT ![q] = Summary(last, older)]
        ELSE Goto(q, "working") /\ UNCHANGED next

(* The run starts: transitionRun, and what sessionHistory reads.           *)
Reads(q) ==
    /\ pc[q] = "queued"
    /\ UpdateRun(q, "active")
    /\ \/ ~GetSession(SessionOf[q]) /\ Goto(q, "failing") /\ UNCHANGED next
       \/ GetSession(SessionOf[q]) /\ \E list \in Lists(SessionOf[q]) : History(q, list)
    /\ UNCHANGED <<backend, live, recent, msgs, clock, purge, stamp, answer, replies,
                   resumes>>

Snapshot(q) ==
    [session |-> SessionOf[q], run |-> q, at |-> StampOf(q), snapshot |-> TRUE,
     through |-> next[q].through, covers |-> next[q].covers, count |-> next[q].count,
     late |-> FALSE]

(* The agent has answered (its failure is an Ends): the snapshot's message *)
(* and event.                                                              *)
WritesSnapshot(q) ==
    /\ pc[q] = "summarising"
    /\ Writes(q, Snapshot(q))
    /\ Append(SessionOf[q])
    /\ next' = [next EXCEPT ![q] = NoSnapshot]
    /\ Goto(q, "working")
    /\ UNCHANGED <<answer, replies, resumes>>

-----------------------------------------------------------------------------
(* The run goes on.                                                        *)

(* completeTask emits the reply and then stores it.                        *)
Replies(q) ==
    /\ pc[q] = "working" /\ replies[q] < MaxReplies[q] /\ Unlocked(SessionOf[q])
    /\ replies' = [replies EXCEPT ![q] = @ + 1]
    /\ Append(SessionOf[q])
    /\ Goto(q, "replying")
    /\ UNCHANGED <<backend, live, row, msgs, clock, purge, stamp, answer, next, resumes>>

StoresReply(q) ==
    /\ pc[q] = "replying"
    /\ Writes(q, Text(q, q))
    /\ Goto(q, "working")
    /\ UNCHANGED <<recent, answer>> /\ Quiet

(* The run's final status, or paused, and its event.                       *)
Ends(q) ==
    /\ pc[q] \in {"failing", "summarising", "working"} /\ stamp[q] = 0
    /\ Unlocked(SessionOf[q])
    /\ \E status \in {"terminal", "paused"} :
          /\ status = "paused" => pc[q] = "working" /\ resumes < MaxResumes
          /\ UpdateRun(q, status)
          /\ Goto(q, IF status = "paused" \/ ResumeFailed THEN "stopped" ELSE "over")
    /\ Append(SessionOf[q])
    /\ next' = [next EXCEPT ![q] = NoSnapshot]
    /\ replies' = [replies EXCEPT ![q] = 0]
    /\ UNCHANGED <<backend, live, msgs, clock, purge, stamp, answer, resumes>>

(* Its process is lost.                                                    *)
Crashes(q) ==
    /\ pc[q] \in Executing \cup {"queued"} /\ resumes < MaxResumes
    /\ stamp' = [stamp EXCEPT ![q] = 0]
    /\ next' = [next EXCEPT ![q] = NoSnapshot]
    /\ Goto(q, "stopped")
    /\ UNCHANGED <<stvars, answer, replies, resumes>>

(* Recover or Resume reopens the row, which locks no session.              *)
Reopens(q) ==
    /\ pc[q] = "stopped" /\ resumes < MaxResumes
    /\ resumes' = resumes + 1
    /\ UpdateRun(q, "active")
    /\ Goto(q, IF row[q] = "none" THEN "over" ELSE "reopened")
    /\ UNCHANGED <<backend, live, recent, msgs, clock, purge, stamp, answer, next, replies>>

(* Its events, and the queue.                                              *)
Requeues(q) ==
    /\ pc[q] = "reopened" /\ Unlocked(SessionOf[q])
    /\ Append(SessionOf[q])
    /\ Goto(q, "queued")
    /\ UNCHANGED <<backend, live, row, msgs, clock, purge, stamp, answer>> /\ Quiet

-----------------------------------------------------------------------------
(* POST /v1/runs, and what POST /v1/sessions/{sid}/messages does besides.  *)
startRun(q) == Checks(q) \/ Prepares(q) \/ Creates(q) \/ Launches(q)

postMessage(q) == PostsEvent(q) \/ Posts(q)

Run(q) ==
    \/ Reads(q) \/ WritesSnapshot(q) \/ Replies(q) \/ StoresReply(q)
    \/ Ends(q) \/ Crashes(q) \/ Reopens(q) \/ Requeues(q)

Aside == UNCHANGED <<pc, stamp, answer, next, replies, resumes>>

Next ==
    \/ \E q \in Runs : startRun(q) \/ postMessage(q) \/ Stamps(q) \/ Run(q)
    \/ (PurgeStep \/ (\E s \in Sessions : Age(s))) /\ Aside

Spec == Init /\ [][Next]_vars

-----------------------------------------------------------------------------
(* Properties.                                                             *)

(* No message drops out of the history: a run that starts now and reads    *)
(* all that is stored is shown it in the summary or after it, whatever     *)
(* summaries other runs read and wrote meanwhile in either order, also     *)
(* from lists that were cut short.  It may miss a message stored after one *)
(* with a later stamp, and one of a run that compacted after it had        *)
(* written the message, whose summary leaves its own messages out.         *)
Missed(s) ==
    LET last == Last(ListMessages(s))
    IN  {m \in ListMessages(s) :
            ~m.snapshot /\ m.at \notin last.covers /\ m.at <= last.through}

NothingForgotten ==
    \A s \in live : \A m \in Missed(s) :
        \/ m.late
        \/ \E n \in msgs : n.snapshot /\ n.run = m.run /\ n.through > m.at

(* A snapshot's count is the number of messages it covers: none is folded  *)
(* into it twice.                                                          *)
CountsCovered == \A m \in msgs : m.snapshot => m.count = Cardinality(m.covers)

(* A message of a session, unless it is late or a compacting run's own as  *)
(* NothingForgotten says, is in the summary or after it, and no snapshot   *)
(* counts one twice (sessionHistory and compact).                          *)
HistoryKept == NothingForgotten /\ CountsCovered

(* A purge deletes a session only while nothing in it is recent or         *)
(* unfinished, although it picked it earlier and writers went on.          *)
PurgesIdle == [][\A s \in live \ live' : Idle(s)]_vars

(* In PostgreSQL nothing is left of, or written into, a session that is    *)
(* gone, and a run that executes has its session.                          *)
NoOrphans ==
    backend = "pg" =>
        /\ recent \subseteq live /\ \A m \in msgs : m.session \in live
        /\ \A r \in Runs : row[r] # "none" \/ pc[r] \in Executing => SessionOf[r] \in live

(* Starts with a key behave like KeyedStarts: one run per key, and every   *)
(* answer is the run the key stands for.                                   *)
Keys == INSTANCE KeyedStarts WITH
            Requests <- Runs, NoAnswer <- "none", Failed <- "error",
            runs <- {r \in Runs : row[r] # "none"},
            answer <- answer

KeysStandForOneRun == Keys!Spec

=============================================================================
