---------------------------- MODULE EventStream -----------------------------
(***************************************************************************)
(* How a run's events reach an SSE client: the two stores' Append and      *)
(* Subscribe (store/store.go MemStore, store/pg/pg.go), the LISTEN/NOTIFY  *)
(* connection that wakes the PostgreSQL subscriptions (store/pg/notify.go) *)
(* and api/server.go streamEvents, with a client that reconnects and sends *)
(* the last id it received.                                                *)
(*                                                                         *)
(* One run, one client.  An event is "shown" or "hidden" (its visibility   *)
(* is not for this client's role), or "final" (endsRun); after a final     *)
(* event others follow when the run is resumed.                            *)
(***************************************************************************)
EXTENDS Naturals, Sequences, FiniteSets

CONSTANTS
    Drivers,   \* the stores in use: "mem", "pg"
    Writers,   \* goroutines, of any process, that append events
    Buffer,    \* per driver, room in the channel of Subscribe: mem 256 past
               \* the backlog, pg 64
    MaxEvents, \* bound: events stored
    MaxFaults  \* bound: lost connections and failed calls

ASSUME StreamAssumption ==
    /\ Drivers \subseteq {"mem", "pg"}
    /\ Buffer \in [Drivers -> Nat \ {0}] /\ MaxEvents \in Nat /\ MaxFaults \in Nat

Kinds == {"shown", "hidden", "final"}

VARIABLES
    driver,  \* the store of this server
    log,     \* the stored (committed) events of the run, by sequence
    next,    \* the next sequence number: runSeq, or event_counters
    tx,      \* pg: the number each writer's open transaction holds, or 0
    conn,    \* the request: where streamEvents is, "off" without one
    after,   \* streamEvents' afterSeq
    queue,   \* the channel Subscribe returned
    room,    \* its capacity
    feeder,  \* pg: Subscribe's goroutine
    batch,   \* pg: the events its query returned and it has not sent
    seq,     \* pg: the last sequence it sent
    short,   \* pg: its last query ended early, and it does not know
    wake,    \* pg: its watch channel holds a signal
    lst,     \* pg: the LISTEN connection
    note,    \* pg: a notification for this run is on that connection
    wire,    \* written to the response, not yet received
    got,     \* what the client received
    faults

store  == <<driver, log, next, tx>>
pgside == <<feeder, batch, seq, short, wake>>
listen == <<lst, note>>
vars   == <<store, conn, after, queue, room, pgside, listen, wire, got, faults>>

Feed == INSTANCE EventFeed WITH Kinds <- Kinds, log <- log, got <- got

-----------------------------------------------------------------------------
Last(s) == IF s = <<>> THEN 0 ELSE s[Len(s)]

(* The stored events after s, in order.                                    *)
Since(l, s) ==
    LET later == {x \in DOMAIN l : x > s}
    IN  [i \in 1 .. Cardinality(later) |->
            CHOOSE x \in later : Cardinality({y \in later : y < x}) = i - 1]

(* What queryEvents returns when the query fails while its rows are read:  *)
(* rows.Err() is not asked, so it is the events read so far, and no error. *)
Partial(s) == LET all == Since(log, s) IN {SubSeq(all, 1, n) : n \in 0 .. Len(all) - 1}

Visible(l, s) == l[s] # "hidden"

endsRun(s) == log[s] = "final"

Fault == faults < MaxFaults /\ faults' = faults + 1

TypeOK ==
    /\ DOMAIN log \subseteq 1 .. MaxEvents /\ \A s \in DOMAIN log : log[s] \in Kinds
    /\ next \in 1 .. MaxEvents + 1
    /\ tx \in [Writers -> 0 .. MaxEvents]
    /\ conn \in {"off", "history", "subscribe", "live"}
    /\ after \in {0} \cup DOMAIN log /\ seq \in {0} \cup DOMAIN log
    /\ \A q \in {queue, batch, wire, got} : \A i \in DOMAIN q : q[i] \in DOMAIN log
    /\ Len(queue) <= room
    /\ feeder \in {"off", "query", "send", "wait", "closed"}
    /\ short \in BOOLEAN /\ wake \in BOOLEAN /\ note \in BOOLEAN
    /\ lst \in {"down", "listening", "up"}
    /\ faults \in 0 .. MaxFaults

Init ==
    /\ driver \in Drivers
    /\ log = [s \in {} |-> "shown"] /\ next = 1
    /\ tx = [w \in Writers |-> 0]
    /\ conn = "off" /\ after = 0
    /\ queue = <<>> /\ room = Buffer[driver]
    /\ feeder = "off" /\ batch = <<>> /\ seq = 0 /\ short = FALSE /\ wake = FALSE
    /\ lst = "down" /\ note = FALSE
    /\ wire = <<>> /\ got = <<>> /\ faults = 0

-----------------------------------------------------------------------------
(* MemStore.Append numbers, stores and sends in one critical section; a    *)
(* full channel drops the event.                                           *)
MemAppend(k) ==
    /\ driver = "mem" /\ next <= MaxEvents
    /\ log' = Feed!With(log, next, k) /\ next' = next + 1
    /\ queue' = IF conn = "live" /\ Len(queue) < room THEN Append(queue, next)
                                                      ELSE queue
    /\ UNCHANGED <<driver, tx, conn, after, room, pgside, listen, wire, got, faults>>

(* allocSequence: the update of the counter's row locks it until the       *)
(* transaction ends.                                                       *)
allocSequence(w) ==
    /\ driver = "pg" /\ next <= MaxEvents
    /\ \A v \in Writers : tx[v] = 0
    /\ tx' = [tx EXCEPT ![w] = next] /\ next' = next + 1
    /\ UNCHANGED <<driver, log, conn, after, queue, room, pgside, listen, wire, got,
                   faults>>

(* The commit makes the event visible and sends the notification.          *)
Commit(w, k) ==
    /\ tx[w] # 0
    /\ log' = Feed!With(log, tx[w], k)
    /\ tx' = [tx EXCEPT ![w] = 0]
    /\ note' = (note \/ lst # "down")
    /\ UNCHANGED <<driver, next, conn, after, queue, room, pgside, lst, wire, got,
                   faults>>

Rollback(w) ==
    /\ tx[w] # 0 /\ Fault
    /\ next' = next - 1
    /\ tx' = [tx EXCEPT ![w] = 0]
    /\ UNCHANGED <<driver, log, conn, after, queue, room, pgside, listen, wire, got>>

-----------------------------------------------------------------------------
(* notifier.listenOnce.                                                    *)

Listen ==
    /\ driver = "pg" /\ lst = "down"
    /\ lst' = "listening"
    /\ UNCHANGED <<store, conn, after, queue, room, pgside, note, wire, got, faults>>

(* A subscription watches from before its first query until it returns.    *)
Watching == feeder \notin {"off", "closed"}

(* Mutant of wakeAll: watchers are not woken after a reconnect.            *)
wakeNobody ==
    /\ lst = "listening" /\ lst' = "up"
    /\ UNCHANGED <<store, conn, after, queue, room, pgside, note, wire, got, faults>>

wakeAll ==
    /\ lst = "listening" /\ lst' = "up"
    /\ wake' = (wake \/ Watching)
    /\ UNCHANGED <<store, conn, after, queue, room, feeder, batch, seq, short, note,
                   wire, got, faults>>

Notified ==
    /\ lst = "up" /\ note
    /\ note' = FALSE
    /\ wake' = (wake \/ Watching)
    /\ UNCHANGED <<store, conn, after, queue, room, feeder, batch, seq, short, lst,
                   wire, got, faults>>

(* Notifications sent while the connection is down are lost.               *)
ListenLost ==
    /\ lst # "down" /\ Fault
    /\ lst' = "down" /\ note' = FALSE
    /\ UNCHANGED <<store, conn, after, queue, room, pgside, wire, got>>

-----------------------------------------------------------------------------
(* Subscribe's goroutine, pg.                                              *)

Queried(events) ==
    /\ feeder = "query"
    /\ batch' = events
    /\ feeder' = IF events = <<>> THEN "wait" ELSE "send"
    /\ UNCHANGED <<store, conn, after, queue, room, seq, wake, listen, wire, got>>

Query == Queried(Since(log, seq)) /\ short' = FALSE /\ UNCHANGED faults

(* It goes on with what it got, and the signal that made it look is used.  *)
QueryEndsEarly ==
    /\ \E events \in Partial(seq) : Queried(events)
    /\ short' = TRUE /\ Fault

(* An error queryEvents does report: it returns, and closes the channel.   *)
QueryFails ==
    /\ feeder = "query" /\ Fault
    /\ feeder' = "closed" /\ short' = FALSE /\ wake' = FALSE
    /\ UNCHANGED <<store, conn, after, queue, room, batch, seq, listen, wire, got>>

(* A full channel blocks it.                                               *)
Send ==
    /\ feeder = "send" /\ Len(queue) < room
    /\ queue' = Append(queue, Head(batch))
    /\ seq' = Head(batch)
    /\ batch' = Tail(batch)
    /\ feeder' = IF batch' = <<>> THEN "wait" ELSE "send"
    /\ UNCHANGED <<store, conn, after, room, short, wake, listen, wire, got, faults>>

Woken ==
    /\ feeder = "wait" /\ wake
    /\ feeder' = "query" /\ wake' = FALSE
    /\ UNCHANGED <<store, conn, after, queue, room, batch, seq, short, listen, wire,
                   got, faults>>

(* Mutant of Rechecks: it waits for a signal only.                         *)
RechecksNever == FALSE /\ UNCHANGED vars

(* The ticker of Store.Recheck: it looks again without a signal.           *)
Rechecks ==
    /\ feeder = "wait" /\ feeder' = "query"
    /\ UNCHANGED <<store, conn, after, queue, room, batch, seq, short, wake, listen,
                   wire, got, faults>>

-----------------------------------------------------------------------------
(* streamEvents.                                                           *)

(* The deferred cancel: the subscription ends with the request.            *)
Unsubscribe ==
    /\ queue' = <<>> /\ room' = Buffer[driver]
    /\ feeder' = "off" /\ batch' = <<>> /\ seq' = 0
    /\ short' = FALSE /\ wake' = FALSE

(* Write adds an event to the response if the client may see it.           *)
Written(s) == SelectSeq(s, LAMBDA x : Visible(log, x))

(* The client, once it has read the last response, asks again with the     *)
(* last id it received.                                                    *)
Connect ==
    /\ conn = "off" /\ wire = <<>>
    /\ conn' = "history" /\ after' = Last(got)
    /\ UNCHANGED <<store, queue, room, pgside, listen, wire, got, faults>>

(* "Drain history first": a final event closes the stream only as the last *)
(* one.                                                                    *)
Drained(events) ==
    /\ conn = "history"
    /\ wire' = wire \o Written(events)
    /\ after' = IF events = <<>> THEN after ELSE Last(events)
    /\ conn' = IF events # <<>> /\ endsRun(Last(events)) THEN "off" ELSE "subscribe"
    /\ UNCHANGED <<store, queue, room, pgside, listen, got>>

History == Drained(Since(log, after)) /\ UNCHANGED faults

(* ListRunEvents of pg ends early, or its error is ignored: the            *)
(* subscription reads the rest.                                            *)
HistoryFails ==
    /\ driver = "pg" /\ Fault
    /\ \E events \in Partial(after) \cup {<<>>} : Drained(events)

(* mem: the backlog is taken in the critical section that attaches the     *)
(* channel.  pg: the goroutine starts with a query.                        *)
Subscribe ==
    /\ conn = "subscribe" /\ conn' = "live"
    /\ IF driver = "mem"
       THEN /\ queue' = Since(log, after)
            /\ room' = Len(queue') + Buffer[driver]
            /\ UNCHANGED pgside
       ELSE /\ feeder' = "query" /\ seq' = after
            /\ UNCHANGED <<queue, room, batch, short, wake>>
    /\ UNCHANGED <<store, after, listen, wire, got, faults>>

(* The live loop takes one event; a final one ends the stream.             *)
Live ==
    /\ conn = "live" /\ queue # <<>>
    /\ LET s == Head(queue) IN
       \/ /\ s <= after
          /\ queue' = Tail(queue)
          /\ UNCHANGED <<conn, after, room, pgside, wire>>
       \/ /\ s > after
          /\ wire' = wire \o Written(<<s>>) /\ after' = s
          /\ \/ endsRun(s) /\ conn' = "off" /\ Unsubscribe
             \/ ~endsRun(s) /\ queue' = Tail(queue) /\ UNCHANGED <<conn, room, pgside>>
    /\ UNCHANGED <<store, listen, got, faults>>

(* The channel is closed and empty.                                        *)
LiveClosed ==
    /\ conn = "live" /\ feeder = "closed" /\ queue = <<>>
    /\ conn' = "off" /\ Unsubscribe
    /\ UNCHANGED <<store, after, listen, wire, got, faults>>

(* The connection breaks, or the server stops and closes its streams: what *)
(* was written may not arrive.                                             *)
Disconnect ==
    /\ conn # "off" /\ Fault
    /\ conn' = "off" /\ wire' = <<>> /\ Unsubscribe
    /\ UNCHANGED <<store, after, listen, got>>

Receive ==
    /\ wire # <<>>
    /\ got' = Append(got, Head(wire)) /\ wire' = Tail(wire)
    /\ UNCHANGED <<store, conn, after, queue, room, pgside, listen, faults>>

-----------------------------------------------------------------------------
Stream == History \/ Subscribe \/ Live \/ LiveClosed

Feeding == Query \/ Send \/ Woken

Listening == Listen \/ wakeAll \/ Notified

Next ==
    \/ \E k \in Kinds : MemAppend(k)
    \/ \E w \in Writers : allocSequence(w) \/ Rollback(w)
    \/ \E w \in Writers, k \in Kinds : Commit(w, k)
    \/ Listening \/ ListenLost
    \/ Feeding \/ Rechecks \/ QueryEndsEarly \/ QueryFails
    \/ Connect \/ Stream \/ HistoryFails \/ Disconnect \/ Receive

Spec == Init /\ [][Next]_vars

(* The server's goroutines run, and the client reads its response and      *)
(* reconnects, as EventSource does.  Nobody has to append or commit.  The  *)
(* ticker is counted on only after a query that ended early: everything    *)
(* else is found by notifications.                                         *)
Fairness ==
    /\ WF_vars(Stream) /\ WF_vars(Feeding) /\ WF_vars(Listening)
    /\ WF_vars(short /\ Rechecks)
    /\ WF_vars(Connect) /\ WF_vars(Receive)

FairSpec == Spec /\ Fairness

-----------------------------------------------------------------------------
(* Properties.                                                             *)

(* Everything the client may read up to the last id it received, it did    *)
(* receive, in order: Last-Event-ID resumes with no gap.                   *)
NoGap ==
    /\ \A i, j \in DOMAIN got : i < j => got[i] < got[j]
    /\ \A s \in DOMAIN log : Visible(log, s) /\ s <= Last(got) =>
          \E i \in DOMAIN got : got[i] = s

(* The stream implements the promise: order, no gap, no duplicate, and     *)
(* every event the client may read arrives in the end.                     *)
ImplementsFeed == Feed!Spec

(* A final event that later events follow does not close the stream: here, *)
(* not even when those events are already in the stream's own channel.     *)
ResumedStaysOpen ==
    [][(conn = "live" /\ conn' = "off" /\ after' # after) => Len(queue) = 1]_vars

=============================================================================
