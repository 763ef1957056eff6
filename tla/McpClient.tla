----------------------------- MODULE McpClient ------------------------------
(***************************************************************************)
(* A client of an MCP server (tool/mcp/mcp.go) and the registry it fills   *)
(* (tool/tool.go).  Concurrent calls share one connection, which any of    *)
(* them drops when its call is lost and the next one makes anew; a breaker *)
(* leaves a failing server alone; the tool list is read again in the       *)
(* background when the server says that it changed and after a reconnect.  *)
(* The server and the SDK are modelled by how the client uses them.        *)
(***************************************************************************)
EXTENDS Integers, FiniteSets

CONSTANTS
    Tools,
    Hints,        \* per tool: the annotations the server gives
    Taken,        \* names of tools another part of the program registered
    Broken,       \* tools whose input schema does not compile
    Calls,        \* callers, each of which calls its tool again and again
    ToolOf,
    MaxRetries,
    BreakAfter,
    MaxFaults,    \* bound: lost connections, outages and canceled calls
    MaxChanges,   \* bound: changes of the server's tools
    MayClose      \* bound: is Close called?

ASSUME McpAssumption ==
    /\ Hints \in [Tools -> [readOnly : BOOLEAN, idempotent : BOOLEAN,
                            destructive : BOOLEAN, openWorld : BOOLEAN]]
    /\ Taken \subseteq Tools /\ Broken \subseteq Tools /\ ToolOf \in [Calls -> Tools]
    /\ MaxRetries \in Nat /\ BreakAfter \in Nat \ {0}
    /\ MaxFaults \in Nat /\ MaxChanges \in Nat /\ MayClose \in BOOLEAN

VARIABLES
    \* the server
    offered,     \* the tools it has
    up,          \* can it be connected to?
    alive,       \* connections that work
    noted,       \* connections with a list-changed notification under way
    faults, changes,
    \* the client
    session,     \* Client.session, a connection's number, or 0
    connects,
    opened,      \* connections the client has not closed
    closed,
    pending,     \* one resync waits
    failures, open,
    \* the registry
    sync,        \* syncLocked: how far it is, its connection and its list
    syncFailed,  \* did the last one fail?
    reg,         \* per tool name: whose tool the registry has
    registered,
    \* the calls
    pc, conn, round, sent, canceled

server == <<offered, up, alive, noted, faults, changes>>
client == <<session, connects, opened, closed, pending>>
breaker == <<failures, open>>
registry == <<sync, syncFailed, reg, registered>>
calls == <<pc, conn, round, sent, canceled>>
vars == <<server, client, breaker, registry, calls>>

Idle == [step |-> "no", conn |-> 0, listed |-> {}]

TypeOK ==
    /\ offered \subseteq Tools /\ up \in BOOLEAN
    /\ connects \in Nat /\ session \in 0 .. connects
    /\ alive \subseteq 1 .. connects /\ noted \subseteq 1 .. connects
    /\ opened \subseteq 1 .. connects
    /\ faults \in 0 .. MaxFaults /\ changes \in 0 .. MaxChanges
    /\ closed \in BOOLEAN /\ pending \in BOOLEAN /\ open \in BOOLEAN
    /\ failures \in 0 .. BreakAfter
    /\ sync.step \in {"no", "connecting", "listing", "applying"}
    /\ sync.conn \in 0 .. connects /\ sync.listed \subseteq Tools
    /\ syncFailed \in BOOLEAN
    /\ reg \in [Tools -> {"none", "ours", "other"}] /\ registered \subseteq Tools
    /\ pc \in [Calls -> {"idle", "connecting", "calling", "lost", "failing"}]
    /\ conn \in [Calls -> 0 .. connects] /\ round \in [Calls -> 0 .. MaxRetries + 1]
    /\ sent \in [Calls -> 0 .. MaxRetries + 1] /\ canceled \in [Calls -> BOOLEAN]

(* main calls Register, and stops when it fails.                           *)
Init ==
    /\ offered = Tools /\ up = TRUE /\ alive = {1} /\ noted = {}
    /\ faults = 0 /\ changes = 0
    /\ session = 1 /\ connects = 1 /\ opened = {1} /\ closed = FALSE /\ pending = FALSE
    /\ failures = 0 /\ open = FALSE
    /\ sync = [step |-> "listing", conn |-> 1, listed |-> {}] /\ syncFailed = FALSE
    /\ reg = [t \in Tools |-> IF t \in Taken THEN "other" ELSE "none"]
    /\ registered = {}
    /\ pc = [c \in Calls |-> "idle"] /\ conn = [c \in Calls |-> 0]
    /\ round = [c \in Calls |-> 0] /\ sent = [c \in Calls |-> 0]
    /\ canceled = [c \in Calls |-> FALSE]

-----------------------------------------------------------------------------
(* The server.                                                             *)

Changes ==
    /\ changes < MaxChanges /\ changes' = changes + 1
    /\ \E t \in Tools : offered' = IF t \in offered THEN offered \ {t} ELSE offered \cup {t}
    /\ noted' = noted \cup alive
    /\ UNCHANGED <<up, alive, faults, client, breaker, registry, calls>>

GoesDown ==
    /\ up /\ faults < MaxFaults /\ faults' = faults + 1
    /\ up' = FALSE /\ alive' = {} /\ noted' = {}
    /\ UNCHANGED <<offered, changes, client, breaker, registry, calls>>

ComesUp ==
    /\ ~up /\ up' = TRUE
    /\ UNCHANGED <<offered, alive, noted, faults, changes, client, breaker, registry, calls>>

LosesConnection ==
    /\ faults < MaxFaults /\ faults' = faults + 1
    /\ \E s \in alive : alive' = alive \ {s} /\ noted' = noted \ {s}
    /\ UNCHANGED <<offered, up, changes, client, breaker, registry, calls>>

-----------------------------------------------------------------------------
(* The connection.                                                         *)

(* connected returns connection s; again: it had to reconnect.             *)
connected(s, again) ==
    /\ ~closed
    /\ IF session # 0
       THEN s = session /\ ~again /\ UNCHANGED <<session, connects, opened, alive>>
       ELSE /\ up /\ s = connects + 1 /\ (again <=> connects > 0)
            /\ connects' = s /\ session' = s
            /\ opened' = opened \cup {s} /\ alive' = alive \cup {s}

Unreachable == closed \/ (session = 0 /\ ~up)

(* Mutant of drop: the connection of another call is forgotten.            *)
dropAny(s) ==
    /\ session' = 0 /\ opened' = opened \ {s} /\ alive' = alive \ {s}

drop(s) ==
    IF session = s
    THEN session' = 0 /\ opened' = opened \ {s} /\ alive' = alive \ {s}
    ELSE UNCHANGED <<session, opened, alive>>

resync == pending' = (pending \/ ~closed)

Close ==
    /\ MayClose /\ ~closed /\ closed' = TRUE
    /\ session' = 0 /\ opened' = opened \ {session} /\ alive' = alive \ {session}
    /\ UNCHANGED <<offered, up, noted, faults, changes, connects, pending, breaker,
                   registry, calls>>

-----------------------------------------------------------------------------
(* Calls.                                                                  *)

(* The class of a tool, the cautious one unless a hint says otherwise.     *)
definition(t) ==
    LET a == Hints[t]
    IN  [sideEffect |-> IF a.readOnly
                        THEN IF a.openWorld THEN "read_external" ELSE "none"
                        ELSE IF a.destructive THEN "dangerous"
                        ELSE IF a.openWorld THEN "write_external" ELSE "write_internal",
         idempotent |-> a.readOnly \/ a.idempotent,
         parallel |-> a.readOnly]

(* Mutant of Rounds: what cannot be undone is retried too.                 *)
RoundsAlways(c) == 1 + MaxRetries

Rounds(c) == IF definition(ToolOf[c]).idempotent THEN 1 + MaxRetries ELSE 1

Returns(c) ==
    /\ pc' = [pc EXCEPT ![c] = "idle"] /\ conn' = [conn EXCEPT ![c] = 0]
    /\ round' = [round EXCEPT ![c] = 0] /\ sent' = [sent EXCEPT ![c] = 0]
    /\ canceled' = [canceled EXCEPT ![c] = FALSE]

(* A caller found its tool in the registry, and the circuit is closed.     *)
Begins(c) ==
    /\ pc[c] = "idle" /\ reg[ToolOf[c]] = "ours" /\ ~open
    /\ pc' = [pc EXCEPT ![c] = "connecting"]
    /\ round' = [round EXCEPT ![c] = 1]
    /\ UNCHANGED <<server, client, breaker, registry, conn, sent, canceled>>

(* Its context ends: the run is canceled, or the call takes too long.      *)
Cancels(c) ==
    /\ pc[c] # "idle" /\ ~canceled[c]
    /\ faults < MaxFaults /\ faults' = faults + 1
    /\ canceled' = [canceled EXCEPT ![c] = TRUE]
    /\ UNCHANGED <<offered, up, alive, noted, changes, client, breaker, registry,
                   pc, conn, round, sent>>

(* Mutant of Connects: the tools are not read again.                       *)
ConnectsOnly(c) ==
    /\ pc[c] = "connecting"
    /\ \E s \in 1 .. connects + 1, again \in BOOLEAN :
          /\ connected(s, again) /\ UNCHANGED pending
          /\ conn' = [conn EXCEPT ![c] = s]
    /\ sent' = [sent EXCEPT ![c] = @ + 1]
    /\ pc' = [pc EXCEPT ![c] = "calling"]
    /\ UNCHANGED <<offered, up, noted, faults, changes, closed, breaker, registry,
                   round, canceled>>

Connects(c) ==
    /\ pc[c] = "connecting"
    /\ \E s \in 1 .. connects + 1, again \in BOOLEAN :
          /\ connected(s, again)
          /\ IF again THEN resync ELSE UNCHANGED pending
          /\ conn' = [conn EXCEPT ![c] = s]
    /\ sent' = [sent EXCEPT ![c] = @ + 1]
    /\ pc' = [pc EXCEPT ![c] = "calling"]
    /\ UNCHANGED <<offered, up, noted, faults, changes, closed, breaker, registry,
                   round, canceled>>

(* Another round, unless they are used up or the context has ended.        *)
Again(c) ==
    IF round[c] < Rounds(c) /\ ~canceled[c]
    THEN /\ pc' = [pc EXCEPT ![c] = "connecting"]
         /\ round' = [round EXCEPT ![c] = @ + 1]
    ELSE pc' = [pc EXCEPT ![c] = "failing"] /\ UNCHANGED round

CannotConnect(c) ==
    /\ pc[c] = "connecting" /\ (Unreachable \/ (session = 0 /\ canceled[c]))
    /\ Again(c)
    /\ UNCHANGED <<server, client, breaker, registry, conn, sent, canceled>>

(* A result, or an error of the server's own: healthy.                     *)
Answered(c) ==
    /\ pc[c] = "calling" /\ conn[c] \in alive
    /\ failures' = 0
    /\ Returns(c)
    /\ UNCHANGED <<server, client, open, registry>>

(* Any other error.                                                        *)
Lost(c) ==
    /\ pc[c] = "calling" /\ (conn[c] \notin alive \/ canceled[c])
    /\ pc' = [pc EXCEPT ![c] = "lost"]
    /\ UNCHANGED <<server, client, breaker, registry, conn, round, sent, canceled>>

(* Mutant of Drops: a lost connection is kept.                             *)
DropsNothing(c) ==
    /\ pc[c] = "lost"
    /\ Again(c)
    /\ conn' = [conn EXCEPT ![c] = 0]
    /\ UNCHANGED <<server, client, breaker, registry, sent, canceled>>

Drops(c) ==
    /\ pc[c] = "lost"
    /\ drop(conn[c]) /\ Again(c)
    /\ conn' = [conn EXCEPT ![c] = 0]
    /\ UNCHANGED <<offered, up, noted, faults, changes, connects, closed, pending, breaker,
                   registry, sent, canceled>>

(* failed; the count matters up to BreakAfter.                             *)
Fails(c) ==
    /\ pc[c] = "failing"
    /\ failures' = IF failures < BreakAfter THEN failures + 1 ELSE failures
    /\ open' = (open \/ failures + 1 >= BreakAfter)
    /\ Returns(c)
    /\ UNCHANGED <<server, client, registry>>

(* BreakFor passes.                                                        *)
CircuitCloses ==
    /\ open /\ open' = FALSE
    /\ UNCHANGED <<server, client, failures, registry, calls>>

-----------------------------------------------------------------------------
(* The tool list.                                                          *)

(* ToolListChangedHandler.                                                 *)
Notified(s) ==
    /\ s \in noted /\ noted' = noted \ {s}
    /\ resync
    /\ UNCHANGED <<offered, up, alive, faults, changes, session, connects, opened, closed,
                   breaker, registry, calls>>

(* The goroutine of resync gets syncMu.                                    *)
SyncBegins ==
    /\ pending /\ sync.step = "no" /\ pending' = FALSE
    /\ sync' = [Idle EXCEPT !.step = "connecting"]
    /\ UNCHANGED <<server, session, connects, opened, closed, breaker, syncFailed, reg,
                   registered, calls>>

SyncConnects ==
    /\ sync.step = "connecting"
    /\ \/ \E s \in 1 .. connects + 1, again \in BOOLEAN :
             connected(s, again) /\ sync' = [sync EXCEPT !.step = "listing", !.conn = s]
       \/ Unreachable /\ sync' = Idle /\ UNCHANGED <<session, connects, opened, alive>>
    /\ UNCHANGED <<offered, up, noted, faults, changes, closed, pending, breaker,
                   syncFailed, reg, registered, calls>>

SyncLists ==
    /\ sync.step = "listing" /\ sync.conn \in alive
    /\ sync' = [sync EXCEPT !.step = "applying", !.listed = offered]
    /\ UNCHANGED <<server, client, breaker, syncFailed, reg, registered, calls>>

(* Listing fails: the connection is lost, or the server does not answer.   *)
SyncFails ==
    /\ sync.step = "listing"
    /\ sync.conn \in alive => faults < MaxFaults
    /\ faults' = IF sync.conn \in alive THEN faults + 1 ELSE faults
    /\ syncFailed' = (sync.conn \in alive)
    /\ sync' = Idle
    /\ UNCHANGED <<offered, up, alive, noted, changes, client, breaker, reg, registered,
                   calls>>

(* The registry's Register of these tools, and Unregister of the others    *)
(* that the client had registered.                                         *)
Register(ours) ==
    reg' = [t \in Tools |-> IF t \in ours THEN "ours"
                            ELSE IF t \in registered THEN "none" ELSE reg[t]]

(* Mutant of SyncApplies: a tool that is taken is replaced.                *)
SyncReplaces ==
    LET ours == sync.listed \ Broken
    IN  /\ sync.step = "applying"
        /\ Register(ours)
        /\ registered' = ours /\ sync' = Idle /\ syncFailed' = FALSE
        /\ UNCHANGED <<server, client, breaker, calls>>

(* Names of others and tools whose schemas do not compile are skipped.     *)
SyncApplies ==
    LET ours == {t \in sync.listed \ Broken : reg[t] = "none" \/ t \in registered}
    IN  /\ sync.step = "applying"
        /\ Register(ours)
        /\ registered' = ours /\ sync' = Idle /\ syncFailed' = FALSE
        /\ UNCHANGED <<server, client, breaker, calls>>

-----------------------------------------------------------------------------
Calling(c) ==
    Connects(c) \/ CannotConnect(c) \/ Answered(c) \/ Lost(c) \/ Drops(c) \/ Fails(c)

Syncing == SyncBegins \/ SyncConnects \/ SyncLists \/ SyncFails \/ SyncApplies

Next ==
    \/ Changes \/ GoesDown \/ ComesUp \/ LosesConnection \/ Close
    \/ \E c \in Calls : Begins(c) \/ Cancels(c) \/ Calling(c)
    \/ CircuitCloses \/ Syncing \/ \E s \in noted : Notified(s)

Spec == Init /\ [][Next]_vars

(* Goroutines run and timers fire, and a server that is down comes back.   *)
FairSpec ==
    /\ Spec /\ WF_vars(Syncing) /\ WF_vars(CircuitCloses) /\ WF_vars(ComesUp)
    /\ \A c \in Calls : WF_vars(Calling(c))

-----------------------------------------------------------------------------
(* Properties.                                                             *)

(* The client has no connection open but its current one: a call that was  *)
(* lost on an old connection leaves the one another call made since.       *)
OneConnection == opened = {session} \ {0}

(* The registry differs from the server's tools only while something will  *)
(* still bring it up to date: no working connection (the call that makes   *)
(* one asks for a sync), a notification or sync under way, or a sync that  *)
(* has yet to read the list; a sync that the server did not answer is lost.*)
(* The tools of others stay theirs.                                        *)
StaleIsNoticed ==
    /\ {t \in Tools : reg[t] = "ours"} # offered \ (Taken \cup Broken) =>
          \/ closed \/ syncFailed \/ session \notin alive
          \/ session \in noted \/ pending \/ sync.step \in {"connecting", "listing"}
          \/ (sync.step = "applying" /\ sync.listed = offered)
    /\ \A t \in Taken : reg[t] = "other"

(* A call is sent again only if the server hinted that this is safe.       *)
RetriedIfSafe ==
    \A c \in Calls : sent[c] > 1 =>
        Hints[ToolOf[c]].readOnly \/ Hints[ToolOf[c]].idempotent

(* Once the faults are over, no call goes without a connection any more    *)
(* and the circuit stays closed: a lost connection is dropped by whoever   *)
(* meets it, and the breaker is no trap.                                   *)
Recovers == <>[](closed \/ (~open /\ \A c \in Calls : pc[c] # "failing"))

=============================================================================
