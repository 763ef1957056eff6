---------------------------- MODULE SessionStore ----------------------------
(***************************************************************************)
(* What the two stores keep of sessions, runs and messages (store/store.go, *)
(* store/retention.go; store/pg/pg.go, store/pg/retention.go), and how     *)
(* PurgeSessions deletes the idle ones while others write.                 *)
(*                                                                         *)
(* In PostgreSQL a writer takes a key-share lock on its session's row and  *)
(* fails when the row is gone; a purge picks the idle sessions, locks them, *)
(* reads again which are idle and deletes those.  The memory store purges  *)
(* under its lock, and its writers do not look for the session.            *)
(***************************************************************************)
EXTENDS Integers, FiniteSets, FiniteSetsExt

CONSTANTS
    Sessions,
    Runs,        \* a run has the name of the request that creates it
    SessionOf,   \* the session each request names
    KeyOf,       \* its idempotency key, or NoKey
    NoKey,
    Earlier,     \* how many messages each session has at the start
    NoRun,       \* the run of a message a human wrote
    Backends     \* the stores to be checked, of "mem" and "pg"

ASSUME StoreAssumption ==
    /\ IsFiniteSet(Runs) /\ NoRun \notin Runs
    /\ SessionOf \in [Runs -> Sessions] /\ DOMAIN KeyOf = Runs
    /\ Earlier \in Nat /\ Backends \subseteq {"mem", "pg"}

VARIABLES
    backend,
    live,      \* the sessions that exist
    recent,    \* those with an event inside the retention period
    row,       \* per run: the status stored, "none" when there is no row
    msgs,      \* the messages of all sessions
    clock,     \* the next time stamp
    purge      \* the purge's transaction: how far it is, and its sessions

stvars == <<backend, live, recent, row, msgs, clock, purge>>

(* A run is queued or running, paused, or has a terminal status.           *)
Statuses == {"none", "active", "paused", "terminal"}

Unfinished == {"active", "paused"}

(* A summary is a message that covers some earlier ones, the last of which *)
(* was written at through; a text covers nothing.  The texts and snapshots *)
(* of a session are ordered by their stamps, which identify them.          *)
Message ==
    [session : Sessions, run : Runs \cup {NoRun}, at : Nat, snapshot : BOOLEAN,
     through : Nat, covers : SUBSET Nat, count : Nat, late : BOOLEAN]

StoreTypeOK ==
    /\ backend \in Backends
    /\ live \subseteq Sessions /\ recent \subseteq Sessions
    /\ row \in [Runs -> Statuses]
    /\ msgs \subseteq Message /\ clock \in Nat \ {0}
    /\ \A m \in msgs : m.at < clock
    /\ purge \in [step : {"no", "picked", "locked", "checked"}, of : SUBSET Sessions]

StoreInit ==
    /\ backend \in Backends
    /\ live = Sessions /\ recent \in SUBSET Sessions
    /\ row = [r \in Runs |-> "none"]
    /\ msgs = {[session |-> s, run |-> NoRun, at |-> i, snapshot |-> FALSE,
                through |-> 0, covers |-> {}, count |-> 0, late |-> FALSE] :
               s \in Sessions, i \in 1 .. Earlier}
    /\ clock = Earlier + 1
    /\ purge = [step |-> "no", of |-> {}]

-----------------------------------------------------------------------------
(* Writers.                                                                *)

(* A writer waits for the transaction that deletes its session.            *)
Unlocked(s) == purge.step \in {"locked", "checked"} => s \notin purge.of

(* Mutant of Accepts: a write into a session that is gone succeeds.        *)
AcceptsAll(s) == TRUE

(* Does the store take a write into s, or answer core.ErrNotFound?         *)
Accepts(s) == backend = "mem" \/ s \in live

Append(s) == recent' = IF Accepts(s) THEN recent \cup {s} ELSE recent

GetSession(s) == s \in live

ListMessages(s) == {m \in msgs : m.session = s}

(* What a reader may get: pg.go does not ask rows.Err(), so a query that   *)
(* fails while its rows are read returns the messages up to some stamp.    *)
Lists(s) ==
    {ListMessages(s)} \cup
        IF backend = "mem" THEN {}
        ELSE {{m \in ListMessages(s) : m.at < c} : c \in 1 .. clock}

(* The run that has the key of r, if any.                                  *)
FindByIdempotency(r) ==
    {q \in Runs : KeyOf[r] # NoKey /\ KeyOf[q] = KeyOf[r] /\ row[q] # "none"}

(* core.ErrConflict when the key is taken.                                 *)
CanCreate(r) == Accepts(SessionOf[r]) /\ FindByIdempotency(r) = {}

CreateRun(r) == row' = [row EXCEPT ![r] = "active"]

(* PostgreSQL's rows carry the time their process read before the insert;  *)
(* late says that a later stamp was stored before.                         *)
AddMessage(m) ==
    msgs' = IF Accepts(m.session)
            THEN msgs \cup {[m EXCEPT !.late = \E n \in msgs :
                                n.session = m.session /\ n.at > m.at]}
            ELSE msgs

(* A row that is gone is not updated.                                      *)
UpdateRun(r, status) ==
    row' = [row EXCEPT ![r] = IF @ = "none" THEN @ ELSE status]

-----------------------------------------------------------------------------
(* The purge.                                                              *)

Idle(s) ==
    /\ s \in live \ recent
    /\ \A r \in Runs : SessionOf[r] = s => row[r] \notin Unfinished

(* The retention period passes since the session's last event.             *)
Age(s) ==
    /\ s \in recent /\ recent' = recent \ {s}
    /\ UNCHANGED <<backend, live, row, msgs, clock, purge>>

(* Everything in the sessions goes with them.                              *)
Delete(set) ==
    /\ live' = live \ set /\ recent' = recent \ set
    /\ row' = [r \in Runs |-> IF SessionOf[r] \in set THEN "none" ELSE row[r]]
    /\ msgs' = {m \in msgs : m.session \notin set}
    /\ UNCHANGED <<backend, clock>>

PurgeMemory ==
    /\ backend = "mem" /\ (\E s \in Sessions : Idle(s))
    /\ Delete({s \in Sessions : Idle(s)})
    /\ UNCHANGED purge

(* The subquery reads a snapshot, before the rows are locked.              *)
PurgePicks ==
    /\ backend = "pg" /\ purge.step = "no" /\ (\E s \in Sessions : Idle(s))
    /\ purge' = [step |-> "picked", of |-> {s \in Sessions : Idle(s)}]
    /\ UNCHANGED <<backend, live, recent, row, msgs, clock>>

PurgeLocks ==
    /\ purge.step = "picked"
    /\ purge' = [purge EXCEPT !.step = "locked"]
    /\ UNCHANGED <<backend, live, recent, row, msgs, clock>>

(* Mutant of PurgeChecks: what was picked is deleted.                      *)
PurgeTrusts ==
    /\ purge.step = "locked"
    /\ purge' = [purge EXCEPT !.step = "checked"]
    /\ UNCHANGED <<backend, live, recent, row, msgs, clock>>

PurgeChecks ==
    /\ purge.step = "locked"
    /\ purge' = [step |-> "checked", of |-> {s \in purge.of : Idle(s)}]
    /\ UNCHANGED <<backend, live, recent, row, msgs, clock>>

PurgeDeletes ==
    /\ purge.step = "checked"
    /\ Delete(purge.of)
    /\ purge' = [step |-> "no", of |-> {}]

PurgeStep ==
    \/ PurgeMemory \/ PurgePicks \/ PurgeLocks \/ PurgeChecks \/ PurgeDeletes

=============================================================================
