--------------------------- MODULE McpClientProofs --------------------------
(***************************************************************************)
(* Proofs about McpClient, for any tools, hints and callers, any number of *)
(* retries, faults and changes of the server's tools.                      *)
(***************************************************************************)
EXTENDS McpClient, TLAPS

Syncs == [step : {"no", "connecting", "listing", "applying"}, conn : Nat,
          listed : SUBSET Tools]

Types == TypeOK /\ sync \in Syncs /\ connects > 0

(* The parts of it a step changes together.                                *)
Rest ==
    /\ offered \subseteq Tools /\ up \in BOOLEAN
    /\ connects \in Nat /\ connects > 0 /\ session \in 0 .. connects
    /\ alive \subseteq 1 .. connects /\ noted \subseteq 1 .. connects
    /\ opened \subseteq 1 .. connects
    /\ faults \in 0 .. MaxFaults /\ changes \in 0 .. MaxChanges
    /\ closed \in BOOLEAN /\ pending \in BOOLEAN /\ open \in BOOLEAN
    /\ failures \in 0 .. BreakAfter
    /\ syncFailed \in BOOLEAN /\ registered \subseteq Tools

Callers ==
    /\ pc \in [Calls -> {"idle", "connecting", "calling", "lost", "failing"}]
    /\ conn \in [Calls -> 0 .. connects] /\ round \in [Calls -> 0 .. MaxRetries + 1]
    /\ sent \in [Calls -> 0 .. MaxRetries + 1] /\ canceled \in [Calls -> BOOLEAN]

(* The registry has the tools the client remembers having registered as    *)
(* its own, and no tool of another part of the program is among them.      *)
Ours ==
    /\ registered \cap Taken = {}
    /\ reg = [t \in Tools |-> IF t \in Taken THEN "other"
                              ELSE IF t \in registered THEN "ours" ELSE "none"]

(* A change the client has not seen yet will reach it: over a notification *)
(* or sync under way, or when a call makes the next connection.            *)
Noticed == closed \/ session \notin alive \/ session \in noted \/ pending

(* A sync that reads a connection which is no longer the client's, or      *)
(* holds a list which is no longer the server's, will be followed by       *)
(* another one.                                                            *)
Followed ==
    /\ closed => session = 0
    /\ sync.step = "listing" /\ sync.conn # session => session = 0 \/ pending
    /\ sync.step = "applying" /\ sync.listed # offered => Noticed

(* Each round sends at most once, and there are no more than Rounds.       *)
OncePerRound ==
    \A c \in Calls :
        /\ round[c] <= Rounds(c) /\ sent[c] <= round[c]
        /\ pc[c] = "connecting" => sent[c] < round[c]
        /\ pc[c] = "idle" => sent[c] = 0

McpInv ==
    Types /\ OneConnection /\ Ours /\ Followed /\ OncePerRound /\ StaleIsNoticed

-----------------------------------------------------------------------------
LEMMA RoundsType ==
    ASSUME NEW c \in Calls
    PROVE  /\ Rounds(c) \in 1 .. MaxRetries + 1
           /\ Rounds(c) > 1 =>
                 Hints[ToolOf[c]].readOnly \/ Hints[ToolOf[c]].idempotent
  BY McpAssumption DEF McpAssumption, Rounds, definition

LEMMA InitMcp == Init => McpInv
  <1> SUFFICES ASSUME Init PROVE McpInv
    OBVIOUS
  <1> USE McpAssumption DEF McpAssumption, Init
  <1>1. Types
    <2>1. sync \in Syncs /\ sync.step = "listing" /\ sync.conn = 1 /\ sync.listed = {}
      BY DEF Syncs
    <2>2. reg \in [Tools -> {"none", "ours", "other"}]
      OBVIOUS
    <2>3. Callers
      BY DEF Callers
    <2>4. Rest
      <3>1. alive \subseteq 1 .. connects /\ opened \subseteq 1 .. connects
        OBVIOUS
      <3>2. noted \subseteq 1 .. connects /\ registered \subseteq Tools
        OBVIOUS
      <3>3. /\ up \in BOOLEAN /\ closed \in BOOLEAN /\ pending \in BOOLEAN
            /\ open \in BOOLEAN /\ syncFailed \in BOOLEAN
        OBVIOUS
      <3>4. /\ connects \in Nat /\ connects > 0 /\ session \in 0 .. connects
            /\ faults \in 0 .. MaxFaults /\ changes \in 0 .. MaxChanges
            /\ failures \in 0 .. BreakAfter /\ offered \subseteq Tools
        OBVIOUS
      <3> QED BY <3>1, <3>2, <3>3, <3>4 DEF Rest
    <2> QED BY <2>1, <2>2, <2>3, <2>4 DEF Types, TypeOK, Rest, Callers
  <1>2. OneConnection
    BY DEF OneConnection
  <1>3. Ours
    BY DEF Ours
  <1>4. Followed
    BY DEF Followed
  <1>5. OncePerRound
    BY RoundsType DEF OncePerRound
  <1>6. StaleIsNoticed
    BY DEF StaleIsNoticed
  <1> QED BY <1>1, <1>2, <1>3, <1>4, <1>5, <1>6 DEF McpInv

-----------------------------------------------------------------------------
LEMMA TypesParts ==
    Types <=> /\ Rest /\ Callers
              /\ sync \in Syncs /\ sync.conn <= connects
              /\ reg \in [Tools -> {"none", "ours", "other"}]
  <1>1. sync \in Syncs => /\ sync.step \in {"no", "connecting", "listing", "applying"}
                          /\ sync.conn \in Nat /\ sync.listed \subseteq Tools
    BY DEF Syncs
  <1>2. connects \in Nat /\ sync.conn \in Nat =>
           (sync.conn <= connects <=> sync.conn \in 0 .. connects)
    OBVIOUS
  <1> QED BY <1>1, <1>2 DEF Types, TypeOK, Rest, Callers

(* A connection the client has, and a new one, is one of those made.       *)
LEMMA ConnectedType ==
    ASSUME Rest, NEW s \in 1 .. connects + 1, NEW again \in BOOLEAN,
           connected(s, again)
    PROVE  /\ connects' \in Nat /\ connects' >= connects /\ s \in 1 .. connects'
           /\ session' = s /\ alive' \subseteq 1 .. connects'
           /\ opened' \subseteq 1 .. connects'
           /\ noted \subseteq 1 .. connects'
  <1>0. /\ connects \in Nat /\ connects > 0 /\ session \in 0 .. connects
        /\ alive \subseteq 1 .. connects /\ noted \subseteq 1 .. connects
        /\ opened \subseteq 1 .. connects
    BY DEF Rest
  <1>1. CASE session # 0
    <2>1. /\ s = session /\ session' = session /\ connects' = connects
          /\ opened' = opened /\ alive' = alive
      BY <1>1 DEF connected
    <2> QED BY <1>0, <1>1, <2>1
  <1>2. CASE session = 0
    <2>1. /\ s = connects + 1 /\ connects' = s /\ session' = s
          /\ opened' = opened \cup {s} /\ alive' = alive \cup {s}
      BY <1>2 DEF connected
    <2> QED BY <1>0, <2>1
  <1> QED BY <1>1, <1>2

LEMMA AgainType ==
    ASSUME Callers, NEW c \in Calls, Again(c)
    PROVE  /\ pc' \in [Calls -> {"idle", "connecting", "calling", "lost", "failing"}]
           /\ round' \in [Calls -> 0 .. MaxRetries + 1]
  <1>0. MaxRetries \in Nat
    BY McpAssumption DEF McpAssumption
  <1>1. CASE round[c] < Rounds(c) /\ ~canceled[c]
    <2>1. /\ pc' = [pc EXCEPT ![c] = "connecting"]
          /\ round' = [round EXCEPT ![c] = round[c] + 1]
      BY <1>1 DEF Again
    <2>2. round[c] + 1 \in 0 .. MaxRetries + 1
      BY <1>0, <1>1, RoundsType DEF Callers
    <2> QED BY <2>1, <2>2 DEF Callers
  <1>2. CASE ~(round[c] < Rounds(c) /\ ~canceled[c])
    <2>1. pc' = [pc EXCEPT ![c] = "failing"] /\ round' = round
      BY <1>2 DEF Again
    <2> QED BY <2>1 DEF Callers
  <1> QED BY <1>1, <1>2

LEMMA DropType ==
    ASSUME Rest, NEW s \in Nat, drop(s), connects' = connects
    PROVE  /\ session' \in 0 .. connects' /\ opened' \subseteq 1 .. connects'
           /\ alive' \subseteq 1 .. connects'
  <1>1. CASE session = s
    <2>1. session' = 0 /\ opened' = opened \ {s} /\ alive' = alive \ {s}
      BY <1>1 DEF drop
    <2> QED BY <2>1 DEF Rest
  <1>2. CASE session # s
    BY <1>2 DEF Rest, drop
  <1> QED BY <1>1, <1>2

LEMMA RestStep == ASSUME Rest, Callers, sync \in Syncs, Next PROVE Rest'
  <1> USE McpAssumption DEF McpAssumption, server, client, breaker, registry, calls
  <1>1. CASE Changes
    BY <1>1 DEF Changes, Rest
  <1>2. CASE GoesDown
    <2>1. alive' = {} /\ noted' = {} /\ faults < MaxFaults /\ faults' = faults + 1
      BY <1>2 DEF GoesDown
    <2>2. alive' \subseteq 1 .. connects' /\ noted' \subseteq 1 .. connects'
      BY <2>1
    <2>3. faults' \in 0 .. MaxFaults
      BY <2>1 DEF Rest
    <2>4. up' \in BOOLEAN
      BY <1>2 DEF GoesDown
    <2> QED BY <1>2, <2>2, <2>3, <2>4 DEF GoesDown, Rest
  <1>3. CASE ComesUp
    BY <1>3 DEF ComesUp, Rest
  <1>4. CASE LosesConnection
    BY <1>4 DEF LosesConnection, Rest
  <1>5. CASE Close
    BY <1>5 DEF Close, Rest
  <1>6. ASSUME NEW c \in Calls, Begins(c) PROVE Rest'
    BY <1>6 DEF Begins, Rest
  <1>7. ASSUME NEW c \in Calls, Cancels(c) PROVE Rest'
    BY <1>7 DEF Cancels, Rest
  <1>8. ASSUME NEW c \in Calls, Connects(c) PROVE Rest'
    <2>1. PICK s \in 1 .. connects + 1, again \in BOOLEAN : connected(s, again)
      BY <1>8 DEF Connects
    <2>2. /\ connects' \in Nat /\ connects' >= connects /\ session' \in 1 .. connects'
          /\ alive' \subseteq 1 .. connects' /\ opened' \subseteq 1 .. connects'
          /\ noted \subseteq 1 .. connects'
      BY <2>1, ConnectedType
    <2>3. pending' \in BOOLEAN
      BY <1>8 DEF Connects, resync, Rest
    <2> QED BY <1>8, <2>2, <2>3 DEF Connects, Rest
  <1>9. ASSUME NEW c \in Calls, CannotConnect(c) PROVE Rest'
    BY <1>9 DEF CannotConnect, Again, Rest
  <1>10. ASSUME NEW c \in Calls, Answered(c) PROVE Rest'
    BY <1>10 DEF Answered, Returns, Rest
  <1>11. ASSUME NEW c \in Calls, Lost(c) PROVE Rest'
    BY <1>11 DEF Lost, Rest
  <1>12. ASSUME NEW c \in Calls, Drops(c) PROVE Rest'
    <2>1. conn[c] \in Nat /\ connects' = connects
      BY <1>12 DEF Drops, Callers, Rest
    <2>2. /\ session' \in 0 .. connects' /\ opened' \subseteq 1 .. connects'
          /\ alive' \subseteq 1 .. connects'
      BY <1>12, <2>1, DropType DEF Drops
    <2> QED BY <1>12, <2>2 DEF Drops, Rest
  <1>13. ASSUME NEW c \in Calls, Fails(c) PROVE Rest'
    BY <1>13 DEF Fails, Returns, Rest
  <1>14. CASE CircuitCloses
    BY <1>14 DEF CircuitCloses, Rest
  <1>15. CASE SyncBegins
    BY <1>15 DEF SyncBegins, Idle, Rest
  <1>16. CASE SyncConnects
    <2>1. CASE \E s \in 1 .. connects + 1, again \in BOOLEAN : connected(s, again)
      <3>1. PICK s \in 1 .. connects + 1, again \in BOOLEAN : connected(s, again)
        BY <2>1
      <3>2. /\ connects' \in Nat /\ connects' >= connects /\ session' \in 1 .. connects'
            /\ alive' \subseteq 1 .. connects' /\ opened' \subseteq 1 .. connects'
            /\ noted \subseteq 1 .. connects'
        BY <3>1, ConnectedType
      <3>3. /\ offered' = offered /\ up' = up /\ noted' = noted /\ faults' = faults
            /\ changes' = changes /\ closed' = closed /\ pending' = pending
            /\ failures' = failures /\ open' = open /\ syncFailed' = syncFailed
            /\ registered' = registered
        BY <1>16 DEF SyncConnects
      <3> QED BY <3>2, <3>3 DEF Rest
    <2>2. CASE UNCHANGED <<session, connects, opened, alive>>
      BY <1>16, <2>2 DEF SyncConnects, Rest
    <2> QED BY <1>16, <2>1, <2>2 DEF SyncConnects
  <1>17. CASE SyncLists
    BY <1>17 DEF SyncLists, Rest
  <1>18. CASE SyncFails
    BY <1>18 DEF SyncFails, Idle, Rest
  <1>19. CASE SyncApplies
    <2>1. sync.listed \subseteq Tools
      BY DEF Syncs
    <2>2. registered' \subseteq Tools /\ syncFailed' \in BOOLEAN
      BY <1>19, <2>1 DEF SyncApplies
    <2> QED BY <1>19, <2>2 DEF SyncApplies, Rest
  <1>20. ASSUME NEW s \in noted, Notified(s) PROVE Rest'
    BY <1>20 DEF Notified, resync, Rest
  <1> QED BY <1>1, <1>2, <1>3, <1>4, <1>5, <1>6, <1>7, <1>8, <1>9, <1>10, <1>11, <1>12,
             <1>13, <1>14, <1>15, <1>16, <1>17, <1>18, <1>19, <1>20
          DEF Next, Calling, Syncing

LEMMA CallersStep == ASSUME Rest, Callers, OncePerRound, Next PROVE Callers'
  <1> USE McpAssumption DEF McpAssumption, server, client, breaker, registry, calls
  <1>1. CASE Changes
    BY <1>1 DEF Changes, Rest, Callers
  <1>2. CASE GoesDown
    BY <1>2 DEF GoesDown, Rest, Callers
  <1>3. CASE ComesUp
    BY <1>3 DEF ComesUp, Rest, Callers
  <1>4. CASE LosesConnection
    BY <1>4 DEF LosesConnection, Rest, Callers
  <1>5. CASE Close
    BY <1>5 DEF Close, Rest, Callers
  <1>6. ASSUME NEW c \in Calls, Begins(c) PROVE Callers'
    BY <1>6 DEF Begins, Rest, Callers
  <1>7. ASSUME NEW c \in Calls, Cancels(c) PROVE Callers'
    BY <1>7 DEF Cancels, Rest, Callers
  <1>8. ASSUME NEW c \in Calls, Connects(c) PROVE Callers'
    <2>1. PICK s \in 1 .. connects + 1, again \in BOOLEAN :
             connected(s, again) /\ conn' = [conn EXCEPT ![c] = s]
      BY <1>8 DEF Connects
    <2>2. sent[c] + 1 \in 0 .. MaxRetries + 1
      BY <1>8, RoundsType DEF Connects, OncePerRound, Callers
    <2>3. connects' \in Nat /\ connects' >= connects /\ s \in 1 .. connects' /\ connects \in Nat
      BY <2>1, ConnectedType DEF Rest
    <2>4. conn' \in [Calls -> 0 .. connects']
      BY <2>1, <2>3 DEF Callers
    <2> QED BY <1>8, <2>2, <2>4 DEF Connects, Callers
  <1>9. ASSUME NEW c \in Calls, CannotConnect(c) PROVE Callers'
    <2>1. /\ pc' \in [Calls -> {"idle", "connecting", "calling", "lost", "failing"}]
          /\ round' \in [Calls -> 0 .. MaxRetries + 1]
      BY <1>9, AgainType DEF CannotConnect
    <2>2. connects' = connects
      BY <1>9 DEF CannotConnect
    <2>3. conn' \in [Calls -> 0 .. connects']
      BY <1>9, <2>2 DEF CannotConnect, Callers, Rest
    <2> QED BY <1>9, <2>1, <2>3 DEF CannotConnect, Callers
  <1>10. ASSUME NEW c \in Calls, Answered(c) PROVE Callers'
    BY <1>10 DEF Answered, Returns, Rest, Callers
  <1>11. ASSUME NEW c \in Calls, Lost(c) PROVE Callers'
    BY <1>11 DEF Lost, Rest, Callers
  <1>12. ASSUME NEW c \in Calls, Drops(c) PROVE Callers'
    <2>1. /\ pc' \in [Calls -> {"idle", "connecting", "calling", "lost", "failing"}]
          /\ round' \in [Calls -> 0 .. MaxRetries + 1]
      BY <1>12, AgainType DEF Drops
    <2>2. connects' = connects
      BY <1>12 DEF Drops
    <2>3. conn' \in [Calls -> 0 .. connects']
      BY <1>12, <2>2 DEF Drops, Callers, Rest
    <2> QED BY <1>12, <2>1, <2>3 DEF Drops, Callers
  <1>13. ASSUME NEW c \in Calls, Fails(c) PROVE Callers'
    BY <1>13 DEF Fails, Returns, Rest, Callers
  <1>14. CASE CircuitCloses
    BY <1>14 DEF CircuitCloses, Rest, Callers
  <1>15. CASE SyncBegins
    BY <1>15 DEF SyncBegins, Idle, Rest, Callers
  <1>16. CASE SyncConnects
    <2>1. connects \in Nat /\ connects' \in Nat /\ connects' >= connects
      <3>1. CASE connects' = connects
        BY <3>1 DEF Rest
      <3>2. CASE connects' # connects
        <4>1. PICK s \in 1 .. connects + 1, again \in BOOLEAN : connected(s, again)
          BY <1>16, <3>2 DEF SyncConnects
        <4> QED BY <4>1, ConnectedType DEF Rest
      <3> QED BY <3>1, <3>2
    <2>2. conn' \in [Calls -> 0 .. connects']
      <3>1. conn' = conn
        BY <1>16 DEF SyncConnects
      <3> QED BY <2>1, <3>1 DEF Callers
    <2> QED BY <1>16, <2>2 DEF SyncConnects, Callers
  <1>17. CASE SyncLists
    BY <1>17 DEF SyncLists, Rest, Callers
  <1>18. CASE SyncFails
    BY <1>18 DEF SyncFails, Idle, Rest, Callers
  <1>19. CASE SyncApplies
    BY <1>19 DEF SyncApplies, Register, Idle, Rest, Callers
  <1>20. ASSUME NEW s \in noted, Notified(s) PROVE Callers'
    BY <1>20 DEF Notified, resync, Rest, Callers
  <1> QED BY <1>1, <1>2, <1>3, <1>4, <1>5, <1>6, <1>7, <1>8, <1>9, <1>10, <1>11, <1>12,
             <1>13, <1>14, <1>15, <1>16, <1>17, <1>18, <1>19, <1>20
          DEF Next, Calling, Syncing

(* The records a sync goes through.                                        *)
LEMMA SyncRecords ==
    ASSUME sync \in Syncs, NEW s \in Nat, NEW L \in SUBSET Tools
    PROVE  /\ [Idle EXCEPT !.step = "connecting"]
                 = [step |-> "connecting", conn |-> 0, listed |-> {}]
           /\ [sync EXCEPT !.step = "listing", !.conn = s]
                 = [step |-> "listing", conn |-> s, listed |-> sync.listed]
           /\ [sync EXCEPT !.step = "applying", !.listed = L]
                 = [step |-> "applying", conn |-> sync.conn, listed |-> L]
  <1>1. [Idle EXCEPT !.step = "connecting"]
           = [step |-> "connecting", conn |-> 0, listed |-> {}]
    BY DEF Idle
  <1>2. PICK a \in {"no", "connecting", "listing", "applying"}, b \in Nat, d \in SUBSET Tools :
           sync = [step |-> a, conn |-> b, listed |-> d]
    BY DEF Syncs
  <1>3. [sync EXCEPT !.step = "listing", !.conn = s]
           = [step |-> "listing", conn |-> s, listed |-> sync.listed]
    <2>1. [sync EXCEPT !.step = "listing"] = [step |-> "listing", conn |-> b, listed |-> d]
      BY <1>2
    <2>2. [[step |-> "listing", conn |-> b, listed |-> d] EXCEPT !.conn = s]
             = [step |-> "listing", conn |-> s, listed |-> d]
      OBVIOUS
    <2>3. [sync EXCEPT !.step = "listing", !.conn = s]
             = [[sync EXCEPT !.step = "listing"] EXCEPT !.conn = s]
      BY Zenon
    <2>4. sync.listed = d
      BY <1>2
    <2> QED BY <2>1, <2>2, <2>3, <2>4, Zenon
  <1>4. [sync EXCEPT !.step = "applying", !.listed = L]
           = [step |-> "applying", conn |-> sync.conn, listed |-> L]
    <2>1. [sync EXCEPT !.step = "applying"] = [step |-> "applying", conn |-> b, listed |-> d]
      BY <1>2
    <2>2. [[step |-> "applying", conn |-> b, listed |-> d] EXCEPT !.listed = L]
             = [step |-> "applying", conn |-> b, listed |-> L]
      OBVIOUS
    <2>3. [sync EXCEPT !.step = "applying", !.listed = L]
             = [[sync EXCEPT !.step = "applying"] EXCEPT !.listed = L]
      BY Zenon
    <2>4. sync.conn = b
      BY <1>2
    <2> QED BY <2>1, <2>2, <2>3, <2>4, Zenon
  <1> QED BY <1>1, <1>3, <1>4

(* What a step does to the sync and to the registry.                       *)
LEMMA SyncStep ==
    ASSUME Rest, sync \in Syncs, sync.conn <= connects, Next
    PROVE  sync' \in Syncs /\ (sync').conn <= connects'
  <1> USE DEF server, client, breaker, registry, calls
  <1>0. connects \in Nat
    BY DEF Rest
  <1>1. CASE SyncBegins
    <2>1. sync' = [step |-> "connecting", conn |-> 0, listed |-> {}] /\ connects' = connects
      BY <1>1, SyncRecords DEF SyncBegins
    <2> QED BY <1>0, <2>1 DEF Syncs
  <1>2. CASE SyncConnects
    <2>1. ASSUME NEW s \in 1 .. connects + 1, NEW again \in BOOLEAN, connected(s, again),
                 sync' = [sync EXCEPT !.step = "listing", !.conn = s]
          PROVE  sync' \in Syncs /\ (sync').conn <= connects'
      <3>1. s \in Nat /\ s <= connects' /\ sync.listed \in SUBSET Tools
        BY <1>0, <2>1, ConnectedType DEF Syncs
      <3>2. sync' = [step |-> "listing", conn |-> s, listed |-> sync.listed]
        BY <2>1, <3>1, SyncRecords
      <3> QED BY <3>1, <3>2 DEF Syncs
    <2>2. ASSUME sync' = Idle, connects' = connects
          PROVE  sync' \in Syncs /\ (sync').conn <= connects'
      BY <1>0, <2>2 DEF Idle, Syncs
    <2> QED BY <1>2, <2>1, <2>2 DEF SyncConnects
  <1>3. CASE SyncLists
    <2>1. offered \in SUBSET Tools /\ sync.conn \in Nat /\ connects' = connects
      BY <1>3 DEF Rest, Syncs, SyncLists
    <2>2. sync' = [step |-> "applying", conn |-> sync.conn, listed |-> offered]
      BY <1>3, <2>1, SyncRecords DEF SyncLists
    <2> QED BY <2>1, <2>2 DEF Syncs
  <1>4. CASE SyncFails
    BY <1>0, <1>4 DEF SyncFails, Idle, Syncs
  <1>5. CASE SyncApplies
    BY <1>0, <1>5 DEF SyncApplies, Idle, Syncs
  <1>6. ASSUME NEW c \in Calls, Connects(c)
        PROVE  sync' = sync /\ connects' >= connects
    <2>1. PICK s \in 1 .. connects + 1, again \in BOOLEAN : connected(s, again)
      BY <1>6 DEF Connects
    <2> QED BY <1>6, <2>1, ConnectedType DEF Connects
  <1>7. ASSUME NEW c \in Calls,
               Begins(c) \/ Cancels(c) \/ CannotConnect(c) \/ Answered(c) \/ Lost(c)
                  \/ Drops(c) \/ Fails(c)
        PROVE  sync' = sync /\ connects' = connects
    BY <1>7 DEF Begins, Cancels, CannotConnect, Answered, Lost, Drops, Fails
  <1>8. ASSUME Changes \/ GoesDown \/ ComesUp \/ LosesConnection \/ Close
                  \/ CircuitCloses \/ \E s \in noted : Notified(s)
        PROVE  sync' = sync /\ connects' = connects
    BY <1>8 DEF Changes, GoesDown, ComesUp, LosesConnection, Close, CircuitCloses, Notified
  <1>9. ASSUME sync' = sync, connects' >= connects
        PROVE  sync' \in Syncs /\ (sync').conn <= connects'
    <2>1. connects' \in Nat
      <3>1. CASE connects' = connects
        BY <1>0, <3>1
      <3>2. CASE \E s \in 1 .. connects + 1, again \in BOOLEAN : connected(s, again)
        BY <3>2, ConnectedType
      <3> QED BY <3>1, <3>2 DEF Next, Calling, Syncing, Changes, GoesDown, ComesUp,
                 LosesConnection, Close, Begins, Cancels, Connects, CannotConnect, Answered,
                 Lost, Drops, Fails, CircuitCloses, SyncBegins, SyncConnects, SyncLists,
                 SyncFails, SyncApplies, Notified
    <2>2. sync.conn \in Nat
      BY DEF Syncs
    <2> QED BY <1>0, <1>9, <2>1, <2>2
  <1> QED BY <1>0, <1>1, <1>2, <1>3, <1>4, <1>5, <1>6, <1>7, <1>8, <1>9 DEF Next, Calling, Syncing

LEMMA OursStep == ASSUME Ours, sync \in Syncs, Next PROVE Ours'
  <1> USE DEF server, client, breaker, registry, calls
  <1>1. CASE SyncApplies
    <2> DEFINE ours == {t \in sync.listed \ Broken : reg[t] = "none" \/ t \in registered}
    <2>1. sync.listed \subseteq Tools
      BY DEF Syncs
    <2>2. registered' = ours
      BY <1>1 DEF SyncApplies
    <2>3. reg' = [t \in Tools |-> IF t \in ours THEN "ours"
                                  ELSE IF t \in registered THEN "none" ELSE reg[t]]
      BY <1>1 DEF SyncApplies, Register
    <2>4. ours \cap Taken = {}
      BY <2>1 DEF Ours
    <2>5. ASSUME NEW t \in Tools
          PROVE  reg'[t] = IF t \in Taken THEN "other"
                           ELSE IF t \in registered' THEN "ours" ELSE "none"
      <3> HIDE DEF ours
      <3>1. reg'[t] = IF t \in ours THEN "ours"
                      ELSE IF t \in registered THEN "none" ELSE reg[t]
        BY <2>3
      <3> QED BY <3>1, <2>2, <2>4 DEF Ours
    <2> HIDE DEF ours
    <2>6. reg' = [t \in Tools |-> reg'[t]]
      BY <2>3
    <2> QED BY <2>2, <2>4, <2>5, <2>6 DEF Ours
  <1>2. CASE UNCHANGED <<reg, registered>>
    BY <1>2 DEF Ours
  <1> QED BY <1>1, <1>2 DEF Next, Calling, Syncing, Changes, GoesDown, ComesUp,
             LosesConnection, Close, Begins, Cancels, Connects, CannotConnect, Answered,
             Lost, Drops, Fails, CircuitCloses, SyncBegins, SyncConnects, SyncLists,
             SyncFails, Notified

LEMMA OneConnectionStep == ASSUME Rest, Callers, OneConnection, Next PROVE OneConnection'
  <1> USE DEF server, client, breaker, registry, calls
  <1>1. ASSUME NEW s \in 1 .. connects + 1, NEW again \in BOOLEAN, connected(s, again)
        PROVE  OneConnection'
    <2>1. CASE session # 0
      <3>1. session' = session /\ opened' = opened
        BY <1>1, <2>1 DEF connected
      <3> QED BY <3>1 DEF OneConnection
    <2>2. CASE session = 0
      <3>1. session' = s /\ opened' = opened \cup {s} /\ s # 0
        BY <1>1, <2>2 DEF connected
      <3> QED BY <2>2, <3>1 DEF OneConnection
    <2> QED BY <2>1, <2>2
  <1>2. ASSUME NEW c \in Calls, Drops(c) PROVE OneConnection'
    <2>1. CASE session = conn[c]
      <3>1. session' = 0 /\ opened' = opened \ {session}
        BY <1>2, <2>1 DEF Drops, drop
      <3> QED BY <3>1 DEF OneConnection
    <2>2. CASE session # conn[c]
      BY <1>2, <2>2 DEF Drops, drop, OneConnection
    <2> QED BY <2>1, <2>2
  <1>3. CASE Close
    <2>1. session' = 0 /\ opened' = opened \ {session}
      BY <1>3 DEF Close
    <2> QED BY <2>1 DEF OneConnection
  <1>4. CASE UNCHANGED <<session, opened>>
    BY <1>4 DEF OneConnection
  <1> QED BY <1>1, <1>2, <1>3, <1>4 DEF Next, Calling, Syncing, Changes, GoesDown, ComesUp,
             LosesConnection, Begins, Cancels, Connects, CannotConnect, Answered,
             Lost, Fails, CircuitCloses, SyncBegins, SyncConnects, SyncLists,
             SyncFails, SyncApplies, Notified

LEMMA OncePerRoundStep == ASSUME Callers, OncePerRound, Next PROVE OncePerRound'
  <1> USE DEF server, client, breaker, registry, calls
  <1>0. MaxRetries \in Nat
    BY McpAssumption DEF McpAssumption
  <1> DEFINE Fine(c) == /\ round'[c] <= Rounds(c) /\ sent'[c] <= round'[c]
                        /\ pc'[c] = "connecting" => sent'[c] < round'[c]
                        /\ pc'[c] = "idle" => sent'[c] = 0
  <1>1. ASSUME NEW c \in Calls, round'[c] = round[c], sent'[c] = sent[c],
               pc'[c] \in {"connecting", "idle"} => pc'[c] = pc[c]
        PROVE  Fine(c)
    BY <1>1 DEF OncePerRound
  <1>2. ASSUME NEW c \in Calls, Again(c), sent' = sent, NEW d \in Calls PROVE Fine(d)
    <2>1. CASE d = c /\ round[c] < Rounds(c) /\ ~canceled[c]
      <3>1. round'[d] = round[d] + 1 /\ sent'[d] = sent[d] /\ pc'[d] = "connecting"
        BY <1>2, <2>1 DEF Again, Callers
      <3>2. round[d] \in Nat /\ sent[d] \in Nat /\ Rounds(d) \in Nat /\ round[d] < Rounds(d)
        BY <1>0, <2>1, RoundsType DEF Callers
      <3>3. sent[d] <= round[d]
        BY DEF OncePerRound
      <3> QED BY <3>1, <3>2, <3>3
    <2>2. CASE ~(round[c] < Rounds(c) /\ ~canceled[c])
      <3>1. /\ round'[d] = round[d] /\ sent'[d] = sent[d]
            /\ pc'[d] \in {"connecting", "idle"} => pc'[d] = pc[d]
        BY <1>2, <2>2 DEF Again, Callers
      <3> QED BY <1>1, <3>1
    <2>3. CASE d # c /\ round[c] < Rounds(c) /\ ~canceled[c]
      <3>1. round'[d] = round[d] /\ sent'[d] = sent[d] /\ pc'[d] = pc[d]
        BY <1>2, <2>3 DEF Again, Callers
      <3> QED BY <1>1, <3>1
    <2> QED BY <2>1, <2>2, <2>3
  <1>3. ASSUME NEW c \in Calls, Returns(c), NEW d \in Calls PROVE Fine(d)
    <2>1. CASE d = c
      <3>1. round'[d] = 0 /\ sent'[d] = 0 /\ pc'[d] = "idle"
        BY <1>3, <2>1 DEF Returns, Callers
      <3> QED BY <1>0, <3>1, RoundsType
    <2>2. CASE d # c
      <3>1. round'[d] = round[d] /\ sent'[d] = sent[d] /\ pc'[d] = pc[d]
        BY <1>3, <2>2 DEF Returns, Callers
      <3> QED BY <1>1, <3>1
    <2> QED BY <2>1, <2>2
  <1>4. ASSUME NEW c \in Calls, Begins(c), NEW d \in Calls PROVE Fine(d)
    <2>1. CASE d = c
      <3>1. round'[d] = 1 /\ sent'[d] = sent[d] /\ sent[d] = 0 /\ pc'[d] = "connecting"
        BY <1>4, <2>1 DEF Begins, Callers, OncePerRound
      <3> QED BY <1>0, <3>1, RoundsType
    <2>2. CASE d # c
      <3>1. round'[d] = round[d] /\ sent'[d] = sent[d] /\ pc'[d] = pc[d]
        BY <1>4, <2>2 DEF Begins, Callers
      <3> QED BY <1>1, <3>1
    <2> QED BY <2>1, <2>2
  <1>5. ASSUME NEW c \in Calls, Connects(c), NEW d \in Calls PROVE Fine(d)
    <2>1. CASE d = c
      <3>1. /\ round'[d] = round[d] /\ sent'[d] = sent[d] + 1 /\ pc'[d] = "calling"
            /\ pc[d] = "connecting"
        BY <1>5, <2>1 DEF Connects, Callers
      <3>2. round[d] \in Nat /\ sent[d] \in Nat /\ sent[d] < round[d] /\ round[d] <= Rounds(d)
        BY <3>1, <1>0 DEF Callers, OncePerRound
      <3> QED BY <3>1, <3>2
    <2>2. CASE d # c
      <3>1. round'[d] = round[d] /\ sent'[d] = sent[d] /\ pc'[d] = pc[d]
        BY <1>5, <2>2 DEF Connects, Callers
      <3> QED BY <1>1, <3>1
    <2> QED BY <2>1, <2>2
  <1>6. ASSUME NEW c \in Calls, Lost(c) \/ Cancels(c), NEW d \in Calls PROVE Fine(d)
    <2>1. /\ round'[d] = round[d] /\ sent'[d] = sent[d]
          /\ pc'[d] \in {"connecting", "idle"} => pc'[d] = pc[d]
      BY <1>6 DEF Lost, Cancels, Callers
    <2> QED BY <1>1, <2>1
  <1>7. ASSUME UNCHANGED calls, NEW d \in Calls PROVE Fine(d)
    BY <1>1, <1>7
  <1> HIDE DEF Fine
  <1>8. ASSUME NEW d \in Calls PROVE Fine(d)
    <2>1. \/ UNCHANGED calls
          \/ \E c \in Calls : \/ Again(c) /\ sent' = sent
                              \/ Returns(c) \/ Begins(c) \/ Connects(c) \/ Lost(c) \/ Cancels(c)
      BY DEF Next, Calling, Syncing, Changes, GoesDown, ComesUp,
             LosesConnection, Close, CannotConnect, Answered,
             Drops, Fails, CircuitCloses, SyncBegins, SyncConnects, SyncLists,
             SyncFails, SyncApplies, Notified
    <2> QED BY <2>1, <1>2, <1>3, <1>4, <1>5, <1>6, <1>7
  <1> QED BY <1>8 DEF OncePerRound, Fine

-----------------------------------------------------------------------------
(* A call that makes a connection asks for a sync.                         *)
LEMMA ConnectsStep ==
    ASSUME Types, Followed, NEW c \in Calls, Connects(c)
    PROVE  /\ closed' = closed /\ ~closed
           /\ UNCHANGED <<offered, noted, registry>>
           /\ \/ UNCHANGED <<session, alive, pending>>
              \/ pending' = TRUE
  <1>1. PICK s \in 1 .. connects + 1, again \in BOOLEAN :
           /\ connected(s, again)
           /\ IF again THEN resync ELSE UNCHANGED pending
    BY DEF Connects
  <1>2. closed' = closed /\ ~closed /\ UNCHANGED <<offered, noted, registry>>
    BY <1>1 DEF Connects, connected
  <1>3. CASE session # 0
    <2>1. ~again /\ UNCHANGED <<session, alive>>
      BY <1>1, <1>3 DEF connected
    <2> QED BY <1>1, <1>2, <2>1
  <1>4. CASE session = 0
    <2>1. again
      BY <1>1, <1>4 DEF connected, Types
    <2> QED BY <1>1, <1>2, <2>1 DEF resync
  <1> QED BY <1>3, <1>4

(* What the client will notice stays so until a sync begins.               *)
LEMMA NoticedStays ==
    ASSUME Types, Followed, Next, Noticed, ~SyncBegins, ~SyncConnects
    PROVE  Noticed'
  <1> USE DEF server, client, breaker, registry, calls
  <1>1. CASE Changes
    BY <1>1 DEF Changes, Noticed
  <1>2. CASE GoesDown
    BY <1>2 DEF GoesDown, Noticed
  <1>3. CASE LosesConnection
    BY <1>3 DEF LosesConnection, Noticed
  <1>4. CASE Close
    BY <1>4 DEF Close, Noticed
  <1>5. ASSUME NEW c \in Calls, Connects(c) PROVE Noticed'
    <2>1. noted' = noted /\ closed' = closed
      BY <1>5, ConnectsStep
    <2>2. CASE UNCHANGED <<session, alive, pending>>
      BY <2>1, <2>2 DEF Noticed
    <2>3. CASE pending' = TRUE
      BY <2>3 DEF Noticed
    <2> QED BY <1>5, <2>2, <2>3, ConnectsStep
  <1>6. ASSUME NEW c \in Calls, Drops(c) PROVE Noticed'
    <2>1. 0 \notin alive
      BY DEF Types, TypeOK
    <2>2. CASE session = conn[c]
      <3>1. session' = 0 /\ alive' = alive \ {session}
        BY <1>6, <2>2 DEF Drops, drop
      <3> QED BY <2>1, <3>1 DEF Noticed
    <2>3. CASE session # conn[c]
      BY <1>6, <2>3 DEF Drops, drop, Noticed
    <2> QED BY <2>2, <2>3
  <1>7. ASSUME NEW s \in noted, Notified(s) PROVE Noticed'
    BY <1>7 DEF Notified, resync, Noticed
  <1>8. CASE UNCHANGED <<closed, session, alive, noted, pending>>
    BY <1>8 DEF Noticed
  <1> QED BY <1>1, <1>2, <1>3, <1>4, <1>5, <1>6, <1>7, <1>8
          DEF Next, Calling, Syncing, ComesUp, Begins, Cancels, CannotConnect, Answered,
              Lost, Fails, CircuitCloses, SyncLists, SyncFails, SyncApplies

(* A sync that applies the server's list makes the registry agree with it. *)
LEMMA AppliedIsFresh ==
    ASSUME Types, Ours, SyncApplies, sync.listed = offered
    PROVE  {t \in Tools : reg'[t] = "ours"} = offered' \ (Taken \cup Broken)
  <1>1. /\ offered' = offered /\ offered \subseteq Tools
        /\ reg' = [t \in Tools |->
              IF t \in {u \in offered \ Broken : reg[u] = "none" \/ u \in registered}
              THEN "ours" ELSE IF t \in registered THEN "none" ELSE reg[t]]
    BY DEF SyncApplies, Register, server, Types, TypeOK
  <1>2. ASSUME NEW t \in Tools
        PROVE  reg'[t] = "ours" <=> t \in offered \ (Taken \cup Broken)
    <2>1. reg[t] = IF t \in Taken THEN "other"
                   ELSE IF t \in registered THEN "ours" ELSE "none"
      BY DEF Ours
    <2>2. t \in Taken => t \notin registered
      BY DEF Ours
    <2> QED BY <1>1, <2>1, <2>2
  <1> QED BY <1>1, <1>2

LEMMA FollowedStep ==
    ASSUME Types, Ours, Followed, StaleIsNoticed, Next
    PROVE  Followed' /\ (Ours' => StaleIsNoticed')
  <1> USE DEF server, client, breaker, registry, calls
  <1> DEFINE Fresh == {t \in Tools : reg[t] = "ours"} = offered \ (Taken \cup Broken)
             Awaited == \/ sync.step \in {"connecting", "listing"}
                        \/ sync.step = "applying" /\ sync.listed = offered
  <1>0. Fresh \/ syncFailed \/ Noticed \/ Awaited
    BY DEF StaleIsNoticed, Noticed
  <1>1. ASSUME Fresh' \/ syncFailed' \/ Noticed' \/ Awaited', Ours'
        PROVE  StaleIsNoticed'
    <2>1. \A t \in Taken : reg'[t] = "other"
      BY <1>1, McpAssumption DEF McpAssumption, Ours
    <2> QED BY <1>1, <2>1 DEF StaleIsNoticed, Noticed
  <1>2. Fresh' \/ syncFailed' \/ Noticed' \/ Awaited'
    <2>0. 0 \notin alive
      BY DEF Types, TypeOK
    <2>1. CASE SyncBegins
      BY <2>1, SyncRecords DEF SyncBegins, Types
    <2>2. CASE SyncConnects
      <3>1. ASSUME NEW s \in 1 .. connects + 1, NEW again \in BOOLEAN,
                   sync' = [sync EXCEPT !.step = "listing", !.conn = s]
            PROVE  Awaited'
        <4>1. s \in Nat /\ sync \in Syncs /\ offered \in SUBSET Tools
          BY DEF Types, TypeOK
        <4> QED BY <3>1, <4>1, SyncRecords
      <3>2. ASSUME Unreachable, UNCHANGED <<session, connects, opened, alive>>, closed' = closed
            PROVE  Noticed'
        BY <2>0, <3>2 DEF Unreachable, Noticed
      <3> QED BY <2>2, <3>1, <3>2 DEF SyncConnects
    <2>3. CASE SyncLists
      <3>1. offered \in SUBSET Tools /\ sync \in Syncs
        BY DEF Types, TypeOK
      <3> QED BY <2>3, <3>1, SyncRecords DEF SyncLists
    <2>4. CASE SyncFails
      <3>1. CASE sync.conn \in alive
        BY <2>4, <3>1 DEF SyncFails
      <3>2. CASE sync.conn \notin alive
        BY <2>4, <3>2, <2>0 DEF SyncFails, Followed, Noticed
      <3> QED BY <3>1, <3>2
    <2>5. CASE SyncApplies
      <3>1. CASE sync.listed = offered
        BY <2>5, <3>1, AppliedIsFresh
      <3>2. CASE sync.listed # offered
        BY <2>5, <3>2 DEF SyncApplies, Followed, Noticed
      <3> QED BY <3>1, <3>2
    <2>6. CASE Changes
      BY <2>6 DEF Changes, Noticed
    <2>7. ASSUME UNCHANGED <<offered, registry>>, ~SyncBegins, ~SyncConnects
          PROVE  Fresh' \/ syncFailed' \/ Noticed' \/ Awaited'
      BY <1>0, <2>7, NoticedStays
    <2> HIDE DEF Fresh, Awaited
    <2>8. \/ Changes \/ Syncing \/ UNCHANGED <<offered, registry>>
      BY DEF Next, Calling, GoesDown, ComesUp, LosesConnection, Close, Begins, Cancels,
             Connects, CannotConnect, Answered, Lost, Drops, Fails, CircuitCloses, Notified
    <2> QED BY <2>1, <2>2, <2>3, <2>4, <2>5, <2>6, <2>7, <2>8 DEF Syncing
  <1>3. (closed => session = 0)'
    <2>1. CASE SyncConnects
      BY <2>1 DEF SyncConnects, connected, Followed
    <2>2. ASSUME NEW c \in Calls, Connects(c) PROVE (closed => session = 0)'
      BY <2>2, ConnectsStep
    <2>3. ASSUME NEW c \in Calls, Drops(c) PROVE (closed => session = 0)'
      BY <2>3 DEF Drops, drop, Followed
    <2>4. CASE Close
      BY <2>4 DEF Close
    <2>5. CASE UNCHANGED <<closed, session>>
      BY <2>5 DEF Followed
    <2> QED BY <2>1, <2>2, <2>3, <2>4, <2>5
          DEF Next, Calling, Syncing, Changes, GoesDown, ComesUp, LosesConnection, Begins,
              Cancels, CannotConnect, Answered, Lost, Fails, CircuitCloses, SyncBegins,
              SyncLists, SyncFails, SyncApplies, Notified
  <1>4. (sync.step = "listing" /\ sync.conn # session => session = 0 \/ pending)'
    <2>0. sync \in Syncs /\ offered \in SUBSET Tools
      BY DEF Types, TypeOK
    <2>1. CASE SyncConnects
      <3>1. ASSUME NEW s \in 1 .. connects + 1, NEW again \in BOOLEAN, connected(s, again),
                   sync' = [sync EXCEPT !.step = "listing", !.conn = s]
            PROVE  (sync').conn = session'
        <4>1. s \in Nat /\ session' = s
          BY <3>1 DEF connected, Types, TypeOK
        <4>2. sync' = [step |-> "listing", conn |-> s, listed |-> sync.listed]
          BY <2>0, <3>1, <4>1, SyncRecords
        <4> QED BY <4>1, <4>2
      <3>2. ASSUME sync' = Idle PROVE (sync').step # "listing"
        BY <3>2 DEF Idle
      <3> QED BY <2>1, <3>1, <3>2 DEF SyncConnects
    <2>2. ASSUME NEW c \in Calls, Connects(c), sync' = sync
          PROVE  (sync.step = "listing" /\ sync.conn # session => session = 0 \/ pending)'
      BY <2>2, ConnectsStep DEF Followed
    <2>3. ASSUME NEW c \in Calls, Drops(c), sync' = sync
          PROVE  (sync.step = "listing" /\ sync.conn # session => session = 0 \/ pending)'
      BY <2>3 DEF Drops, drop, Followed
    <2>4. CASE Close
      BY <2>4 DEF Close
    <2>5. ASSUME NEW s \in noted, Notified(s)
          PROVE  (sync.step = "listing" /\ sync.conn # session => session = 0 \/ pending)'
      BY <2>5 DEF Notified, resync, Followed
    <2>6. CASE SyncBegins \/ SyncLists \/ SyncFails \/ SyncApplies
      <3>1. CASE SyncBegins
        BY <3>1, <2>0, SyncRecords DEF SyncBegins
      <3>2. CASE SyncLists
        BY <3>2, <2>0, SyncRecords DEF SyncLists
      <3>3. CASE SyncFails \/ SyncApplies
        BY <3>3 DEF SyncFails, SyncApplies, Idle
      <3> QED BY <2>6, <3>1, <3>2, <3>3
    <2>7. CASE UNCHANGED <<session, pending, sync>>
      BY <2>7 DEF Followed
    <2> QED BY <2>1, <2>2, <2>3, <2>4, <2>5, <2>6, <2>7
          DEF Next, Calling, Syncing, Changes, GoesDown, ComesUp, LosesConnection, Begins,
              Cancels, Connects, Drops, CannotConnect, Answered, Lost, Fails, CircuitCloses
  <1>5. (sync.step = "applying" /\ sync.listed # offered => Noticed)'
    <2>0. sync \in Syncs /\ offered \in SUBSET Tools
      BY DEF Types, TypeOK
    <2>1. CASE SyncBegins
      BY <2>1, <2>0, SyncRecords DEF SyncBegins
    <2>2. CASE SyncConnects
      <3>1. ASSUME NEW s \in 1 .. connects + 1,
                   sync' = [sync EXCEPT !.step = "listing", !.conn = s]
            PROVE  (sync').step # "applying"
        <4>1. s \in Nat
          BY DEF Types, TypeOK
        <4> QED BY <2>0, <3>1, <4>1, SyncRecords
      <3>2. ASSUME sync' = Idle PROVE (sync').step # "applying"
        BY <3>2 DEF Idle
      <3> QED BY <2>2, <3>1, <3>2 DEF SyncConnects
    <2>3. CASE SyncLists
      BY <2>3, <2>0, SyncRecords DEF SyncLists
    <2>4. CASE SyncFails \/ SyncApplies
      BY <2>4 DEF SyncFails, SyncApplies, Idle
    <2>5. CASE Changes
      BY <2>5 DEF Changes, Noticed
    <2>6. ASSUME UNCHANGED <<offered, sync>>, ~SyncBegins, ~SyncConnects
          PROVE  (sync.step = "applying" /\ sync.listed # offered => Noticed)'
      BY <2>6, NoticedStays DEF Followed
    <2> QED BY <2>1, <2>2, <2>3, <2>4, <2>5, <2>6
          DEF Next, Calling, Syncing, GoesDown, ComesUp, LosesConnection, Close, Begins, Cancels,
             Connects, CannotConnect, Answered, Lost, Drops, Fails, CircuitCloses, Notified
  <1> HIDE DEF Fresh, Awaited
  <1> QED BY <1>1, <1>2, <1>3, <1>4, <1>5 DEF Followed

-----------------------------------------------------------------------------
LEMMA McpStep == ASSUME McpInv, [Next]_vars PROVE McpInv'
  <1>1. CASE Next
    <2>1. Types /\ OneConnection /\ Ours /\ Followed /\ OncePerRound /\ StaleIsNoticed
      BY DEF McpInv
    <2>2. /\ Rest /\ Callers /\ sync \in Syncs /\ sync.conn <= connects
          /\ reg \in [Tools -> {"none", "ours", "other"}]
      BY <2>1, TypesParts
    <2>3. Ours'
      BY <1>1, <2>1, <2>2, OursStep
    <2>4. Rest' /\ Callers'
      BY <1>1, <2>1, <2>2, RestStep, CallersStep
    <2>5. sync' \in Syncs /\ (sync').conn <= connects'
      BY <1>1, <2>2, SyncStep
    <2>6. Types'
      <3>1. reg' \in [Tools -> {"none", "ours", "other"}]
        BY <2>3 DEF Ours
      <3>2. /\ (sync').step \in {"no", "connecting", "listing", "applying"}
            /\ (sync').listed \subseteq Tools
        BY <2>5 DEF Syncs
      <3>3. (sync').conn \in 0 .. connects'
        <4>1. connects' \in Nat /\ (sync').conn \in Nat
          BY <2>4, <2>5 DEF Rest, Syncs
        <4> QED BY <4>1, <2>5
      <3> QED BY <2>4, <2>5, <3>1, <3>2, <3>3 DEF Types, TypeOK, Rest, Callers
    <2>7. Followed' /\ StaleIsNoticed'
      BY <1>1, <2>1, <2>3, FollowedStep
    <2>8. OneConnection' /\ OncePerRound'
      BY <1>1, <2>1, <2>2, OneConnectionStep, OncePerRoundStep
    <2> QED BY <2>3, <2>6, <2>7, <2>8 DEF McpInv
  <1>2. CASE UNCHANGED vars
    <2> USE DEF vars, server, client, breaker, registry, calls
    <2>1. Types'
      BY <1>2 DEF McpInv, Types, TypeOK
    <2>2. OneConnection' /\ Ours' /\ OncePerRound'
      BY <1>2 DEF McpInv, OneConnection, Ours, OncePerRound
    <2>3. Followed' /\ StaleIsNoticed'
      BY <1>2 DEF McpInv, Followed, Noticed, StaleIsNoticed
    <2> QED BY <2>1, <2>2, <2>3 DEF McpInv
  <1> QED BY <1>1, <1>2

(* The inductive invariant of the client, its callers and the registry.    *)
THEOREM McpInvariant == Spec => []McpInv
  BY InitMcp, McpStep, PTL DEF Spec

(* Variables keep their types, and the counts their bounds: failures never *)
(* passes BreakAfter, and no call takes more rounds than the retries allow.*)
THEOREM McpTypes == Spec => []TypeOK
  <1>1. McpInv => TypeOK
    BY DEF McpInv, Types
  <1> QED BY <1>1, McpInvariant, PTL

(* However many callers lose, drop and remake the connection side by side, *)
(* the client has none open but its current one.                           *)
THEOREM SharedConnection == Spec => []OneConnection
  <1>1. McpInv => OneConnection
    BY DEF McpInv
  <1> QED BY <1>1, McpInvariant, PTL

(* A tool the server does not call repeatable is sent at most once by a    *)
(* call, whatever happens to its connections.                              *)
THEOREM RetriesAreSafe == Spec => []RetriedIfSafe
  <1>1. McpInv => RetriedIfSafe
    <2> SUFFICES ASSUME McpInv, NEW c \in Calls, sent[c] > 1
                 PROVE  Hints[ToolOf[c]].readOnly \/ Hints[ToolOf[c]].idempotent
      BY DEF RetriedIfSafe
    <2>1. /\ round[c] <= Rounds(c) /\ sent[c] <= round[c]
          /\ round[c] \in 0 .. MaxRetries + 1 /\ sent[c] \in 0 .. MaxRetries + 1
      BY DEF McpInv, OncePerRound, Types, TypeOK
    <2>2. MaxRetries \in Nat /\ Rounds(c) \in 1 .. MaxRetries + 1
      BY RoundsType, McpAssumption DEF McpAssumption
    <2>3. Rounds(c) > 1
      BY <2>1, <2>2
    <2> QED BY <2>3, RoundsType
  <1> QED BY <1>1, McpInvariant, PTL

(* The registry is out of date only while something will bring it up to    *)
(* date, and never takes over a tool of another part of the program.       *)
THEOREM RegistryFollows == Spec => []StaleIsNoticed
  <1>1. McpInv => StaleIsNoticed
    BY DEF McpInv
  <1> QED BY <1>1, McpInvariant, PTL

=============================================================================
