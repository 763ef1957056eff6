------------------------ MODULE ConversationsProofs -------------------------
(***************************************************************************)
(* Proofs about Conversations, for any sessions, requests, keys, messages, *)
(* compaction limits, replies and crashes, on either store.                *)
(***************************************************************************)
EXTENDS Conversations, FiniteSetTheorems, TLAPS

Snaps == [through : Nat, covers : SUBSET Nat, count : Nat]

Purges == [step : {"no", "picked", "locked", "checked"}, of : SUBSET Sessions]

(* Requests whose run does not exist yet.                                  *)
Before == {"new", "checked", "prepared", "posting", "creating"}

(* Runs that are to be executed, or are.                                   *)
Due == {"created", "queued", "stopped", "reopened"} \cup Executing

(* A request is answered once, by its own run when it created one.         *)
Answered ==
    \A q \in Runs :
        /\ pc[q] \in Before => row[q] = "none" /\ answer[q] = "none"
        /\ pc[q] = "created" => answer[q] = q

(* No two messages of a session have the same stamp, and none has one that *)
(* a writer holds.                                                         *)
StampsDiffer ==
    /\ \A q \in Runs : stamp[q] < clock
    /\ \A p, q \in Runs : stamp[p] = stamp[q] /\ stamp[p] # 0 => p = q
    /\ \A q \in Runs, m \in msgs : m.at # stamp[q]
    /\ \A m \in msgs : m.at > 0
    /\ \A m, n \in msgs : m.session = n.session /\ m.at = n.at => m = n

(* x summarizes session s, whose messages are in M, for run r.  It counts  *)
(* what it covers, ends at a message that is still there, and leaves out   *)
(* only what came late, what r itself wrote, or what another summary left  *)
(* out for that reason.                                                    *)
Excused(M, s, m) ==
    \E n \in M : n.snapshot /\ n.session = s /\ n.run = m.run /\ n.through > m.at

Told(M, s, r, x) ==
    /\ x.through > 0 => \E t \in M : t.session = s /\ t.at = x.through
    /\ \A m \in M :
          m.session = s /\ ~m.snapshot /\ m.at <= x.through /\ m.at \notin x.covers =>
              m.late \/ (m.run = r /\ m.at < x.through) \/ Excused(M, s, m)

Counted(x) == x.covers \subseteq 1 .. x.through /\ x.count = Cardinality(x.covers)

Summaries ==
    /\ \A m \in msgs : m.snapshot =>
          Counted(m) /\ (m.session \in live => Told(msgs, m.session, m.run, m))
    /\ \A q \in Runs :
          /\ Counted(next[q])
          /\ SessionOf[q] \in live => Told(msgs, SessionOf[q], q, next[q])

(* In PostgreSQL every row belongs to a session that exists.               *)
StoredIsLive ==
    backend = "pg" =>
        /\ recent \subseteq live /\ \A m \in msgs : m.session \in live
        /\ \A r \in Runs : row[r] # "none" => SessionOf[r] \in live

(* Unless a failed run is resumed, a run that is due is unfinished, and a  *)
(* purge that has checked its sessions finds them still idle.              *)
DueIsUnfinished == \A q \in Runs : pc[q] \in Due => row[q] \in Unfinished

CheckedIsIdle ==
    /\ backend = "mem" => purge.step = "no"
    /\ purge.step = "checked" => \A s \in purge.of : Idle(s)

ConvInv ==
    TypeOK /\ replies \in [Runs -> Nat] /\ Answered /\ StampsDiffer /\ Summaries /\ StoredIsLive

PurgeInv == DueIsUnfinished /\ CheckedIsIdle

-----------------------------------------------------------------------------
(* A set of numbers with a bound has a greatest one.                       *)
LEMMA HasGreatest ==
    ASSUME NEW S \in SUBSET Nat, S # {}, NEW b \in Nat, \A x \in S : x <= b
    PROVE  \E x \in S : \A y \in S : y <= x
  <1> DEFINE T == {n \in Nat : \E x \in S : n = b - x}
             R == {ss \in Nat \X Nat : ss[1] < ss[2]}
  <1>1. T \subseteq Nat /\ T # {}
    <2>1. PICK x \in S : TRUE
      OBVIOUS
    <2>2. x \in Nat /\ x <= b
      OBVIOUS
    <2>3. b - x \in Nat
      BY <2>2
    <2> QED BY <2>3
  <1>2. PICK n \in T : \A k \in T : ~(<<k, n>> \in R)
    <2>1. R = OpToRel(<, Nat)
      BY Zenon DEF OpToRel
    <2>2. IsWellFoundedOn(R, Nat)
      BY <2>1, NatLessThanWellFounded, Zenon
    <2> HIDE DEF T, R
    <2> QED BY <1>1, <2>2, WFMin, Zenon
  <1>3. \A k \in T : ~(k < n)
    BY <1>2
  <1>4. PICK x \in S : n = b - x
    OBVIOUS
  <1>5. ASSUME NEW y \in S PROVE y <= x
    <2>1. y \in Nat /\ y <= b /\ x \in Nat /\ x <= b
      OBVIOUS
    <2>2. b - y \in T
      BY <2>1
    <2>3. ~(b - y < b - x)
      BY <1>3, <1>4, <2>2
    <2> QED BY <2>1, <2>3
  <1> QED BY <1>5

-----------------------------------------------------------------------------
(* Messages.                                                               *)

LEMMA TextFields ==
    ASSUME TypeOK, StampsDiffer, NEW q \in Runs, NEW run \in Runs \cup {NoRun}, Stamped(q)
    PROVE  /\ Text(q, run) \in Message
           /\ Text(q, run).session = SessionOf[q] /\ Text(q, run).run = run
           /\ Text(q, run).at = StampOf(q) /\ ~Text(q, run).snapshot
           /\ StampOf(q) \in Nat /\ StampOf(q) > 0 /\ StampOf(q) <= clock
           /\ backend # "mem" => StampOf(q) < clock
           /\ \A m \in msgs : m.at # StampOf(q)
  <1>1. stamp[q] \in Nat /\ clock \in Nat /\ clock > 0 /\ SessionOf[q] \in Sessions
        /\ stamp[q] < clock
    BY StoreAssumption DEF StoreAssumption, TypeOK, StoreTypeOK, StampsDiffer
  <1>2. StampOf(q) \in Nat /\ StampOf(q) > 0 /\ StampOf(q) <= clock
        /\ (backend # "mem" => StampOf(q) < clock)
    BY <1>1 DEF StampOf, Stamped
  <1>3. \A m \in msgs : m.at # StampOf(q)
    <2>1. ASSUME NEW m \in msgs PROVE m.at # StampOf(q)
      <3>1. m.at \in Nat /\ m.at < clock /\ m.at # stamp[q]
        BY DEF TypeOK, StoreTypeOK, Message, StampsDiffer
      <3> QED BY <1>1, <3>1 DEF StampOf
    <2> QED BY <2>1
  <1>4. Text(q, run) \in Message
    BY <1>1, <1>2 DEF Text, Message
  <1> QED BY <1>2, <1>3, <1>4 DEF Text

LEMMA SnapshotFields ==
    ASSUME TypeOK, StampsDiffer, NEW q \in Runs, Stamped(q)
    PROVE  /\ Snapshot(q) \in Message
           /\ Snapshot(q).session = SessionOf[q] /\ Snapshot(q).run = q
           /\ Snapshot(q).at = StampOf(q) /\ Snapshot(q).snapshot
           /\ Snapshot(q).through = next[q].through
           /\ Snapshot(q).covers = next[q].covers /\ Snapshot(q).count = next[q].count
  <1>1. /\ StampOf(q) \in Nat /\ SessionOf[q] \in Sessions
        /\ next[q].through \in Nat /\ next[q].covers \in SUBSET Nat /\ next[q].count \in Nat
    BY TextFields, StoreAssumption DEF StoreAssumption, TypeOK
  <1> QED BY <1>1 DEF Snapshot, Message

(* The row AddMessage stores.                                              *)
LEMMA StoredFields ==
    ASSUME NEW m \in Message, NEW b \in BOOLEAN
    PROVE  /\ [m EXCEPT !.late = b] \in Message
           /\ [m EXCEPT !.late = b].session = m.session
           /\ [m EXCEPT !.late = b].run = m.run
           /\ [m EXCEPT !.late = b].at = m.at
           /\ [m EXCEPT !.late = b].snapshot = m.snapshot
           /\ [m EXCEPT !.late = b].through = m.through
           /\ [m EXCEPT !.late = b].covers = m.covers
           /\ [m EXCEPT !.late = b].count = m.count
           /\ [m EXCEPT !.late = b].late = b
  BY DEF Message

(* The insert keeps the stamps apart: the new message has one that nobody  *)
(* has used, and its writer gives it up.                                   *)
LEMMA WritesStep ==
    ASSUME TypeOK, StampsDiffer, NEW q \in Runs, NEW m \in Message, Writes(q, m),
           m.session = SessionOf[q], m.at = StampOf(q)
    PROVE  /\ \/ msgs' = msgs /\ ~Accepts(SessionOf[q])
              \/ \E b \in BOOLEAN :
                    /\ msgs' = msgs \cup {[m EXCEPT !.late = b]}
                    /\ (\E n \in msgs : n.session = SessionOf[q] /\ n.at > m.at) => b
                    /\ Accepts(SessionOf[q])
           /\ msgs' \subseteq Message /\ clock' \in Nat \ {0} /\ clock' >= clock
           /\ \A n \in msgs' : n.at < clock'
           /\ stamp' \in [Runs -> Nat]
           /\ StampsDiffer'
  <1>0. /\ StampOf(q) \in Nat /\ StampOf(q) > 0 /\ StampOf(q) <= clock
        /\ backend # "mem" => StampOf(q) < clock
        /\ \A n \in msgs : n.at # StampOf(q)
    BY TextFields DEF Writes
  <1>1. /\ msgs \subseteq Message /\ clock \in Nat \ {0} /\ stamp \in [Runs -> Nat]
        /\ \A n \in msgs : n.at < clock
    BY DEF TypeOK, StoreTypeOK
  <1>2. clock' \in Nat \ {0} /\ clock' >= clock /\ StampOf(q) < clock'
    <2>1. CASE backend = "mem"
      BY <1>0, <1>1, <2>1 DEF Writes
    <2>2. CASE backend # "mem"
      BY <1>0, <1>1, <2>2 DEF Writes
    <2> QED BY <2>1, <2>2
  <1>3. stamp' = [stamp EXCEPT ![q] = 0]
    BY DEF Writes
  <1>4. \/ msgs' = msgs /\ ~Accepts(SessionOf[q])
        \/ \E b \in BOOLEAN :
              /\ msgs' = msgs \cup {[m EXCEPT !.late = b]}
              /\ (\E n \in msgs : n.session = SessionOf[q] /\ n.at > m.at) => b
              /\ Accepts(SessionOf[q])
    BY DEF Writes, AddMessage
  <1>5. ASSUME NEW n \in msgs'
        PROVE  n \in Message /\ (n \in msgs \/ n.at = StampOf(q))
    <2>1. CASE n \in msgs
      BY <1>1, <2>1
    <2>2. CASE n \notin msgs
      <3>1. PICK b \in BOOLEAN : n = [m EXCEPT !.late = b]
        BY <1>4, <2>2
      <3> QED BY <3>1, StoredFields
    <2> QED BY <2>1, <2>2
  <1>6. ASSUME NEW n \in msgs', n \notin msgs, NEW o \in msgs', o \notin msgs
        PROVE  n = o
    BY <1>4, <1>6
  <1>7. ASSUME NEW n \in msgs' PROVE n.at \in Nat /\ n.at < clock'
    <2>1. n.at \in Nat
      BY <1>5 DEF Message
    <2>2. n \in msgs => n.at < clock
      BY <1>1
    <2> QED BY <1>0, <1>1, <1>2, <1>5, <2>1, <2>2
  <1>8. StampsDiffer'
    <2>1. ASSUME NEW p \in Runs PROVE stamp'[p] < clock' /\ stamp'[p] \in {0, stamp[p]}
      <3>1. stamp[p] \in Nat /\ stamp[p] < clock
        BY <1>1 DEF StampsDiffer
      <3> QED BY <1>1, <1>2, <1>3, <3>1
    <2>2. ASSUME NEW p \in Runs, NEW r \in Runs, stamp'[p] = stamp'[r], stamp'[p] # 0
          PROVE  p = r
      BY <1>1, <1>3, <2>2 DEF StampsDiffer
    <2>3. ASSUME NEW p \in Runs, NEW n \in msgs' PROVE n.at # stamp'[p]
      <3>1. CASE n \in msgs
        <4>1. n.at # 0
          BY <3>1, <1>7 DEF StampsDiffer
        <4> QED BY <3>1, <4>1, <2>1 DEF StampsDiffer
      <3>2. CASE n \notin msgs
        <4>1. n.at = StampOf(q)
          BY <1>5, <3>2
        <4>2. CASE backend = "mem"
          <5>1. stamp[p] \in Nat /\ stamp[p] < clock
            BY <1>1 DEF StampsDiffer
          <5> QED BY <1>0, <1>1, <4>1, <4>2, <5>1, <2>1 DEF StampOf
        <4>3. CASE backend # "mem"
          <5>1. n.at = stamp[q] /\ stamp[q] # 0
            BY <1>0, <4>1, <4>3 DEF StampOf
          <5> QED BY <1>1, <1>3, <5>1 DEF StampsDiffer
        <4> QED BY <4>2, <4>3
      <3> QED BY <3>1, <3>2
    <2>4. ASSUME NEW n \in msgs', NEW o \in msgs', n.session = o.session, n.at = o.at
          PROVE  n = o
      BY <1>0, <1>5, <1>6, <2>4 DEF StampsDiffer
    <2>5. ASSUME NEW n \in msgs' PROVE n.at > 0
      BY <1>0, <1>5 DEF StampsDiffer
    <2> QED BY <2>1, <2>2, <2>3, <2>4, <2>5 DEF StampsDiffer
  <1>9. stamp' \in [Runs -> Nat]
    BY <1>1, <1>3
  <1> QED BY <1>2, <1>4, <1>5, <1>7, <1>8, <1>9

-----------------------------------------------------------------------------
(* Summaries.                                                              *)

LEMMA NoSnapshotCounted == NoSnapshot \in Snaps /\ Counted(NoSnapshot)
  BY FS_EmptySet DEF NoSnapshot, Snaps, Counted

(* A reader gets some messages of the session, and with one all that come  *)
(* before it.                                                              *)
Listed(list, s) ==
    /\ list \subseteq msgs /\ \A m \in list : m.session = s
    /\ \A n \in list : \A m \in msgs : m.session = s /\ m.at <= n.at => m \in list

LEMMA ListsListed ==
    ASSUME TypeOK, NEW s \in Sessions
    PROVE  /\ Listed(ListMessages(s), s)
           /\ \A list \in Lists(s) : Listed(list, s)
  <1>1. \A m \in msgs : m.at \in Nat
    BY DEF TypeOK, StoreTypeOK, Message
  <1>2. Listed(ListMessages(s), s)
    BY DEF Listed, ListMessages
  <1>3. ASSUME NEW c \in Nat
        PROVE  Listed({m \in ListMessages(s) : m.at < c}, s)
    BY <1>1 DEF Listed, ListMessages
  <1>4. ASSUME NEW list \in Lists(s)
        PROVE  list = ListMessages(s)
               \/ \E c \in Nat : list = {m \in ListMessages(s) : m.at < c}
    <2>1. \A c \in 1 .. clock : c \in Nat
      BY DEF TypeOK, StoreTypeOK
    <2> QED BY <1>4, <2>1, Zenon DEF Lists
  <1> QED BY <1>2, <1>3, <1>4

(* The last snapshot a reader gets is one of those stored, and leaves out  *)
(* only what is excused.                                                   *)
LEMMA LastTold ==
    ASSUME TypeOK, StampsDiffer, Summaries, NEW s \in Sessions, NEW list, Listed(list, s)
    PROVE  /\ Last(list) \in Snaps /\ Counted(Last(list))
           /\ s \in live => \A m \in msgs :
                 m.session = s /\ ~m.snapshot /\ m.at <= Last(list).through
                    /\ m.at \notin Last(list).covers => m.late \/ Excused(msgs, s, m)
  <1> DEFINE snaps == {m \in list : m.snapshot}
             last == CHOOSE m \in snaps : \A n \in snaps : n.at <= m.at
             rec == [through |-> last.through, covers |-> last.covers, count |-> last.count]
  <1>0. Last(list) = IF snaps = {} THEN NoSnapshot ELSE rec
    BY Zenon DEF Last
  <1>a. list \subseteq msgs /\ \A m \in list : m.session = s
    BY DEF Listed
  <1>1. \A m \in msgs : m \in Message /\ m.at \in Nat /\ m.at < clock /\ m.at > 0
    BY DEF TypeOK, StoreTypeOK, Message, StampsDiffer
  <1>2. CASE snaps = {}
    <2>1. Last(list) = NoSnapshot
      BY <1>0, <1>2
    <2>2. Last(list).through = 0
      BY <2>1 DEF NoSnapshot
    <2> QED BY <1>1, <2>1, <2>2, NoSnapshotCounted
  <1>3. CASE snaps # {}
    <2>1. last \in snaps
      <3> DEFINE A == {a \in Nat : \E m \in snaps : m.at = a}
      <3>1. A \in SUBSET Nat /\ A # {} /\ clock \in Nat /\ \A a \in A : a <= clock
        <4>1. clock \in Nat
          BY DEF TypeOK, StoreTypeOK
        <4>2. A # {}
          BY <1>a, <1>1, <1>3
        <4>3. \A a \in A : a <= clock
          BY <1>a, <1>1, <4>1
        <4> QED BY <4>1, <4>2, <4>3
      <3>2. PICK a \in A : \A b \in A : b <= a
        <4> HIDE DEF A
        <4> QED BY <3>1, HasGreatest
      <3>3. PICK m \in snaps : m.at = a
        OBVIOUS
      <3>4. \A n \in snaps : n.at <= m.at
        BY <1>a, <1>1, <3>2, <3>3
      <3> QED BY <3>4
    <2> HIDE DEF last
    <2>2. last \in Message /\ last \in msgs /\ last.snapshot /\ last.session = s
      BY <1>a, <1>1, <2>1
    <2>3. /\ last.through \in Nat /\ last.covers \in SUBSET Nat /\ last.count \in Nat
          /\ last.at \in Nat
      BY <2>2 DEF Message
    <2>4. Last(list) = rec /\ rec \in Snaps
      BY <1>0, <1>3, <2>3 DEF Snaps
    <2>5. Counted(last) /\ (s \in live => Told(msgs, s, last.run, last))
      BY <2>2 DEF Summaries
    <2>6. Counted(rec)
      BY <2>5 DEF Counted
    <2>7. ASSUME s \in live, NEW m \in msgs, m.session = s, ~m.snapshot,
                 m.at <= last.through, m.at \notin last.covers
          PROVE  m.late \/ Excused(msgs, s, m)
      <3>1. m.late \/ (m.run = last.run /\ m.at < last.through) \/ Excused(msgs, s, m)
        BY <2>5, <2>7 DEF Told
      <3>2. m.run = last.run /\ m.at < last.through => Excused(msgs, s, m)
        BY <1>1, <2>2, <2>3 DEF Excused
      <3> QED BY <3>1, <3>2
    <2>8. rec.through = last.through /\ rec.covers = last.covers
      OBVIOUS
    <2> HIDE DEF rec
    <2> QED BY <2>4, <2>6, <2>7, <2>8
  <1> QED BY <1>2, <1>3

(* What a run folds into its summary: distinct stamps, all after those     *)
(* of the last one, and every other text up to the greatest of them.       *)
LEMMA OlderTold ==
    ASSUME TypeOK, StampsDiffer, NEW s \in Sessions, NEW q \in Runs, NEW last \in Snaps,
           NEW list, Listed(list, s), Older(q, Tail(list, q, last)) # {}
    PROVE  LET older == Older(q, Tail(list, q, last))
           IN  /\ older \subseteq msgs /\ IsFiniteSet(older)
               /\ StampsOf(older) \subseteq Nat /\ IsFiniteSet(StampsOf(older))
               /\ Cardinality(StampsOf(older)) = Cardinality(older)
               /\ Max(StampsOf(older)) \in StampsOf(older)
               /\ \A a \in StampsOf(older) : a > last.through /\ a <= Max(StampsOf(older))
               /\ \A m \in older : m.session = s /\ m.run # q /\ ~m.snapshot
               /\ \A m \in msgs :
                     m.session = s /\ ~m.snapshot /\ m.run # q /\ m.at > last.through
                        /\ m.at <= Max(StampsOf(older)) => m \in older
  <1> DEFINE tail == Tail(list, q, last)
             older == Older(q, tail)
             at == StampsOf(older)
             f == [m \in older |-> m.at]
  <1>0. /\ tail = {m \in list : ~m.snapshot /\ m.run # q /\ m.at > last.through}
        /\ \A m \in tail : m \in msgs /\ m.session = s
    BY DEF Tail, Listed
  <1>1. older = {m \in tail : Cardinality({n \in tail : n.at > m.at}) >= KeepRecent[q]}
    BY Zenon DEF Older
  <1>2. at = {m.at : m \in older}
    BY Zenon DEF StampsOf
  <1> HIDE DEF tail, older, at
  <1>3. \A m \in msgs : m.at \in Nat /\ m.at < clock
    BY DEF TypeOK, StoreTypeOK, Message
  <1>4. clock \in Nat /\ last.through \in Nat /\ KeepRecent[q] \in Nat
    BY ConversationAssumption DEF TypeOK, StoreTypeOK, Snaps, ConversationAssumption
  <1>5. older \subseteq tail /\ tail \subseteq msgs
    BY <1>0, <1>1
  <1>6. \A m, n \in tail : m.at = n.at => m = n
    BY <1>0 DEF StampsDiffer
  <1>7. at \subseteq Nat /\ at \subseteq 0 .. clock
    BY <1>2, <1>3, <1>4, <1>5
  <1>8. IsFiniteSet(at)
    <2>1. IsFiniteSet(0 .. clock)
      BY <1>4, FS_Interval
    <2>2. at \in SUBSET (0 .. clock)
      BY <1>7
    <2> QED BY <2>1, <2>2, FS_Subset
  <1>9. IsFiniteSet(older) /\ Cardinality(at) = Cardinality(older)
    <2>1. f \in [older -> at] /\ \A m \in older : f[m] = m.at
      BY <1>2
    <2>2. \A m, n \in older : f[m] = f[n] => m = n
      BY <2>1, <1>5, <1>6
    <2>3. \A a \in at : \E m \in older : f[m] = a
      BY <1>2, <2>1
    <2> HIDE DEF f
    <2>4. f \in Injection(older, at)
      BY <2>1, <2>2 DEF Injection, IsInjective
    <2>5. f \in Surjection(older, at)
      BY <2>1, <2>3 DEF Surjection
    <2>6. IsFiniteSet(older) /\ (Cardinality(older) = Cardinality(at) <=> f \in Surjection(older, at))
      BY <1>8, <2>4, FS_Injection
    <2> QED BY <2>5, <2>6
  <1>10. at # {}
    <2>1. older # {}
      BY DEF older, tail
    <2> QED BY <1>2, <2>1
  <1>11. Max(at) \in at /\ \A a \in at : a <= Max(at)
    <2>1. \A a \in at : a <= clock
      BY <1>4, <1>7
    <2>2. \E x \in at : \A y \in at : y <= x
      BY <1>4, <1>7, <1>10, <2>1, HasGreatest
    <2>3. \E x \in at : \A y \in at : x >= y
      BY <1>7, <2>2
    <2>4. Max(at) \in at /\ \A y \in at : Max(at) >= y
      BY <2>3, Zenon DEF Max
    <2> QED BY <1>7, <2>4
  <1>12. \A a \in at : a > last.through
    BY <1>0, <1>2, <1>5
  <1>13. ASSUME NEW m \in tail, m.at <= Max(at) PROVE m \in older
    <2>1. PICK t \in older : t.at = Max(at)
      BY <1>2, <1>11
    <2> DEFINE B(x) == {n \in tail : n.at > x.at}
    <2>2. Cardinality(B(t)) >= KeepRecent[q]
      BY <1>1, <2>1
    <2>3. t \in msgs /\ m \in msgs
      BY <1>5, <2>1
    <2>4. B(t) \subseteq B(m)
      BY <1>3, <1>5, <1>13, <2>1, <2>3
    <2>5. IsFiniteSet(B(m))
      <3> DEFINE g == [n \in tail |-> n.at]
      <3>1. g \in [tail -> 0 .. clock] /\ \A n \in tail : g[n] = n.at
        BY <1>3, <1>4, <1>5
      <3>2. g \in Injection(tail, 0 .. clock)
        <4> HIDE DEF g
        <4> QED BY <1>6, <3>1 DEF Injection, IsInjective
      <3>3. IsFiniteSet(0 .. clock)
        BY <1>4, FS_Interval
      <3>4. IsFiniteSet(tail)
        <4> HIDE DEF g
        <4> QED BY <3>2, <3>3, FS_Injection
      <3>5. B(m) \in SUBSET tail
        OBVIOUS
      <3> HIDE DEF B
      <3> QED BY <3>4, <3>5, FS_Subset
    <2> HIDE DEF B
    <2>6. /\ Cardinality(B(t)) <= Cardinality(B(m)) /\ Cardinality(B(m)) \in Nat
          /\ Cardinality(B(t)) \in Nat
      <3>1. B(t) \in SUBSET B(m)
        BY <2>4
      <3> QED BY <3>1, <2>5, FS_Subset, FS_CardinalityType
    <2>7. Cardinality(B(m)) >= KeepRecent[q]
      BY <1>4, <2>2, <2>6
    <2> QED BY <1>1, <2>7 DEF B
  <1>14. ASSUME NEW m \in msgs, m.session = s, ~m.snapshot, m.run # q, m.at > last.through,
                m.at <= Max(at)
         PROVE  m \in older
    <2>1. PICK t \in older : t.at = Max(at)
      BY <1>2, <1>11
    <2>2. t \in list /\ m \in list
      BY <1>0, <1>5, <1>14, <2>1 DEF Listed
    <2> QED BY <1>0, <1>13, <1>14, <2>2
  <1>15. \A m \in older : m.session = s /\ m.run # q /\ ~m.snapshot
    BY <1>0, <1>5
  <1>16. older \subseteq msgs
    BY <1>5
  <1>17. /\ older \subseteq msgs /\ IsFiniteSet(older)
         /\ at \subseteq Nat /\ IsFiniteSet(at)
         /\ Cardinality(at) = Cardinality(older)
         /\ Max(at) \in at
         /\ \A a \in at : a > last.through /\ a <= Max(at)
         /\ \A m \in older : m.session = s /\ m.run # q /\ ~m.snapshot
         /\ \A m \in msgs :
               m.session = s /\ ~m.snapshot /\ m.run # q /\ m.at > last.through
                  /\ m.at <= Max(at) => m \in older
    BY <1>7, <1>8, <1>9, <1>11, <1>12, <1>14, <1>15, <1>16
  <1> QED BY <1>17, Zenon DEF at, older, tail

(* The summary that a run starts to write.                                 *)
LEMMA ReadTold ==
    ASSUME TypeOK, StampsDiffer, Summaries, NEW q \in Runs,
           NEW list \in Lists(SessionOf[q]), Older(q, Tail(list, q, Last(list))) # {}
    PROVE  LET new == Summary(Last(list), Older(q, Tail(list, q, Last(list))))
           IN  /\ new \in Snaps /\ Counted(new)
               /\ SessionOf[q] \in live => Told(msgs, SessionOf[q], q, new)
  <1> DEFINE s == SessionOf[q]
             last == Last(list)
             older == Older(q, Tail(list, q, last))
             at == StampsOf(older)
             new == [through |-> Max(at), covers |-> last.covers \cup at,
                     count |-> last.count + Cardinality(older)]
  <1>0. Summary(last, older) = new
    BY Zenon DEF Summary
  <1>1. s \in Sessions /\ Listed(list, s)
    BY StoreAssumption, ListsListed DEF StoreAssumption
  <1>2. /\ last \in Snaps /\ Counted(last)
        /\ s \in live => \A m \in msgs :
              m.session = s /\ ~m.snapshot /\ m.at <= last.through
                 /\ m.at \notin last.covers => m.late \/ Excused(msgs, s, m)
    BY <1>1, LastTold
  <1>3. /\ older \subseteq msgs /\ IsFiniteSet(older)
        /\ at \subseteq Nat /\ IsFiniteSet(at)
        /\ Cardinality(at) = Cardinality(older)
        /\ Max(at) \in at
        /\ \A a \in at : a > last.through /\ a <= Max(at)
        /\ \A m \in older : m.session = s /\ m.run # q /\ ~m.snapshot
        /\ \A m \in msgs :
              m.session = s /\ ~m.snapshot /\ m.run # q /\ m.at > last.through
                 /\ m.at <= Max(at) => m \in older
    <2> HIDE DEF last, s
    <2> QED BY <1>1, <1>2, OlderTold DEF older, at, last, s
  <1>4. at = {m.at : m \in older}
    BY Zenon DEF StampsOf
  <1> HIDE DEF s, last, older, at
  <1>5. /\ last.through \in Nat /\ last.count \in Nat /\ last.covers \subseteq Nat
        /\ last.covers \subseteq 1 .. last.through /\ last.count = Cardinality(last.covers)
    BY <1>2 DEF Snaps, Counted
  <1>6. IsFiniteSet(last.covers)
    <2>1. IsFiniteSet(1 .. last.through)
      BY <1>5, FS_Interval
    <2>2. last.covers \in SUBSET (1 .. last.through)
      BY <1>5
    <2> QED BY <2>1, <2>2, FS_Subset
  <1>7. Cardinality(last.covers \cup at) = last.count + Cardinality(older)
    <2>1. last.covers \cap at = {}
      BY <1>3, <1>5
    <2>2. Cardinality(last.covers \cup at) = Cardinality(last.covers) + Cardinality(at) - 0
      BY <1>3, <1>6, <2>1, FS_Union, FS_EmptySet
    <2>3. Cardinality(at) \in Nat
      BY <1>3, FS_CardinalityType
    <2> QED BY <1>3, <1>5, <2>2, <2>3
  <1>8. Max(at) \in Nat /\ Max(at) > last.through /\ Cardinality(older) \in Nat
    BY <1>3, FS_CardinalityType
  <1>9. last.covers \cup at \subseteq 1 .. Max(at)
    <2>1. ASSUME NEW a \in last.covers PROVE a \in 1 .. Max(at)
      BY <1>5, <1>8
    <2>2. ASSUME NEW a \in at PROVE a \in 1 .. Max(at)
      BY <1>3, <1>5, <1>8
    <2> QED BY <2>1, <2>2
  <1>10. new \in Snaps
    <2>1. last.covers \cup at \in SUBSET Nat
      BY <1>3, <1>5
    <2>2. last.count + Cardinality(older) \in Nat
      BY <1>5, <1>8
    <2> QED BY <1>8, <2>1, <2>2 DEF Snaps
  <1>11. Counted(new)
    BY <1>7, <1>9 DEF Counted
  <1>12. ASSUME s \in live PROVE Told(msgs, s, q, new)
    <2>0. new.through = Max(at) /\ new.covers = last.covers \cup at
      OBVIOUS
    <2> HIDE DEF new
    <2>1. \E t \in msgs : t.session = s /\ t.at = Max(at)
      <3>1. PICK t \in older : t.at = Max(at)
        BY <1>3, <1>4
      <3> QED BY <1>3, <3>1
    <2>2. ASSUME NEW m \in msgs, m.session = s, ~m.snapshot, m.at <= Max(at),
                 m.at \notin last.covers, m.at \notin at
          PROVE  m.late \/ (m.run = q /\ m.at < Max(at)) \/ Excused(msgs, s, m)
      <3>0. m.at \in Nat
        BY DEF TypeOK, StoreTypeOK, Message
      <3>1. CASE m.at <= last.through
        BY <1>2, <1>12, <2>2, <3>1
      <3>2. CASE m.at > last.through /\ m.run = q
        BY <1>3, <1>8, <2>2, <3>0, <3>2
      <3>3. CASE m.at > last.through /\ m.run # q
        <4>1. m \in older
          BY <1>3, <2>2, <3>3
        <4> QED BY <1>4, <2>2, <4>1
      <3> QED BY <1>5, <3>0, <3>1, <3>2, <3>3
    <2> QED BY <2>0, <2>1, <2>2 DEF Told
  <1> QED BY <1>0, <1>10, <1>11, <1>12, Zenon DEF new, at, older, last, s

(* A summary stays true while messages of its session are added, for those *)
(* with earlier stamps are late.                                           *)
LEMMA ToldStays ==
    ASSUME NEW M, NEW N, NEW s, NEW r, NEW x, Told(M, s, r, x), x.through \in Nat,
           \A m \in M \cup N : m.at \in Nat /\ m.at > 0,
           \A m \in M : m.session = s => m \in N,
           \A m \in N \ M : m.session = s =>
               \A n \in M : n.session = s => n.at # m.at /\ (n.at > m.at => m.late)
    PROVE  Told(N, s, r, x)
  <1>1. x.through > 0 => \E t \in N : t.session = s /\ t.at = x.through
    BY DEF Told
  <1>2. ASSUME NEW m \in N, m.session = s, ~m.snapshot, m.at <= x.through, m.at \notin x.covers,
               m \in M
        PROVE  m.late \/ (m.run = r /\ m.at < x.through) \/ Excused(N, s, m)
    <2>1. m.late \/ (m.run = r /\ m.at < x.through) \/ Excused(M, s, m)
      BY <1>2 DEF Told
    <2>2. Excused(M, s, m) => Excused(N, s, m)
      BY DEF Excused
    <2> QED BY <2>1, <2>2
  <1>3. ASSUME NEW m \in N, m.session = s, m.at <= x.through, m \notin M
        PROVE  m.late
    <2>1. PICK t \in M : t.session = s /\ t.at = x.through
      BY <1>3 DEF Told
    <2>2. m.at \in Nat /\ t.at \in Nat
      OBVIOUS
    <2> QED BY <1>3, <2>1, <2>2
  <1> QED BY <1>1, <1>2, <1>3 DEF Told

LEMMA NoSnapshotTold ==
    ASSUME NEW M, NEW s, NEW r, \A m \in M : m.at \in Nat /\ m.at > 0
    PROVE  Told(M, s, r, NoSnapshot)
  <1>1. NoSnapshot.through = 0
    BY DEF NoSnapshot
  <1>2. ~(NoSnapshot.through > 0) /\ \A m \in M : ~(m.at <= NoSnapshot.through)
    BY <1>1
  <1> QED BY <1>2 DEF Told

LEMMA MessageTypes ==
    ASSUME TypeOK, StampsDiffer
    PROVE  /\ \A m \in msgs : /\ m \in Message /\ m.at \in Nat /\ m.at > 0
                              /\ m.through \in Nat /\ m.covers \in SUBSET Nat
           /\ \A q \in Runs : next[q] \in Snaps /\ next[q].through \in Nat
  BY DEF TypeOK, StoreTypeOK, Message, StampsDiffer, Snaps

(* The insert of a message leaves every summary true.                      *)
LEMMA WritesTold ==
    ASSUME TypeOK, StampsDiffer, Summaries, NEW q \in Runs, NEW m \in Message, Writes(q, m),
           m.session = SessionOf[q], m.at = StampOf(q)
    PROVE  /\ live' = live
           /\ \A n \in msgs' : n.at \in Nat /\ n.at > 0
           /\ \A n \in msgs : n.snapshot /\ n.session \in live =>
                 Told(msgs', n.session, n.run, n)
           /\ \A r \in Runs : SessionOf[r] \in live =>
                 Told(msgs', SessionOf[r], r, next[r])
  <1>1. /\ \/ msgs' = msgs
           \/ \E b \in BOOLEAN :
                 /\ msgs' = msgs \cup {[m EXCEPT !.late = b]}
                 /\ (\E n \in msgs : n.session = SessionOf[q] /\ n.at > m.at) => b
        /\ msgs' \subseteq Message
        /\ StampsDiffer'
    BY WritesStep
  <1>2. \A n \in msgs' : n.at \in Nat /\ n.at > 0
    BY <1>1 DEF Message, StampsDiffer
  <1>3. \A n \in msgs : n \in msgs'
    BY <1>1
  <1>4. \A n \in msgs : n.at # m.at
    BY TextFields DEF Writes
  <1>5. ASSUME NEW n \in msgs' \ msgs, NEW o \in msgs, o.session = n.session
        PROVE  o.at # n.at /\ (o.at > n.at => n.late)
    <2>1. PICK b \in BOOLEAN :
             /\ n = [m EXCEPT !.late = b]
             /\ (\E k \in msgs : k.session = SessionOf[q] /\ k.at > m.at) => b
      BY <1>1, <1>5
    <2>2. n.at = m.at /\ n.late = b /\ n.session = SessionOf[q]
      BY <2>1, StoredFields
    <2> QED BY <1>4, <1>5, <2>1, <2>2
  <1>6. ASSUME NEW s, NEW r, NEW x, Told(msgs, s, r, x), x.through \in Nat
        PROVE  Told(msgs', s, r, x)
    <2>1. \A n \in msgs \cup msgs' : n.at \in Nat /\ n.at > 0
      BY <1>2, <1>3
    <2>2. \A n \in msgs' \ msgs : n.session = s =>
             \A o \in msgs : o.session = s => o.at # n.at /\ (o.at > n.at => n.late)
      BY <1>5
    <2>3. \A n \in msgs : n.session = s => n \in msgs'
      BY <1>3
    <2> QED BY <1>6, <2>1, <2>2, <2>3, ToldStays
  <1>7. live' = live
    BY DEF Writes
  <1> QED BY <1>2, <1>6, <1>7, MessageTypes DEF Summaries

(* A run that starts begins no summary, or a true one.                     *)
LEMMA ReadsNext ==
    ASSUME TypeOK, StampsDiffer, Summaries, NEW q \in Runs, Reads(q)
    PROVE  \E new :
              \/ next' = next
              \/ /\ next' = [next EXCEPT ![q] = new] /\ new \in Snaps /\ Counted(new)
                 /\ SessionOf[q] \in live => Told(msgs, SessionOf[q], q, new)
  <1>1. CASE next' = next
    BY <1>1
  <1>2. CASE \E list \in Lists(SessionOf[q]) : History(q, list)
    <2>1. PICK list \in Lists(SessionOf[q]) : History(q, list)
      BY <1>2
    <2>2. \/ next' = next
          \/ /\ Older(q, Tail(list, q, Last(list))) # {}
             /\ next' = [next EXCEPT ![q] =
                   Summary(Last(list), Older(q, Tail(list, q, Last(list))))]
      BY <2>1, Zenon DEF History
    <2> QED BY <2>2, ReadTold, Zenon
  <1> QED BY <1>1, <1>2, Zenon DEF Reads

LEMMA SummariesStep ==
    ASSUME TypeOK, StampsDiffer, Summaries, Next
    PROVE  Summaries'
  <1>0. \A m \in msgs : m.at \in Nat /\ m.at > 0
    BY MessageTypes
  <1>1. CASE UNCHANGED <<msgs, live, next>>
    BY <1>1 DEF Summaries
  <1>2. ASSUME NEW q \in Runs, UNCHANGED <<msgs, live>>,
               next' = [next EXCEPT ![q] = NoSnapshot]
        PROVE  Summaries'
    <2>1. ASSUME NEW r \in Runs
          PROVE  /\ Counted(next'[r])
                 /\ SessionOf[r] \in live => Told(msgs, SessionOf[r], r, next'[r])
      <3>1. CASE r = q
        <4>1. next'[r] = NoSnapshot
          BY <1>2, <3>1 DEF TypeOK
        <4> QED BY <1>0, <4>1, NoSnapshotCounted, NoSnapshotTold
      <3>2. CASE r # q
        <4>1. next'[r] = next[r]
          BY <1>2, <3>2 DEF TypeOK
        <4> QED BY <4>1 DEF Summaries
      <3> QED BY <3>1, <3>2
    <2> QED BY <1>2, <2>1 DEF Summaries
  <1>3. ASSUME NEW q \in Runs, Reads(q) PROVE Summaries'
    <2>1. UNCHANGED <<msgs, live>>
      BY <1>3, Zenon DEF Reads
    <2>2. PICK new : \/ next' = next
                     \/ /\ next' = [next EXCEPT ![q] = new]
                        /\ Counted(new)
                        /\ SessionOf[q] \in live => Told(msgs, SessionOf[q], q, new)
      BY <1>3, ReadsNext
    <2>4. CASE next' = next
      BY <1>1, <2>1, <2>4
    <2>5. CASE /\ next' = [next EXCEPT ![q] = new]
               /\ Counted(new)
               /\ SessionOf[q] \in live => Told(msgs, SessionOf[q], q, new)
      <3>1. ASSUME NEW r \in Runs
            PROVE  /\ Counted(next'[r])
                   /\ SessionOf[r] \in live => Told(msgs, SessionOf[r], r, next'[r])
        <4>1. CASE r = q
          <5>1. next'[r] = new
            BY <2>5, <4>1 DEF TypeOK
          <5> QED BY <2>5, <4>1, <5>1
        <4>2. CASE r # q
          <5>1. next'[r] = next[r]
            BY <2>5, <4>2 DEF TypeOK
          <5> QED BY <5>1 DEF Summaries
        <4> QED BY <4>1, <4>2
      <3> QED BY <2>1, <3>1 DEF Summaries
    <2> QED BY <2>2, <2>4, <2>5
  <1>4. ASSUME NEW q \in Runs, NEW run \in Runs \cup {NoRun}, Writes(q, Text(q, run)), next' = next
        PROVE  Summaries'
    <2>1. /\ Text(q, run) \in Message /\ Text(q, run).session = SessionOf[q]
          /\ Text(q, run).at = StampOf(q) /\ ~Text(q, run).snapshot
      BY <1>4, TextFields DEF Writes
    <2>2. /\ live' = live
          /\ \A n \in msgs : n.snapshot /\ n.session \in live =>
                Told(msgs', n.session, n.run, n)
          /\ \A r \in Runs : SessionOf[r] \in live => Told(msgs', SessionOf[r], r, next[r])
      BY <1>4, <2>1, WritesTold
    <2>3. ASSUME NEW n \in msgs', n.snapshot PROVE n \in msgs
      <3>1. \/ msgs' = msgs
            \/ \E b \in BOOLEAN : msgs' = msgs \cup {[Text(q, run) EXCEPT !.late = b]}
        BY <1>4, <2>1, WritesStep
      <3>2. ASSUME NEW b \in BOOLEAN, n = [Text(q, run) EXCEPT !.late = b] PROVE FALSE
        <4>1. n.snapshot = Text(q, run).snapshot
          BY <2>1, <3>2, StoredFields
        <4> QED BY <2>1, <2>3, <4>1
      <3> QED BY <3>1, <3>2
    <2> QED BY <1>4, <2>2, <2>3 DEF Summaries
  <1>5. ASSUME NEW q \in Runs, WritesSnapshot(q) PROVE Summaries'
    <2>0. Writes(q, Snapshot(q)) /\ Stamped(q) /\ next' = [next EXCEPT ![q] = NoSnapshot]
      BY <1>5 DEF WritesSnapshot, Writes
    <2>1. /\ Snapshot(q) \in Message
          /\ Snapshot(q).session = SessionOf[q] /\ Snapshot(q).run = q
          /\ Snapshot(q).at = StampOf(q) /\ Snapshot(q).snapshot
          /\ Snapshot(q).through = next[q].through
          /\ Snapshot(q).covers = next[q].covers /\ Snapshot(q).count = next[q].count
      BY <2>0, SnapshotFields
    <2>2. /\ live' = live
          /\ \A n \in msgs' : n.at \in Nat /\ n.at > 0
          /\ \A n \in msgs : n.snapshot /\ n.session \in live =>
                Told(msgs', n.session, n.run, n)
          /\ \A r \in Runs : SessionOf[r] \in live => Told(msgs', SessionOf[r], r, next[r])
      BY <2>0, <2>1, WritesTold
    <2>3. ASSUME NEW n \in msgs', n \notin msgs
          PROVE  Counted(n) /\ (n.session \in live => Told(msgs', n.session, n.run, n))
      <3>1. PICK b \in BOOLEAN : n = [Snapshot(q) EXCEPT !.late = b]
        BY <2>0, <2>1, <2>3, WritesStep
      <3>2. /\ n.session = SessionOf[q] /\ n.run = q
            /\ n.through = next[q].through /\ n.covers = next[q].covers
            /\ n.count = next[q].count
        BY <2>1, <3>1, StoredFields
      <3>3. Counted(n)
        BY <3>2 DEF Summaries, Counted
      <3>4. ASSUME SessionOf[q] \in live PROVE Told(msgs', SessionOf[q], q, n)
        <4>1. Told(msgs', SessionOf[q], q, next[q])
          BY <2>2, <3>4
        <4> QED BY <3>2, <4>1 DEF Told
      <3> QED BY <3>2, <3>3, <3>4
    <2>4. ASSUME NEW r \in Runs
          PROVE  /\ Counted(next'[r])
                 /\ SessionOf[r] \in live => Told(msgs', SessionOf[r], r, next'[r])
      <3>1. CASE r = q
        <4>1. next'[r] = NoSnapshot
          BY <2>0, <3>1 DEF TypeOK
        <4> QED BY <2>2, <4>1, NoSnapshotCounted, NoSnapshotTold
      <3>2. CASE r # q
        <4>1. next'[r] = next[r]
          BY <2>0, <3>2 DEF TypeOK
        <4> QED BY <2>2, <4>1 DEF Summaries
      <3> QED BY <3>1, <3>2
    <2> QED BY <2>2, <2>3, <2>4 DEF Summaries
  <1>6. ASSUME NEW set, Delete(set), next' = next PROVE Summaries'
    <2>1. live' = live \ set /\ msgs' = {m \in msgs : m.session \notin set}
      BY <1>6 DEF Delete
    <2>2. ASSUME NEW s, s \in live', NEW r, NEW x, Told(msgs, s, r, x), x.through \in Nat
          PROVE  Told(msgs', s, r, x)
      <3>1. /\ \A m \in msgs \cup msgs' : m.at \in Nat /\ m.at > 0
            /\ \A m \in msgs : m.session = s => m \in msgs'
            /\ \A m \in msgs' \ msgs : m.session = s =>
                  \A n \in msgs : n.session = s => n.at # m.at /\ (n.at > m.at => m.late)
        BY <1>0, <2>1, <2>2
      <3> QED BY <2>2, <3>1, ToldStays
    <2> QED BY <1>6, <2>1, <2>2, MessageTypes DEF Summaries
  <1>7. ASSUME NEW q \in Runs, Posts(q) \/ StoresReply(q) PROVE Summaries'
    BY <1>4, <1>7 DEF Posts, StoresReply, Quiet
  <1>8. ASSUME NEW q \in Runs, Ends(q) \/ Crashes(q) PROVE Summaries'
    BY <1>2, <1>8 DEF Ends, Crashes, stvars
  <1>9. ASSUME NEW q \in Runs,
               Checks(q) \/ Prepares(q) \/ Creates(q) \/ Launches(q) \/ PostsEvent(q)
                  \/ Stamps(q) \/ Replies(q) \/ Reopens(q) \/ Requeues(q)
        PROVE  Summaries'
    BY <1>1, <1>9 DEF Checks, Prepares, Creates, Launches, PostsEvent, Stamps, Replies,
       Reopens, Requeues, stvars, Quiet
  <1>10. ASSUME PurgeStep \/ \E s \in Sessions : Age(s), Aside PROVE Summaries'
    <2>1. next' = next
      BY <1>10 DEF Aside
    <2>2. (\E set : Delete(set)) \/ UNCHANGED <<msgs, live>>
      BY <1>10 DEF PurgeStep, PurgeMemory, PurgePicks, PurgeLocks, PurgeChecks,
         PurgeDeletes, Age
    <2> QED BY <1>1, <1>6, <2>1, <2>2
  <1> QED BY <1>3, <1>5, <1>7, <1>8, <1>9, <1>10 DEF Next, startRun, postMessage, Run

-----------------------------------------------------------------------------
(* Types and stamps.                                                       *)

LEMMA StampsDifferStep ==
    ASSUME TypeOK, StampsDiffer, Next
    PROVE  StampsDiffer'
  <1>0. /\ stamp \in [Runs -> Nat] /\ clock \in Nat /\ clock > 0
        /\ \A m \in msgs : m.at \in Nat /\ m.at < clock
    BY DEF TypeOK, StoreTypeOK, Message
  <1>1. ASSUME NEW q \in Runs, NEW m \in Message, Writes(q, m), m.session = SessionOf[q],
               m.at = StampOf(q)
        PROVE  StampsDiffer'
    BY <1>1, WritesStep
  <1>2. ASSUME msgs' \subseteq msgs, clock' = clock,
               \A p \in Runs : stamp'[p] = 0 \/ stamp'[p] = stamp[p]
        PROVE  StampsDiffer'
    <2>1. ASSUME NEW p \in Runs PROVE stamp'[p] < clock'
      BY <1>0, <1>2 DEF StampsDiffer
    <2>2. ASSUME NEW p \in Runs, NEW q \in Runs, stamp'[p] = stamp'[q], stamp'[p] # 0
          PROVE  p = q
      BY <1>2, <2>2 DEF StampsDiffer
    <2>3. ASSUME NEW p \in Runs, NEW m \in msgs' PROVE m.at # stamp'[p]
      BY <1>0, <1>2 DEF StampsDiffer
    <2>4. /\ \A m \in msgs' : m.at > 0
          /\ \A m, n \in msgs' : m.session = n.session /\ m.at = n.at => m = n
      BY <1>2 DEF StampsDiffer
    <2> QED BY <2>1, <2>2, <2>3, <2>4 DEF StampsDiffer
  <1>3. ASSUME NEW q \in Runs, Stamps(q) PROVE StampsDiffer'
    <2>1. stamp' = [stamp EXCEPT ![q] = clock] /\ clock' = clock + 1 /\ msgs' = msgs
      BY <1>3 DEF Stamps
    <2>2. ASSUME NEW p \in Runs
          PROVE  stamp'[p] \in Nat /\ stamp'[p] < clock' /\ stamp[p] < clock
      BY <1>0, <2>1 DEF StampsDiffer
    <2>3. ASSUME NEW p \in Runs, NEW r \in Runs, stamp'[p] = stamp'[r], stamp'[p] # 0
          PROVE  p = r
      <3>1. \A t \in Runs : stamp'[t] = IF t = q THEN clock ELSE stamp[t]
        BY <1>0, <2>1
      <3>2. stamp[p] # clock /\ stamp[r] # clock
        BY <1>0, <2>2
      <3>3. stamp[p] = stamp[r] /\ stamp[p] # 0 => p = r
        BY DEF StampsDiffer
      <3> QED BY <2>3, <3>1, <3>2, <3>3
    <2>4. ASSUME NEW p \in Runs, NEW m \in msgs PROVE m.at # stamp'[p]
      <3>1. m.at # stamp[p] /\ m.at # clock
        BY <1>0 DEF StampsDiffer
      <3> QED BY <1>0, <2>1, <3>1
    <2> QED BY <2>1, <2>2, <2>3, <2>4 DEF StampsDiffer
  <1>4. ASSUME NEW q \in Runs, Posts(q) \/ StoresReply(q) PROVE StampsDiffer'
    <2>1. PICK run \in Runs \cup {NoRun} : Writes(q, Text(q, run))
      BY <1>4 DEF Posts, StoresReply
    <2>2. /\ Text(q, run) \in Message /\ Text(q, run).session = SessionOf[q]
          /\ Text(q, run).at = StampOf(q)
      BY <2>1, TextFields DEF Writes
    <2> QED BY <1>1, <2>1, <2>2
  <1>5. ASSUME NEW q \in Runs, WritesSnapshot(q) PROVE StampsDiffer'
    <2>1. Writes(q, Snapshot(q)) /\ Stamped(q)
      BY <1>5 DEF WritesSnapshot, Writes
    <2> QED BY <1>1, <2>1, SnapshotFields
  <1>6. ASSUME NEW q \in Runs,
               Checks(q) \/ Prepares(q) \/ Creates(q) \/ Launches(q) \/ PostsEvent(q)
                  \/ Replies(q) \/ Reopens(q) \/ Requeues(q) \/ Ends(q)
        PROVE  StampsDiffer'
    <2>1. msgs' = msgs /\ clock' = clock /\ stamp' = stamp
      BY <1>6 DEF Checks, Prepares, Creates, Launches, PostsEvent, Replies,
         Reopens, Requeues, Ends, stvars
    <2> QED BY <1>2, <2>1
  <1>7. ASSUME NEW q \in Runs, Reads(q) PROVE StampsDiffer'
    <2>1. msgs' = msgs /\ clock' = clock /\ stamp' = stamp
      BY <1>7, Zenon DEF Reads
    <2> QED BY <1>2, <2>1
  <1>8. ASSUME NEW q \in Runs, Crashes(q) PROVE StampsDiffer'
    <2>1. msgs' = msgs /\ clock' = clock /\ stamp' = [stamp EXCEPT ![q] = 0]
      BY <1>8 DEF Crashes, stvars
    <2> QED BY <1>0, <1>2, <2>1
  <1>9. ASSUME PurgeStep \/ \E s \in Sessions : Age(s), Aside PROVE StampsDiffer'
    <2>1. stamp' = stamp /\ clock' = clock /\ msgs' \subseteq msgs
      BY <1>9 DEF Aside, PurgeStep, PurgeMemory, PurgePicks, PurgeLocks, PurgeChecks,
         PurgeDeletes, Age, Delete
    <2> QED BY <1>2, <2>1
  <1> QED BY <1>3, <1>4, <1>5, <1>6, <1>7, <1>8, <1>9 DEF Next, startRun, postMessage, Run

(* The parts of TypeOK that change together.                               *)
StoreTypes ==
    /\ backend \in Backends /\ live \subseteq Sessions /\ recent \subseteq Sessions
    /\ row \in [Runs -> Statuses] /\ purge \in Purges

MsgTypes ==
    msgs \subseteq Message /\ clock \in Nat \ {0} /\ \A m \in msgs : m.at < clock

RequestTypes ==
    /\ pc \in [Runs -> Places] /\ stamp \in [Runs -> Nat]
    /\ answer \in [Runs -> Runs \cup {"none", "error"}] /\ next \in [Runs -> Snaps]

RunTypes ==
    /\ replies \in [Runs -> Nat] /\ \A q \in Runs : replies[q] \in 0 .. MaxReplies[q]
    /\ resumes \in 0 .. MaxResumes

LEMMA TypeParts ==
    TypeOK /\ replies \in [Runs -> Nat] <=> StoreTypes /\ MsgTypes /\ RequestTypes /\ RunTypes
  BY DEF TypeOK, StoreTypeOK, StoreTypes, MsgTypes, RequestTypes, RunTypes, Purges, Snaps

LEMMA StoreTypesStep ==
    ASSUME StoreTypes, Next
    PROVE  StoreTypes'
  <1> USE StoreAssumption, ConversationAssumption DEF StoreAssumption, ConversationAssumption,
      stvars
  <1>1. ASSUME NEW q \in Runs, Checks(q) PROVE StoreTypes'
    BY <1>1 DEF Checks, Goto, Answers, StoreTypes, Statuses
  <1>2. ASSUME NEW q \in Runs, Prepares(q) PROVE StoreTypes'
    BY <1>2 DEF Prepares, Goto, Answers, StoreTypes, Statuses
  <1>3. ASSUME NEW q \in Runs, Creates(q) PROVE StoreTypes'
    BY <1>3 DEF Creates, Goto, Answers, CreateRun, StoreTypes, Statuses
  <1>4. ASSUME NEW q \in Runs, Launches(q) PROVE StoreTypes'
    BY <1>4 DEF Launches, Goto, Answers, Append, StoreTypes, Statuses
  <1>5. ASSUME NEW q \in Runs, PostsEvent(q) PROVE StoreTypes'
    BY <1>5 DEF PostsEvent, Goto, Answers, Append, StoreTypes, Statuses
  <1>6. ASSUME NEW q \in Runs, Posts(q) PROVE StoreTypes'
    BY <1>6 DEF Posts, Goto, Answers, Writes, StoreTypes, Statuses
  <1>7. ASSUME NEW q \in Runs, Stamps(q) PROVE StoreTypes'
    BY <1>7 DEF Stamps, StoreTypes, Statuses
  <1>8. ASSUME NEW q \in Runs, Reads(q) PROVE StoreTypes'
    <2>1. /\ UNCHANGED <<backend, live, recent, purge>>
          /\ row' = [row EXCEPT ![q] = IF @ = "none" THEN @ ELSE "active"]
      BY <1>8, Zenon DEF Reads, UpdateRun
    <2> QED BY <2>1 DEF StoreTypes, Statuses
  <1>9. ASSUME NEW q \in Runs, WritesSnapshot(q) PROVE StoreTypes'
    BY <1>9 DEF WritesSnapshot, Goto, Append, Writes, StoreTypes, Statuses
  <1>10. ASSUME NEW q \in Runs, Replies(q) PROVE StoreTypes'
    BY <1>10 DEF Replies, Goto, Append, StoreTypes, Statuses
  <1>11. ASSUME NEW q \in Runs, StoresReply(q) PROVE StoreTypes'
    BY <1>11 DEF StoresReply, Goto, Writes, StoreTypes, Statuses
  <1>12. ASSUME NEW q \in Runs, Ends(q) PROVE StoreTypes'
    BY <1>12 DEF Ends, Goto, UpdateRun, Append, StoreTypes, Statuses
  <1>13. ASSUME NEW q \in Runs, Crashes(q) PROVE StoreTypes'
    BY <1>13 DEF Crashes, Goto, StoreTypes, Statuses
  <1>14. ASSUME NEW q \in Runs, Reopens(q) PROVE StoreTypes'
    BY <1>14 DEF Reopens, Goto, UpdateRun, StoreTypes, Statuses
  <1>15. ASSUME NEW q \in Runs, Requeues(q) PROVE StoreTypes'
    BY <1>15 DEF Requeues, Goto, Append, StoreTypes, Statuses
  <1>16. ASSUME PurgeMemory, Aside PROVE StoreTypes'
    <2>1. /\ backend' = backend /\ live' \subseteq live /\ recent' \subseteq recent
          /\ row' \in [Runs -> Statuses]
      BY <1>16 DEF PurgeMemory, Delete, StoreTypes, Statuses
    <2> QED BY <1>16, <2>1 DEF PurgeMemory, StoreTypes
  <1>17. ASSUME PurgePicks, Aside PROVE StoreTypes'
    <2>1. purge' = [step |-> "picked", of |-> {s \in Sessions : Idle(s)}]
      BY <1>17 DEF PurgePicks
    <2>2. purge' \in Purges
      BY <2>1 DEF Purges
    <2> QED BY <1>17, <2>2 DEF PurgePicks, StoreTypes
  <1>18. ASSUME PurgeLocks, Aside PROVE StoreTypes'
    <2>1. purge' \in Purges
      BY <1>18 DEF PurgeLocks, Purges, StoreTypes
    <2> QED BY <1>18, <2>1 DEF PurgeLocks, StoreTypes
  <1>19. ASSUME PurgeChecks, Aside PROVE StoreTypes'
    <2>1. purge' = [step |-> "checked", of |-> {s \in purge.of : Idle(s)}]
      BY <1>19 DEF PurgeChecks
    <2>2. purge' \in Purges
      BY <2>1 DEF Purges, StoreTypes
    <2> QED BY <1>19, <2>2 DEF PurgeChecks, StoreTypes
  <1>20. ASSUME PurgeDeletes, Aside PROVE StoreTypes'
    <2>1. purge' \in Purges
      BY <1>20 DEF PurgeDeletes, Purges
    <2>2. /\ backend' = backend /\ live' \subseteq live /\ recent' \subseteq recent
          /\ row' \in [Runs -> Statuses]
      BY <1>20 DEF PurgeDeletes, Delete, StoreTypes, Statuses
    <2> QED BY <2>1, <2>2 DEF StoreTypes
  <1>21. ASSUME NEW s \in Sessions, Age(s), Aside PROVE StoreTypes'
    BY <1>21 DEF Age, StoreTypes, Statuses
  <1> QED BY <1>1, <1>2, <1>3, <1>4, <1>5, <1>6, <1>7, <1>8, <1>9, <1>10, <1>11, <1>12,
             <1>13, <1>14, <1>15, <1>16, <1>17, <1>18, <1>19, <1>20, <1>21
          DEF Next, startRun, postMessage, Run, PurgeStep

LEMMA MsgTypesStep ==
    ASSUME TypeOK, StampsDiffer, MsgTypes, Next
    PROVE  MsgTypes'
  <1> USE StoreAssumption, ConversationAssumption DEF StoreAssumption, ConversationAssumption,
      stvars
  <1>1. ASSUME NEW q \in Runs, Checks(q) PROVE MsgTypes'
    BY <1>1 DEF Checks, MsgTypes
  <1>2. ASSUME NEW q \in Runs, Prepares(q) PROVE MsgTypes'
    BY <1>2 DEF Prepares, MsgTypes
  <1>3. ASSUME NEW q \in Runs, Creates(q) PROVE MsgTypes'
    BY <1>3 DEF Creates, MsgTypes
  <1>4. ASSUME NEW q \in Runs, Launches(q) PROVE MsgTypes'
    BY <1>4 DEF Launches, MsgTypes
  <1>5. ASSUME NEW q \in Runs, PostsEvent(q) PROVE MsgTypes'
    BY <1>5 DEF PostsEvent, MsgTypes
  <1>6. ASSUME NEW q \in Runs, Posts(q) PROVE MsgTypes'
    <2>1. Writes(q, Text(q, NoRun)) /\ Stamped(q) /\ NoRun \in Runs \cup {NoRun}
      BY <1>6 DEF Posts, Writes
    <2>2. /\ Text(q, NoRun) \in Message /\ Text(q, NoRun).session = SessionOf[q]
          /\ Text(q, NoRun).at = StampOf(q)
      BY <2>1, TextFields
    <2> QED BY <2>1, <2>2, WritesStep DEF MsgTypes
  <1>7. ASSUME NEW q \in Runs, Stamps(q) PROVE MsgTypes'
    <2>1. msgs' = msgs /\ clock' = clock + 1
      BY <1>7 DEF Stamps
    <2>2. \A m \in msgs : m.at \in Nat
      BY DEF MsgTypes, Message
    <2> QED BY <2>1, <2>2 DEF MsgTypes
  <1>8. ASSUME NEW q \in Runs, Reads(q) PROVE MsgTypes'
    <2>1. UNCHANGED <<msgs, clock>>
      BY <1>8, Zenon DEF Reads
    <2> QED BY <2>1 DEF MsgTypes
  <1>9. ASSUME NEW q \in Runs, WritesSnapshot(q) PROVE MsgTypes'
    <2>1. Writes(q, Snapshot(q)) /\ Stamped(q)
      BY <1>9 DEF WritesSnapshot, Writes
    <2> QED BY <2>1, SnapshotFields, WritesStep DEF MsgTypes
  <1>10. ASSUME NEW q \in Runs, Replies(q) PROVE MsgTypes'
    BY <1>10 DEF Replies, MsgTypes
  <1>11. ASSUME NEW q \in Runs, StoresReply(q) PROVE MsgTypes'
    <2>1. Writes(q, Text(q, q)) /\ Stamped(q)
      BY <1>11 DEF StoresReply, Writes
    <2>2. /\ Text(q, q) \in Message /\ Text(q, q).session = SessionOf[q]
          /\ Text(q, q).at = StampOf(q)
      BY <2>1, TextFields
    <2> QED BY <2>1, <2>2, WritesStep DEF MsgTypes
  <1>12. ASSUME NEW q \in Runs, Ends(q) PROVE MsgTypes'
    BY <1>12 DEF Ends, MsgTypes
  <1>13. ASSUME NEW q \in Runs, Crashes(q) PROVE MsgTypes'
    BY <1>13 DEF Crashes, MsgTypes
  <1>14. ASSUME NEW q \in Runs, Reopens(q) PROVE MsgTypes'
    BY <1>14 DEF Reopens, MsgTypes
  <1>15. ASSUME NEW q \in Runs, Requeues(q) PROVE MsgTypes'
    BY <1>15 DEF Requeues, MsgTypes
  <1>16. ASSUME PurgeMemory, Aside PROVE MsgTypes'
    <2>1. clock' = clock /\ msgs' \subseteq msgs
      BY <1>16 DEF PurgeMemory, Delete
    <2> QED BY <2>1 DEF MsgTypes
  <1>17. ASSUME PurgePicks, Aside PROVE MsgTypes'
    BY <1>17 DEF PurgePicks, MsgTypes
  <1>18. ASSUME PurgeLocks, Aside PROVE MsgTypes'
    BY <1>18 DEF PurgeLocks, MsgTypes
  <1>19. ASSUME PurgeChecks, Aside PROVE MsgTypes'
    BY <1>19 DEF PurgeChecks, MsgTypes
  <1>20. ASSUME PurgeDeletes, Aside PROVE MsgTypes'
    <2>1. clock' = clock /\ msgs' \subseteq msgs
      BY <1>20 DEF PurgeDeletes, Delete
    <2> QED BY <2>1 DEF MsgTypes
  <1>21. ASSUME NEW s \in Sessions, Age(s), Aside PROVE MsgTypes'
    BY <1>21 DEF Age, MsgTypes
  <1> QED BY <1>1, <1>2, <1>3, <1>4, <1>5, <1>6, <1>7, <1>8, <1>9, <1>10, <1>11, <1>12,
             <1>13, <1>14, <1>15, <1>16, <1>17, <1>18, <1>19, <1>20, <1>21
          DEF Next, startRun, postMessage, Run, PurgeStep

LEMMA RequestTypesStep ==
    ASSUME TypeOK, StampsDiffer, Summaries, RequestTypes, Next
    PROVE  RequestTypes'
  <1> USE StoreAssumption, ConversationAssumption DEF StoreAssumption, ConversationAssumption,
      stvars
  <1>1. ASSUME NEW q \in Runs, Checks(q) PROVE RequestTypes'
    <2>1. pc' \in [Runs -> Places]
      BY <1>1 DEF Checks, Goto, RequestTypes, Places, Executing
    <2>2. answer' \in [Runs -> Runs \cup {"none", "error"}]
      BY <1>1 DEF Checks, Answers, RequestTypes
    <2>3. stamp' \in [Runs -> Nat] /\ next' \in [Runs -> Snaps]
      BY <1>1 DEF Checks, Quiet, RequestTypes
    <2> QED BY <2>1, <2>2, <2>3 DEF RequestTypes
  <1>2. ASSUME NEW q \in Runs, Prepares(q) PROVE RequestTypes'
    <2>1. pc' \in [Runs -> Places]
      BY <1>2 DEF Prepares, Goto, RequestTypes, Places, Executing
    <2>2. answer' \in [Runs -> Runs \cup {"none", "error"}]
      BY <1>2 DEF Prepares, Answers, RequestTypes, FindByIdempotency
    <2>3. stamp' \in [Runs -> Nat] /\ next' \in [Runs -> Snaps]
      BY <1>2 DEF Prepares, Quiet, RequestTypes
    <2> QED BY <2>1, <2>2, <2>3 DEF RequestTypes
  <1>3. ASSUME NEW q \in Runs, Creates(q) PROVE RequestTypes'
    <2>1. pc' \in [Runs -> Places]
      BY <1>3 DEF Creates, Goto, RequestTypes, Places, Executing
    <2>2. answer' \in [Runs -> Runs \cup {"none", "error"}]
      BY <1>3 DEF Creates, Answers, RequestTypes
    <2>3. stamp' \in [Runs -> Nat] /\ next' \in [Runs -> Snaps]
      BY <1>3 DEF Creates, Quiet, RequestTypes
    <2> QED BY <2>1, <2>2, <2>3 DEF RequestTypes
  <1>4. ASSUME NEW q \in Runs, Launches(q) PROVE RequestTypes'
    <2>1. pc' \in [Runs -> Places]
      BY <1>4 DEF Launches, Goto, RequestTypes, Places, Executing
    <2>2. answer' \in [Runs -> Runs \cup {"none", "error"}]
      BY <1>4 DEF Launches, Answers, RequestTypes
    <2>3. stamp' \in [Runs -> Nat] /\ next' \in [Runs -> Snaps]
      BY <1>4 DEF Launches, Quiet, RequestTypes
    <2> QED BY <2>1, <2>2, <2>3 DEF RequestTypes
  <1>5. ASSUME NEW q \in Runs, PostsEvent(q) PROVE RequestTypes'
    <2>1. pc' \in [Runs -> Places]
      BY <1>5 DEF PostsEvent, Goto, RequestTypes, Places, Executing
    <2>2. answer' \in [Runs -> Runs \cup {"none", "error"}]
      BY <1>5 DEF PostsEvent, Answers, RequestTypes
    <2>3. stamp' \in [Runs -> Nat] /\ next' \in [Runs -> Snaps]
      BY <1>5 DEF PostsEvent, Quiet, RequestTypes
    <2> QED BY <2>1, <2>2, <2>3 DEF RequestTypes
  <1>6. ASSUME NEW q \in Runs, Posts(q) PROVE RequestTypes'
    <2>1. pc' \in [Runs -> Places]
      BY <1>6 DEF Posts, Goto, RequestTypes, Places, Executing
    <2>2. answer' \in [Runs -> Runs \cup {"none", "error"}]
      BY <1>6 DEF Posts, Answers, RequestTypes
    <2>3. stamp' \in [Runs -> Nat] /\ next' \in [Runs -> Snaps]
      BY <1>6 DEF Posts, Writes, Quiet, RequestTypes
    <2> QED BY <2>1, <2>2, <2>3 DEF RequestTypes
  <1>7. ASSUME NEW q \in Runs, Stamps(q) PROVE RequestTypes'
    <2>1. stamp' \in [Runs -> Nat]
      BY <1>7 DEF Stamps, TypeOK, StoreTypeOK, RequestTypes
    <2> QED BY <1>7, <2>1 DEF Stamps, Quiet, RequestTypes
  <1>8. ASSUME NEW q \in Runs, Reads(q) PROVE RequestTypes'
    <2>1. UNCHANGED <<stamp, answer>>
      BY <1>8, Zenon DEF Reads
    <2>2. \E place \in {"failing", "summarising", "working"} : pc' = [pc EXCEPT ![q] = place]
      BY <1>8, Zenon DEF Reads, History, Goto
    <2>3. \E new : next' = next \/ (next' = [next EXCEPT ![q] = new] /\ new \in Snaps)
      BY <1>8, ReadsNext
    <2>5. next' \in [Runs -> Snaps]
      BY <2>3 DEF RequestTypes
    <2>6. pc' \in [Runs -> Places]
      BY <2>2 DEF RequestTypes, Places, Executing
    <2> QED BY <2>1, <2>5, <2>6 DEF RequestTypes
  <1>9. ASSUME NEW q \in Runs, WritesSnapshot(q) PROVE RequestTypes'
    <2>1. pc' \in [Runs -> Places]
      BY <1>9 DEF WritesSnapshot, Goto, RequestTypes, Places, Executing
    <2>2. answer' \in [Runs -> Runs \cup {"none", "error"}]
      BY <1>9 DEF WritesSnapshot, Answers, RequestTypes
    <2>3. stamp' \in [Runs -> Nat] /\ next' \in [Runs -> Snaps]
      BY <1>9, NoSnapshotCounted DEF WritesSnapshot, Writes, RequestTypes
    <2> QED BY <2>1, <2>2, <2>3 DEF RequestTypes
  <1>10. ASSUME NEW q \in Runs, Replies(q) PROVE RequestTypes'
    <2>1. pc' \in [Runs -> Places]
      BY <1>10 DEF Replies, Goto, RequestTypes, Places, Executing
    <2>2. answer' \in [Runs -> Runs \cup {"none", "error"}]
      BY <1>10 DEF Replies, Answers, RequestTypes
    <2>3. stamp' \in [Runs -> Nat] /\ next' \in [Runs -> Snaps]
      BY <1>10 DEF Replies, Quiet, RequestTypes
    <2> QED BY <2>1, <2>2, <2>3 DEF RequestTypes
  <1>11. ASSUME NEW q \in Runs, StoresReply(q) PROVE RequestTypes'
    <2>1. pc' \in [Runs -> Places]
      BY <1>11 DEF StoresReply, Goto, RequestTypes, Places, Executing
    <2>2. answer' \in [Runs -> Runs \cup {"none", "error"}]
      BY <1>11 DEF StoresReply, Answers, RequestTypes
    <2>3. stamp' \in [Runs -> Nat] /\ next' \in [Runs -> Snaps]
      BY <1>11 DEF StoresReply, Writes, Quiet, RequestTypes
    <2> QED BY <2>1, <2>2, <2>3 DEF RequestTypes
  <1>12. ASSUME NEW q \in Runs, Ends(q) PROVE RequestTypes'
    <2>1. pc' \in [Runs -> Places]
      BY <1>12 DEF Ends, Goto, RequestTypes, Places, Executing
    <2>2. answer' \in [Runs -> Runs \cup {"none", "error"}]
      BY <1>12 DEF Ends, Answers, RequestTypes
    <2>3. stamp' \in [Runs -> Nat] /\ next' \in [Runs -> Snaps]
      BY <1>12, NoSnapshotCounted DEF Ends, Writes, RequestTypes
    <2> QED BY <2>1, <2>2, <2>3 DEF RequestTypes
  <1>13. ASSUME NEW q \in Runs, Crashes(q) PROVE RequestTypes'
    <2>1. pc' \in [Runs -> Places]
      BY <1>13 DEF Crashes, Goto, RequestTypes, Places, Executing
    <2>2. answer' \in [Runs -> Runs \cup {"none", "error"}]
      BY <1>13 DEF Crashes, Answers, RequestTypes
    <2>3. stamp' \in [Runs -> Nat] /\ next' \in [Runs -> Snaps]
      BY <1>13, NoSnapshotCounted DEF Crashes, Writes, RequestTypes
    <2> QED BY <2>1, <2>2, <2>3 DEF RequestTypes
  <1>14. ASSUME NEW q \in Runs, Reopens(q) PROVE RequestTypes'
    <2>1. pc' \in [Runs -> Places]
      BY <1>14 DEF Reopens, Goto, RequestTypes, Places, Executing
    <2>2. answer' \in [Runs -> Runs \cup {"none", "error"}]
      BY <1>14 DEF Reopens, Answers, RequestTypes
    <2>3. stamp' \in [Runs -> Nat] /\ next' \in [Runs -> Snaps]
      BY <1>14 DEF Reopens, Quiet, RequestTypes
    <2> QED BY <2>1, <2>2, <2>3 DEF RequestTypes
  <1>15. ASSUME NEW q \in Runs, Requeues(q) PROVE RequestTypes'
    <2>1. pc' \in [Runs -> Places]
      BY <1>15 DEF Requeues, Goto, RequestTypes, Places, Executing
    <2>2. answer' \in [Runs -> Runs \cup {"none", "error"}]
      BY <1>15 DEF Requeues, Answers, RequestTypes
    <2>3. stamp' \in [Runs -> Nat] /\ next' \in [Runs -> Snaps]
      BY <1>15 DEF Requeues, Quiet, RequestTypes
    <2> QED BY <2>1, <2>2, <2>3 DEF RequestTypes
  <1>16. ASSUME PurgeMemory, Aside PROVE RequestTypes'
    BY <1>16 DEF PurgeMemory, Aside, RequestTypes
  <1>17. ASSUME PurgePicks, Aside PROVE RequestTypes'
    BY <1>17 DEF PurgePicks, Aside, RequestTypes
  <1>18. ASSUME PurgeLocks, Aside PROVE RequestTypes'
    BY <1>18 DEF PurgeLocks, Aside, RequestTypes
  <1>19. ASSUME PurgeChecks, Aside PROVE RequestTypes'
    BY <1>19 DEF PurgeChecks, Aside, RequestTypes
  <1>20. ASSUME PurgeDeletes, Aside PROVE RequestTypes'
    BY <1>20 DEF PurgeDeletes, Aside, RequestTypes
  <1>21. ASSUME NEW s \in Sessions, Age(s), Aside PROVE RequestTypes'
    BY <1>21 DEF Age, Aside, RequestTypes
  <1> QED BY <1>1, <1>2, <1>3, <1>4, <1>5, <1>6, <1>7, <1>8, <1>9, <1>10, <1>11, <1>12,
             <1>13, <1>14, <1>15, <1>16, <1>17, <1>18, <1>19, <1>20, <1>21
          DEF Next, startRun, postMessage, Run, PurgeStep

LEMMA RunTypesStep ==
    ASSUME RunTypes, Next
    PROVE  RunTypes'
  <1> USE StoreAssumption, ConversationAssumption DEF StoreAssumption, ConversationAssumption,
      stvars
  <1>1. ASSUME NEW q \in Runs, Checks(q) PROVE RunTypes'
    BY <1>1 DEF Checks, Quiet, RunTypes
  <1>2. ASSUME NEW q \in Runs, Prepares(q) PROVE RunTypes'
    BY <1>2 DEF Prepares, Quiet, RunTypes
  <1>3. ASSUME NEW q \in Runs, Creates(q) PROVE RunTypes'
    BY <1>3 DEF Creates, Quiet, RunTypes
  <1>4. ASSUME NEW q \in Runs, Launches(q) PROVE RunTypes'
    BY <1>4 DEF Launches, Quiet, RunTypes
  <1>5. ASSUME NEW q \in Runs, PostsEvent(q) PROVE RunTypes'
    BY <1>5 DEF PostsEvent, Quiet, RunTypes
  <1>6. ASSUME NEW q \in Runs, Posts(q) PROVE RunTypes'
    BY <1>6 DEF Posts, Quiet, RunTypes
  <1>7. ASSUME NEW q \in Runs, Stamps(q) PROVE RunTypes'
    BY <1>7 DEF Stamps, Quiet, RunTypes
  <1>8. ASSUME NEW q \in Runs, Reads(q) PROVE RunTypes'
    <2>1. UNCHANGED <<replies, resumes>>
      BY <1>8, Zenon DEF Reads
    <2> QED BY <2>1 DEF RunTypes
  <1>9. ASSUME NEW q \in Runs, WritesSnapshot(q) PROVE RunTypes'
    BY <1>9 DEF WritesSnapshot, Quiet, RunTypes
  <1>10. ASSUME NEW q \in Runs, Replies(q) PROVE RunTypes'
    BY <1>10 DEF Replies, Quiet, RunTypes
  <1>11. ASSUME NEW q \in Runs, StoresReply(q) PROVE RunTypes'
    BY <1>11 DEF StoresReply, Quiet, RunTypes
  <1>12. ASSUME NEW q \in Runs, Ends(q) PROVE RunTypes'
    BY <1>12 DEF Ends, Quiet, RunTypes
  <1>13. ASSUME NEW q \in Runs, Crashes(q) PROVE RunTypes'
    BY <1>13 DEF Crashes, Quiet, RunTypes
  <1>14. ASSUME NEW q \in Runs, Reopens(q) PROVE RunTypes'
    BY <1>14 DEF Reopens, Quiet, RunTypes
  <1>15. ASSUME NEW q \in Runs, Requeues(q) PROVE RunTypes'
    BY <1>15 DEF Requeues, Quiet, RunTypes
  <1>16. ASSUME PurgeMemory, Aside PROVE RunTypes'
    BY <1>16 DEF PurgeMemory, Aside, RunTypes
  <1>17. ASSUME PurgePicks, Aside PROVE RunTypes'
    BY <1>17 DEF PurgePicks, Aside, RunTypes
  <1>18. ASSUME PurgeLocks, Aside PROVE RunTypes'
    BY <1>18 DEF PurgeLocks, Aside, RunTypes
  <1>19. ASSUME PurgeChecks, Aside PROVE RunTypes'
    BY <1>19 DEF PurgeChecks, Aside, RunTypes
  <1>20. ASSUME PurgeDeletes, Aside PROVE RunTypes'
    BY <1>20 DEF PurgeDeletes, Aside, RunTypes
  <1>21. ASSUME NEW s \in Sessions, Age(s), Aside PROVE RunTypes'
    BY <1>21 DEF Age, Aside, RunTypes
  <1> QED BY <1>1, <1>2, <1>3, <1>4, <1>5, <1>6, <1>7, <1>8, <1>9, <1>10, <1>11, <1>12,
             <1>13, <1>14, <1>15, <1>16, <1>17, <1>18, <1>19, <1>20, <1>21
          DEF Next, startRun, postMessage, Run, PurgeStep

-----------------------------------------------------------------------------
(* Answers, rows and purges.                                               *)

LEMMA AnsweredStep ==
    ASSUME StoreTypes, RequestTypes, Answered, Next
    PROVE  Answered'
  <1> USE StoreAssumption, ConversationAssumption DEF StoreAssumption, ConversationAssumption,
      stvars
  <1>1. ASSUME NEW q \in Runs, Checks(q) PROVE Answered'
    BY <1>1 DEF Checks, Goto, Answers, Answered, StoreTypes, RequestTypes, Before
  <1>2. ASSUME NEW q \in Runs, Prepares(q) PROVE Answered'
    BY <1>2 DEF Prepares, Goto, Answers, Answered, StoreTypes, RequestTypes, Before
  <1>3. ASSUME NEW q \in Runs, Creates(q) PROVE Answered'
    BY <1>3 DEF Creates, Goto, Answers, CreateRun, Answered, StoreTypes, RequestTypes, Before
  <1>4. ASSUME NEW q \in Runs, Launches(q) PROVE Answered'
    BY <1>4 DEF Launches, Goto, Answers, Append, Answered, StoreTypes, RequestTypes, Before
  <1>5. ASSUME NEW q \in Runs, PostsEvent(q) PROVE Answered'
    BY <1>5 DEF PostsEvent, Goto, Answers, Append, Answered, StoreTypes, RequestTypes, Before
  <1>6. ASSUME NEW q \in Runs, Posts(q) PROVE Answered'
    BY <1>6 DEF Posts, Goto, Answers, Writes, Answered, StoreTypes, RequestTypes, Before
  <1>7. ASSUME NEW q \in Runs, Stamps(q) PROVE Answered'
    BY <1>7 DEF Stamps, Answered, StoreTypes, RequestTypes, Before
  <1>8. ASSUME NEW q \in Runs, Reads(q) PROVE Answered'
    <2>1. /\ UNCHANGED <<backend, live, recent, msgs, purge, answer>> /\ pc[q] = "queued"
          /\ row' = [row EXCEPT ![q] = IF @ = "none" THEN @ ELSE "active"]
          /\ \E place \in {"failing", "summarising", "working"} : pc' = [pc EXCEPT ![q] = place]
      BY <1>8, Zenon DEF Reads, History, UpdateRun, Goto
    <2> QED BY <2>1 DEF Answered, StoreTypes, RequestTypes, Before
  <1>9. ASSUME NEW q \in Runs, WritesSnapshot(q) PROVE Answered'
    BY <1>9 DEF WritesSnapshot, Goto, Writes, Answered, StoreTypes, RequestTypes, Before
  <1>10. ASSUME NEW q \in Runs, Replies(q) PROVE Answered'
    BY <1>10 DEF Replies, Goto, Append, Answered, StoreTypes, RequestTypes, Before
  <1>11. ASSUME NEW q \in Runs, StoresReply(q) PROVE Answered'
    BY <1>11 DEF StoresReply, Goto, Writes, Answered, StoreTypes, RequestTypes, Before
  <1>12. ASSUME NEW q \in Runs, Ends(q) PROVE Answered'
    BY <1>12 DEF Ends, Goto, UpdateRun, Append, Answered, StoreTypes, RequestTypes, Before
  <1>13. ASSUME NEW q \in Runs, Crashes(q) PROVE Answered'
    BY <1>13 DEF Crashes, Goto, Answered, StoreTypes, RequestTypes, Before
  <1>14. ASSUME NEW q \in Runs, Reopens(q) PROVE Answered'
    BY <1>14 DEF Reopens, Goto, UpdateRun, Answered, StoreTypes, RequestTypes, Before
  <1>15. ASSUME NEW q \in Runs, Requeues(q) PROVE Answered'
    BY <1>15 DEF Requeues, Goto, Append, Answered, StoreTypes, RequestTypes, Before
  <1>16. ASSUME PurgeMemory, Aside PROVE Answered'
    BY <1>16 DEF PurgeMemory, Delete, Aside, Answered, StoreTypes, RequestTypes, Before
  <1>17. ASSUME PurgePicks, Aside PROVE Answered'
    BY <1>17 DEF PurgePicks, Aside, Answered, StoreTypes, RequestTypes, Before
  <1>18. ASSUME PurgeLocks, Aside PROVE Answered'
    BY <1>18 DEF PurgeLocks, Aside, Answered, StoreTypes, RequestTypes, Before
  <1>19. ASSUME PurgeChecks, Aside PROVE Answered'
    BY <1>19 DEF PurgeChecks, Aside, Answered, StoreTypes, RequestTypes, Before
  <1>20. ASSUME PurgeDeletes, Aside PROVE Answered'
    BY <1>20 DEF PurgeDeletes, Delete, Aside, Answered, StoreTypes, RequestTypes, Before
  <1>21. ASSUME NEW s \in Sessions, Age(s), Aside PROVE Answered'
    BY <1>21 DEF Age, Aside, Answered, StoreTypes, RequestTypes, Before
  <1> QED BY <1>1, <1>2, <1>3, <1>4, <1>5, <1>6, <1>7, <1>8, <1>9, <1>10, <1>11, <1>12,
             <1>13, <1>14, <1>15, <1>16, <1>17, <1>18, <1>19, <1>20, <1>21
          DEF Next, startRun, postMessage, Run, PurgeStep

LEMMA StoredIsLiveStep ==
    ASSUME TypeOK, StampsDiffer, StoreTypes, StoredIsLive, Next
    PROVE  StoredIsLive'
  <1> USE StoreAssumption, ConversationAssumption DEF StoreAssumption, ConversationAssumption,
      stvars
  <1>1. ASSUME NEW q \in Runs, Checks(q) PROVE StoredIsLive'
    BY <1>1 DEF Checks, Goto, Answers, StoredIsLive, StoreTypes
  <1>2. ASSUME NEW q \in Runs, Prepares(q) PROVE StoredIsLive'
    BY <1>2 DEF Prepares, Goto, Answers, StoredIsLive, StoreTypes
  <1>3. ASSUME NEW q \in Runs, Creates(q) PROVE StoredIsLive'
    BY <1>3 DEF Creates, CanCreate, CreateRun, Accepts, StoredIsLive, StoreTypes
  <1>4. ASSUME NEW q \in Runs, Launches(q) PROVE StoredIsLive'
    BY <1>4 DEF Launches, Append, Accepts, StoredIsLive, StoreTypes
  <1>5. ASSUME NEW q \in Runs, PostsEvent(q) PROVE StoredIsLive'
    BY <1>5 DEF PostsEvent, Append, Accepts, StoredIsLive, StoreTypes
  <1>6. ASSUME NEW q \in Runs, Posts(q) PROVE StoredIsLive'
    <2>1. Writes(q, Text(q, NoRun)) /\ Stamped(q) /\ NoRun \in Runs \cup {NoRun}
      BY <1>6 DEF Posts, Writes
    <2>2. Text(q, NoRun) \in Message /\ Text(q, NoRun).session = SessionOf[q] /\ Text(q, NoRun).at = StampOf(q)
      BY <2>1, TextFields
    <2>3. ASSUME NEW n \in msgs', n \notin msgs PROVE n.session = SessionOf[q] /\ Accepts(SessionOf[q])
      <3>1. PICK c \in BOOLEAN : n = [Text(q, NoRun) EXCEPT !.late = c] /\ Accepts(SessionOf[q])
        BY <2>1, <2>2, <2>3, WritesStep
      <3> QED BY <2>2, <3>1, StoredFields
    <2>4. backend' = backend /\ live' = live /\ row' = row
      BY <2>1 DEF Writes
    <2>5. recent' \subseteq recent \/ (recent' = recent \cup {SessionOf[q]} /\ Accepts(SessionOf[q]))
      BY <1>6 DEF Posts, Append
    <2> QED BY <2>3, <2>4, <2>5 DEF StoredIsLive, Accepts
  <1>7. ASSUME NEW q \in Runs, Stamps(q) PROVE StoredIsLive'
    BY <1>7 DEF Stamps, StoredIsLive, StoreTypes
  <1>8. ASSUME NEW q \in Runs, Reads(q) PROVE StoredIsLive'
    <2>1. /\ UNCHANGED <<backend, live, recent, msgs, purge, answer>> /\ pc[q] = "queued"
          /\ row' = [row EXCEPT ![q] = IF @ = "none" THEN @ ELSE "active"]
          /\ \E place \in {"failing", "summarising", "working"} : pc' = [pc EXCEPT ![q] = place]
      BY <1>8, Zenon DEF Reads, History, UpdateRun, Goto
    <2> QED BY <2>1 DEF StoredIsLive, StoreTypes
  <1>9. ASSUME NEW q \in Runs, WritesSnapshot(q) PROVE StoredIsLive'
    <2>1. Writes(q, Snapshot(q)) /\ Stamped(q) /\ NoRun \in Runs \cup {NoRun}
      BY <1>9 DEF WritesSnapshot, Writes
    <2>2. Snapshot(q) \in Message /\ Snapshot(q).session = SessionOf[q] /\ Snapshot(q).at = StampOf(q)
      BY <2>1, SnapshotFields
    <2>3. ASSUME NEW n \in msgs', n \notin msgs PROVE n.session = SessionOf[q] /\ Accepts(SessionOf[q])
      <3>1. PICK c \in BOOLEAN : n = [Snapshot(q) EXCEPT !.late = c] /\ Accepts(SessionOf[q])
        BY <2>1, <2>2, <2>3, WritesStep
      <3> QED BY <2>2, <3>1, StoredFields
    <2>4. backend' = backend /\ live' = live /\ row' = row
      BY <2>1 DEF Writes
    <2>5. recent' \subseteq recent \/ (recent' = recent \cup {SessionOf[q]} /\ Accepts(SessionOf[q]))
      BY <1>9 DEF WritesSnapshot, Append
    <2> QED BY <2>3, <2>4, <2>5 DEF StoredIsLive, Accepts
  <1>10. ASSUME NEW q \in Runs, Replies(q) PROVE StoredIsLive'
    BY <1>10 DEF Replies, Append, Accepts, StoredIsLive, StoreTypes
  <1>11. ASSUME NEW q \in Runs, StoresReply(q) PROVE StoredIsLive'
    <2>1. Writes(q, Text(q, q)) /\ Stamped(q) /\ NoRun \in Runs \cup {NoRun}
      BY <1>11 DEF StoresReply, Writes
    <2>2. Text(q, q) \in Message /\ Text(q, q).session = SessionOf[q] /\ Text(q, q).at = StampOf(q)
      BY <2>1, TextFields
    <2>3. ASSUME NEW n \in msgs', n \notin msgs PROVE n.session = SessionOf[q] /\ Accepts(SessionOf[q])
      <3>1. PICK c \in BOOLEAN : n = [Text(q, q) EXCEPT !.late = c] /\ Accepts(SessionOf[q])
        BY <2>1, <2>2, <2>3, WritesStep
      <3> QED BY <2>2, <3>1, StoredFields
    <2>4. backend' = backend /\ live' = live /\ row' = row
      BY <2>1 DEF Writes
    <2>5. recent' \subseteq recent \/ (recent' = recent \cup {SessionOf[q]} /\ Accepts(SessionOf[q]))
      BY <1>11 DEF StoresReply, Append
    <2> QED BY <2>3, <2>4, <2>5 DEF StoredIsLive, Accepts
  <1>12. ASSUME NEW q \in Runs, Ends(q) PROVE StoredIsLive'
    BY <1>12 DEF Ends, Append, Accepts, UpdateRun, StoredIsLive, StoreTypes
  <1>13. ASSUME NEW q \in Runs, Crashes(q) PROVE StoredIsLive'
    BY <1>13 DEF Crashes, Goto, StoredIsLive, StoreTypes
  <1>14. ASSUME NEW q \in Runs, Reopens(q) PROVE StoredIsLive'
    BY <1>14 DEF Reopens, Goto, UpdateRun, StoredIsLive, StoreTypes
  <1>15. ASSUME NEW q \in Runs, Requeues(q) PROVE StoredIsLive'
    BY <1>15 DEF Requeues, Append, Accepts, StoredIsLive, StoreTypes
  <1>16. ASSUME PurgeMemory, Aside PROVE StoredIsLive'
    BY <1>16 DEF PurgeMemory, Delete, StoredIsLive, StoreTypes
  <1>17. ASSUME PurgePicks, Aside PROVE StoredIsLive'
    BY <1>17 DEF PurgePicks, StoredIsLive, StoreTypes
  <1>18. ASSUME PurgeLocks, Aside PROVE StoredIsLive'
    BY <1>18 DEF PurgeLocks, StoredIsLive, StoreTypes
  <1>19. ASSUME PurgeChecks, Aside PROVE StoredIsLive'
    BY <1>19 DEF PurgeChecks, StoredIsLive, StoreTypes
  <1>20. ASSUME PurgeDeletes, Aside PROVE StoredIsLive'
    BY <1>20 DEF PurgeDeletes, Delete, StoredIsLive, StoreTypes
  <1>21. ASSUME NEW s \in Sessions, Age(s), Aside PROVE StoredIsLive'
    BY <1>21 DEF Age, StoredIsLive, StoreTypes
  <1> QED BY <1>1, <1>2, <1>3, <1>4, <1>5, <1>6, <1>7, <1>8, <1>9, <1>10, <1>11, <1>12,
             <1>13, <1>14, <1>15, <1>16, <1>17, <1>18, <1>19, <1>20, <1>21
          DEF Next, startRun, postMessage, Run, PurgeStep

LEMMA DueStep ==
    ASSUME ~ResumeFailed, StoreTypes, RequestTypes, DueIsUnfinished, CheckedIsIdle, Next
    PROVE  DueIsUnfinished'
  <1> USE StoreAssumption, ConversationAssumption DEF StoreAssumption, ConversationAssumption,
      stvars
  <1>1. ASSUME NEW q \in Runs, Checks(q) PROVE DueIsUnfinished'
    BY <1>1 DEF Checks, Goto, Answers, DueIsUnfinished, StoreTypes, RequestTypes, Due, Executing, Unfinished
  <1>2. ASSUME NEW q \in Runs, Prepares(q) PROVE DueIsUnfinished'
    BY <1>2 DEF Prepares, Goto, Answers, DueIsUnfinished, StoreTypes, RequestTypes, Due, Executing, Unfinished
  <1>3. ASSUME NEW q \in Runs, Creates(q) PROVE DueIsUnfinished'
    BY <1>3 DEF Creates, Goto, Answers, CreateRun, DueIsUnfinished, StoreTypes, RequestTypes, Due, Executing, Unfinished
  <1>4. ASSUME NEW q \in Runs, Launches(q) PROVE DueIsUnfinished'
    BY <1>4 DEF Launches, Goto, Answers, Append, DueIsUnfinished, StoreTypes, RequestTypes, Due, Executing, Unfinished
  <1>5. ASSUME NEW q \in Runs, PostsEvent(q) PROVE DueIsUnfinished'
    BY <1>5 DEF PostsEvent, Goto, Answers, Append, DueIsUnfinished, StoreTypes, RequestTypes, Due, Executing, Unfinished
  <1>6. ASSUME NEW q \in Runs, Posts(q) PROVE DueIsUnfinished'
    BY <1>6 DEF Posts, Goto, Writes, DueIsUnfinished, StoreTypes, RequestTypes, Due, Executing, Unfinished
  <1>7. ASSUME NEW q \in Runs, Stamps(q) PROVE DueIsUnfinished'
    BY <1>7 DEF Stamps, DueIsUnfinished, StoreTypes, RequestTypes, Due, Executing, Unfinished
  <1>8. ASSUME NEW q \in Runs, Reads(q) PROVE DueIsUnfinished'
    <2>1. /\ UNCHANGED <<backend, live, recent, msgs, purge, answer>> /\ pc[q] = "queued"
          /\ row' = [row EXCEPT ![q] = IF @ = "none" THEN @ ELSE "active"]
          /\ \E place \in {"failing", "summarising", "working"} : pc' = [pc EXCEPT ![q] = place]
      BY <1>8, Zenon DEF Reads, History, UpdateRun, Goto
    <2> QED BY <2>1 DEF DueIsUnfinished, StoreTypes, RequestTypes, Due, Executing, Unfinished
  <1>9. ASSUME NEW q \in Runs, WritesSnapshot(q) PROVE DueIsUnfinished'
    BY <1>9 DEF WritesSnapshot, Goto, Writes, DueIsUnfinished, StoreTypes, RequestTypes, Due, Executing, Unfinished
  <1>10. ASSUME NEW q \in Runs, Replies(q) PROVE DueIsUnfinished'
    BY <1>10 DEF Replies, Goto, Append, DueIsUnfinished, StoreTypes, RequestTypes, Due, Executing, Unfinished
  <1>11. ASSUME NEW q \in Runs, StoresReply(q) PROVE DueIsUnfinished'
    BY <1>11 DEF StoresReply, Goto, Writes, DueIsUnfinished, StoreTypes, RequestTypes, Due, Executing, Unfinished
  <1>12. ASSUME NEW q \in Runs, Ends(q) PROVE DueIsUnfinished'
    BY <1>12 DEF Ends, Goto, UpdateRun, Append, DueIsUnfinished, StoreTypes, RequestTypes, Due, Executing, Unfinished
  <1>13. ASSUME NEW q \in Runs, Crashes(q) PROVE DueIsUnfinished'
    BY <1>13 DEF Crashes, Goto, DueIsUnfinished, StoreTypes, RequestTypes, Due, Executing, Unfinished
  <1>14. ASSUME NEW q \in Runs, Reopens(q) PROVE DueIsUnfinished'
    BY <1>14 DEF Reopens, Goto, UpdateRun, DueIsUnfinished, StoreTypes, RequestTypes, Due, Executing, Unfinished
  <1>15. ASSUME NEW q \in Runs, Requeues(q) PROVE DueIsUnfinished'
    BY <1>15 DEF Requeues, Goto, Append, DueIsUnfinished, StoreTypes, RequestTypes, Due, Executing, Unfinished
  <1>16. ASSUME PurgeMemory, Aside PROVE DueIsUnfinished'
    BY <1>16 DEF PurgeMemory, Delete, Aside, Idle, DueIsUnfinished, StoreTypes, RequestTypes, Due, Executing, Unfinished
  <1>17. ASSUME PurgePicks, Aside PROVE DueIsUnfinished'
    BY <1>17 DEF PurgePicks, Aside, DueIsUnfinished, StoreTypes, RequestTypes, Due, Executing, Unfinished
  <1>18. ASSUME PurgeLocks, Aside PROVE DueIsUnfinished'
    BY <1>18 DEF PurgeLocks, Aside, DueIsUnfinished, StoreTypes, RequestTypes, Due, Executing, Unfinished
  <1>19. ASSUME PurgeChecks, Aside PROVE DueIsUnfinished'
    BY <1>19 DEF PurgeChecks, Aside, DueIsUnfinished, StoreTypes, RequestTypes, Due, Executing, Unfinished
  <1>20. ASSUME PurgeDeletes, Aside PROVE DueIsUnfinished'
    BY <1>20 DEF PurgeDeletes, Delete, Aside, CheckedIsIdle, Idle, DueIsUnfinished, StoreTypes, RequestTypes, Due, Executing, Unfinished
  <1>21. ASSUME NEW s \in Sessions, Age(s), Aside PROVE DueIsUnfinished'
    BY <1>21 DEF Age, Aside, DueIsUnfinished, StoreTypes, RequestTypes, Due, Executing, Unfinished
  <1> QED BY <1>1, <1>2, <1>3, <1>4, <1>5, <1>6, <1>7, <1>8, <1>9, <1>10, <1>11, <1>12,
             <1>13, <1>14, <1>15, <1>16, <1>17, <1>18, <1>19, <1>20, <1>21
          DEF Next, startRun, postMessage, Run, PurgeStep

(* A checked session stays idle: its writers wait, and its runs are over.  *)
LEMMA IdleStays ==
    ASSUME CheckedIsIdle, purge' = purge, backend' = backend, live' = live,
           purge.step = "checked" => \A s \in purge.of :
               /\ s \in recent' => s \in recent
               /\ \A r \in Runs : SessionOf[r] = s /\ row'[r] \in Unfinished => row[r] \in Unfinished
    PROVE  CheckedIsIdle'
  BY DEF CheckedIsIdle, Idle

LEMMA CheckedStep ==
    ASSUME StoreTypes, DueIsUnfinished, CheckedIsIdle, Next
    PROVE  CheckedIsIdle'
  <1> USE StoreAssumption, ConversationAssumption DEF StoreAssumption, ConversationAssumption,
      stvars
  <1>1. ASSUME NEW q \in Runs, Checks(q) PROVE CheckedIsIdle'
    <2>1. /\ purge' = purge /\ backend' = backend /\ live' = live
          /\ purge.step = "checked" => \A s \in purge.of :
                /\ s \in recent' => s \in recent
                /\ \A r \in Runs : SessionOf[r] = s /\ row'[r] \in Unfinished
                                       => row[r] \in Unfinished
      BY <1>1 DEF Checks, Unlocked, StoreTypes
    <2> QED BY <2>1, IdleStays
  <1>2. ASSUME NEW q \in Runs, Prepares(q) PROVE CheckedIsIdle'
    <2>1. /\ purge' = purge /\ backend' = backend /\ live' = live
          /\ purge.step = "checked" => \A s \in purge.of :
                /\ s \in recent' => s \in recent
                /\ \A r \in Runs : SessionOf[r] = s /\ row'[r] \in Unfinished
                                       => row[r] \in Unfinished
      BY <1>2 DEF Prepares, Unlocked, StoreTypes
    <2> QED BY <2>1, IdleStays
  <1>3. ASSUME NEW q \in Runs, Creates(q) PROVE CheckedIsIdle'
    <2>1. /\ purge' = purge /\ backend' = backend /\ live' = live
          /\ purge.step = "checked" => \A s \in purge.of :
                /\ s \in recent' => s \in recent
                /\ \A r \in Runs : SessionOf[r] = s /\ row'[r] \in Unfinished
                                       => row[r] \in Unfinished
      BY <1>3 DEF Creates, CreateRun, Unlocked, StoreTypes
    <2> QED BY <2>1, IdleStays
  <1>4. ASSUME NEW q \in Runs, Launches(q) PROVE CheckedIsIdle'
    <2>1. /\ purge' = purge /\ backend' = backend /\ live' = live
          /\ purge.step = "checked" => \A s \in purge.of :
                /\ s \in recent' => s \in recent
                /\ \A r \in Runs : SessionOf[r] = s /\ row'[r] \in Unfinished
                                       => row[r] \in Unfinished
      BY <1>4 DEF Launches, Append, Unlocked, StoreTypes
    <2> QED BY <2>1, IdleStays
  <1>5. ASSUME NEW q \in Runs, PostsEvent(q) PROVE CheckedIsIdle'
    <2>1. /\ purge' = purge /\ backend' = backend /\ live' = live
          /\ purge.step = "checked" => \A s \in purge.of :
                /\ s \in recent' => s \in recent
                /\ \A r \in Runs : SessionOf[r] = s /\ row'[r] \in Unfinished
                                       => row[r] \in Unfinished
      BY <1>5 DEF PostsEvent, Append, Unlocked, StoreTypes
    <2> QED BY <2>1, IdleStays
  <1>6. ASSUME NEW q \in Runs, Posts(q) PROVE CheckedIsIdle'
    <2>1. /\ purge' = purge /\ backend' = backend /\ live' = live
          /\ purge.step = "checked" => \A s \in purge.of :
                /\ s \in recent' => s \in recent
                /\ \A r \in Runs : SessionOf[r] = s /\ row'[r] \in Unfinished
                                       => row[r] \in Unfinished
      BY <1>6 DEF Posts, Writes, Unlocked, StoreTypes
    <2> QED BY <2>1, IdleStays
  <1>7. ASSUME NEW q \in Runs, Stamps(q) PROVE CheckedIsIdle'
    <2>1. /\ purge' = purge /\ backend' = backend /\ live' = live
          /\ purge.step = "checked" => \A s \in purge.of :
                /\ s \in recent' => s \in recent
                /\ \A r \in Runs : SessionOf[r] = s /\ row'[r] \in Unfinished
                                       => row[r] \in Unfinished
      BY <1>7 DEF Stamps, Unlocked, StoreTypes
    <2> QED BY <2>1, IdleStays
  <1>8. ASSUME NEW q \in Runs, Reads(q) PROVE CheckedIsIdle'
    <2>1. /\ UNCHANGED <<backend, live, recent, msgs, purge, answer>> /\ pc[q] = "queued"
          /\ row' = [row EXCEPT ![q] = IF @ = "none" THEN @ ELSE "active"]
          /\ \E place \in {"failing", "summarising", "working"} : pc' = [pc EXCEPT ![q] = place]
      BY <1>8, Zenon DEF Reads, History, UpdateRun, Goto
    <2>2. row[q] \in Unfinished
      BY <2>1 DEF DueIsUnfinished, Due
    <2>3. \A r \in Runs : row'[r] \in Unfinished => row[r] \in Unfinished
      BY <2>1, <2>2 DEF StoreTypes
    <2> QED BY <2>1, <2>3, IdleStays
  <1>9. ASSUME NEW q \in Runs, WritesSnapshot(q) PROVE CheckedIsIdle'
    <2>1. /\ purge' = purge /\ backend' = backend /\ live' = live
          /\ purge.step = "checked" => \A s \in purge.of :
                /\ s \in recent' => s \in recent
                /\ \A r \in Runs : SessionOf[r] = s /\ row'[r] \in Unfinished
                                       => row[r] \in Unfinished
      BY <1>9 DEF WritesSnapshot, Writes, Append, Unlocked, StoreTypes
    <2> QED BY <2>1, IdleStays
  <1>10. ASSUME NEW q \in Runs, Replies(q) PROVE CheckedIsIdle'
    <2>1. /\ purge' = purge /\ backend' = backend /\ live' = live
          /\ purge.step = "checked" => \A s \in purge.of :
                /\ s \in recent' => s \in recent
                /\ \A r \in Runs : SessionOf[r] = s /\ row'[r] \in Unfinished
                                       => row[r] \in Unfinished
      BY <1>10 DEF Replies, Append, Unlocked, StoreTypes
    <2> QED BY <2>1, IdleStays
  <1>11. ASSUME NEW q \in Runs, StoresReply(q) PROVE CheckedIsIdle'
    <2>1. /\ purge' = purge /\ backend' = backend /\ live' = live
          /\ purge.step = "checked" => \A s \in purge.of :
                /\ s \in recent' => s \in recent
                /\ \A r \in Runs : SessionOf[r] = s /\ row'[r] \in Unfinished
                                       => row[r] \in Unfinished
      BY <1>11 DEF StoresReply, Writes, Unlocked, StoreTypes
    <2> QED BY <2>1, IdleStays
  <1>12. ASSUME NEW q \in Runs, Ends(q) PROVE CheckedIsIdle'
    <2>1. /\ purge' = purge /\ backend' = backend /\ live' = live
          /\ purge.step = "checked" => \A s \in purge.of :
                /\ s \in recent' => s \in recent
                /\ \A r \in Runs : SessionOf[r] = s /\ row'[r] \in Unfinished
                                       => row[r] \in Unfinished
      BY <1>12 DEF Ends, Append, UpdateRun, Unlocked, StoreTypes
    <2> QED BY <2>1, IdleStays
  <1>13. ASSUME NEW q \in Runs, Crashes(q) PROVE CheckedIsIdle'
    <2>1. /\ purge' = purge /\ backend' = backend /\ live' = live
          /\ purge.step = "checked" => \A s \in purge.of :
                /\ s \in recent' => s \in recent
                /\ \A r \in Runs : SessionOf[r] = s /\ row'[r] \in Unfinished
                                       => row[r] \in Unfinished
      BY <1>13 DEF Crashes, Unlocked, StoreTypes
    <2> QED BY <2>1, IdleStays
  <1>14. ASSUME NEW q \in Runs, Reopens(q) PROVE CheckedIsIdle'
    <2>1. /\ UNCHANGED <<backend, live, recent, msgs, purge, answer>> /\ pc[q] = "stopped"
          /\ row' = [row EXCEPT ![q] = IF @ = "none" THEN @ ELSE "active"]
      BY <1>14 DEF Reopens, UpdateRun
    <2>2. row[q] \in Unfinished
      BY <2>1 DEF DueIsUnfinished, Due
    <2>3. \A r \in Runs : row'[r] \in Unfinished => row[r] \in Unfinished
      BY <2>1, <2>2 DEF StoreTypes
    <2> QED BY <2>1, <2>3, IdleStays
  <1>15. ASSUME NEW q \in Runs, Requeues(q) PROVE CheckedIsIdle'
    <2>1. /\ purge' = purge /\ backend' = backend /\ live' = live
          /\ purge.step = "checked" => \A s \in purge.of :
                /\ s \in recent' => s \in recent
                /\ \A r \in Runs : SessionOf[r] = s /\ row'[r] \in Unfinished
                                       => row[r] \in Unfinished
      BY <1>15 DEF Requeues, Append, Unlocked, StoreTypes
    <2> QED BY <2>1, IdleStays
  <1>16. ASSUME PurgeMemory, Aside PROVE CheckedIsIdle'
    BY <1>16 DEF PurgeMemory, Delete, CheckedIsIdle
  <1>17. ASSUME PurgePicks, Aside PROVE CheckedIsIdle'
    BY <1>17 DEF PurgePicks, CheckedIsIdle
  <1>18. ASSUME PurgeLocks, Aside PROVE CheckedIsIdle'
    <2>1. (purge').step = "locked" /\ backend' = backend
      BY <1>18 DEF PurgeLocks, StoreTypes, Purges
    <2>2. backend # "mem"
      BY <1>18 DEF PurgeLocks, CheckedIsIdle
    <2> QED BY <2>1, <2>2 DEF CheckedIsIdle
  <1>19. ASSUME PurgeChecks, Aside PROVE CheckedIsIdle'
    <2>1. purge' = [step |-> "checked", of |-> {s \in purge.of : Idle(s)}]
      BY <1>19 DEF PurgeChecks
    <2>2. UNCHANGED <<backend, live, recent, row>> /\ backend # "mem"
      BY <1>19 DEF PurgeChecks, CheckedIsIdle
    <2>3. \A s \in (purge').of : Idle(s)
      BY <2>1
    <2>4. \A s \in (purge').of : Idle(s)'
      BY <2>2, <2>3 DEF Idle
    <2> QED BY <2>2, <2>4 DEF CheckedIsIdle
  <1>20. ASSUME PurgeDeletes, Aside PROVE CheckedIsIdle'
    BY <1>20 DEF PurgeDeletes, Delete, CheckedIsIdle
  <1>21. ASSUME NEW s \in Sessions, Age(s), Aside PROVE CheckedIsIdle'
    <2>1. /\ purge' = purge /\ backend' = backend /\ live' = live /\ recent' \subseteq recent
          /\ row' = row
      BY <1>21 DEF Age
    <2> QED BY <2>1, IdleStays
  <1> QED BY <1>1, <1>2, <1>3, <1>4, <1>5, <1>6, <1>7, <1>8, <1>9, <1>10, <1>11, <1>12,
             <1>13, <1>14, <1>15, <1>16, <1>17, <1>18, <1>19, <1>20, <1>21
          DEF Next, startRun, postMessage, Run, PurgeStep

-----------------------------------------------------------------------------
(* The messages a session has at the start.                                *)
First(s, i) ==
    [session |-> s, run |-> NoRun, at |-> i, snapshot |-> FALSE,
     through |-> 0, covers |-> {}, count |-> 0, late |-> FALSE]

LEMMA InitConv == Init => ConvInv /\ PurgeInv
  <1> SUFFICES ASSUME Init PROVE ConvInv /\ PurgeInv
    OBVIOUS
  <1> USE StoreAssumption, ConversationAssumption DEF StoreAssumption, ConversationAssumption,
      Init, StoreInit
  <1>0. msgs = {First(s, i) : s \in Sessions, i \in 1 .. Earlier}
    BY DEF First
  <1>1. ASSUME NEW m \in msgs
        PROVE  m \in Message /\ m.at > 0 /\ m.at < clock /\ ~m.snapshot /\ m.session \in live
    <2>1. PICK s \in Sessions, i \in 1 .. Earlier : m = First(s, i)
      BY <1>0
    <2>2. m.at = i /\ m.session = s /\ ~m.snapshot /\ m \in Message
      BY <2>1 DEF Message, First
    <2> QED BY <2>2
  <1>2. StoreTypes
    BY DEF StoreTypes, Statuses, Purges
  <1>3. MsgTypes
    <2>1. clock \in Nat \ {0}
      OBVIOUS
    <2> QED BY <1>1, <2>1 DEF MsgTypes
  <1>4. RequestTypes
    BY NoSnapshotCounted DEF RequestTypes, Places
  <1>5. RunTypes
    BY DEF RunTypes
  <1>6. TypeOK /\ replies \in [Runs -> Nat]
    BY <1>2, <1>3, <1>4, <1>5, TypeParts
  <1>7. Answered
    BY DEF Answered
  <1>8. StampsDiffer
    <2>1. ASSUME NEW m \in msgs, NEW n \in msgs, m.session = n.session, m.at = n.at
          PROVE  m = n
      <3>1. PICK s \in Sessions, i \in 1 .. Earlier : m = First(s, i)
        BY <1>0
      <3>2. PICK t \in Sessions, j \in 1 .. Earlier : n = First(t, j)
        BY <1>0
      <3>3. s = t /\ i = j
        BY <2>1, <3>1, <3>2 DEF First
      <3> QED BY <3>1, <3>2, <3>3
    <2>2. \A q \in Runs : stamp[q] = 0 /\ stamp[q] < clock
      OBVIOUS
    <2>3. \A m \in msgs : m.at > 0 /\ m.at # 0
      BY <1>1 DEF Message
    <2> HIDE DEF Init, StoreInit
    <2> QED BY <2>1, <2>2, <2>3 DEF StampsDiffer
  <1>9. Summaries
    <2>1. \A q \in Runs : next[q] = NoSnapshot
      OBVIOUS
    <2>2. \A m \in msgs : m.at \in Nat /\ m.at > 0 /\ ~m.snapshot
      BY <1>1 DEF Message
    <2> HIDE DEF Init, StoreInit
    <2> QED BY <2>1, <2>2, NoSnapshotCounted, NoSnapshotTold DEF Summaries
  <1>10. StoredIsLive
    BY <1>1 DEF StoredIsLive
  <1>11. PurgeInv
    BY DEF PurgeInv, DueIsUnfinished, CheckedIsIdle, Due, Executing
  <1> QED BY <1>6, <1>7, <1>8, <1>9, <1>10, <1>11 DEF ConvInv

LEMMA ConvStep == ASSUME ConvInv, [Next]_vars PROVE ConvInv'
  <1>1. CASE Next
    <2>1. TypeOK /\ Answered /\ StampsDiffer /\ Summaries /\ StoredIsLive
      BY DEF ConvInv
    <2>2. StoreTypes /\ MsgTypes /\ RequestTypes /\ RunTypes
      BY TypeParts DEF ConvInv
    <2>3. StoreTypes' /\ MsgTypes' /\ RequestTypes' /\ RunTypes'
      BY <1>1, <2>1, <2>2, StoreTypesStep, MsgTypesStep, RequestTypesStep, RunTypesStep
    <2>4. TypeOK' /\ replies' \in [Runs -> Nat]
      BY <2>3 DEF TypeOK, StoreTypeOK, StoreTypes, MsgTypes, RequestTypes, RunTypes,
         Purges, Snaps
    <2>5. StampsDiffer' /\ Summaries'
      BY <1>1, <2>1, StampsDifferStep, SummariesStep
    <2>6. Answered' /\ StoredIsLive'
      BY <1>1, <2>1, <2>2, AnsweredStep, StoredIsLiveStep
    <2> QED BY <2>4, <2>5, <2>6 DEF ConvInv
  <1>2. CASE UNCHANGED vars
    <2> USE DEF vars, stvars
    <2>1. TypeOK' /\ replies' \in [Runs -> Nat]
      BY <1>2 DEF ConvInv, TypeOK, StoreTypeOK
    <2>2. Answered' /\ StampsDiffer' /\ StoredIsLive'
      BY <1>2 DEF ConvInv, Answered, StampsDiffer, StoredIsLive
    <2>3. Summaries'
      BY <1>2 DEF ConvInv, Summaries
    <2> QED BY <2>1, <2>2, <2>3 DEF ConvInv
  <1> QED BY <1>1, <1>2

LEMMA PurgeInvStep ==
    ASSUME ~ResumeFailed, ConvInv, PurgeInv, [Next]_vars
    PROVE  PurgeInv'
  <1>0. StoreTypes /\ RequestTypes
    BY TypeParts DEF ConvInv
  <1>1. CASE Next
    BY <1>0, <1>1, DueStep, CheckedStep DEF PurgeInv
  <1>2. CASE UNCHANGED vars
    BY <1>2 DEF PurgeInv, DueIsUnfinished, CheckedIsIdle, Idle, vars, stvars
  <1> QED BY <1>1, <1>2

-----------------------------------------------------------------------------
(* The inductive invariant of requests, runs and the session store.        *)
THEOREM ConvInvariant == Spec => []ConvInv
  BY InitConv, ConvStep, PTL DEF Spec

(* Every variable keeps its type; a message's stamp lies before the clock. *)
THEOREM ConversationTypes == Spec => []TypeOK
  <1>1. ConvInv => TypeOK
    BY DEF ConvInv
  <1> QED BY <1>1, ConvInvariant, PTL

(* No message drops out of the history, but for late ones and those of a   *)
(* compacting run (NothingForgotten), and none is counted twice, whatever  *)
(* summaries runs of different processes read and write, in any order and  *)
(* from complete lists or cut ones, and whatever their limits are.         *)
THEOREM HistoryIsKept == Spec => []HistoryKept
  <1>1. ConvInv => HistoryKept
    <2> SUFFICES ASSUME ConvInv PROVE HistoryKept
      OBVIOUS
    <2>0. TypeOK /\ StampsDiffer /\ Summaries
      BY DEF ConvInv
    <2>1. CountsCovered
      BY <2>0 DEF CountsCovered, Summaries, Counted
    <2>2. ASSUME NEW s \in live, NEW m \in Missed(s)
          PROVE  m.late \/ \E n \in msgs : n.snapshot /\ n.run = m.run /\ n.through > m.at
      <3>1. s \in Sessions
        BY <2>0 DEF TypeOK, StoreTypeOK
      <3>2. Listed(ListMessages(s), s)
        BY <2>0, <3>1, ListsListed
      <3>3. /\ m \in msgs /\ m.session = s /\ ~m.snapshot
            /\ m.at \notin Last(ListMessages(s)).covers
            /\ m.at <= Last(ListMessages(s)).through
        BY DEF Missed, ListMessages
      <3>4. m.late \/ Excused(msgs, s, m)
        BY <2>0, <3>1, <3>2, <3>3, LastTold
      <3> QED BY <3>4 DEF Excused
    <2> QED BY <2>1, <2>2 DEF HistoryKept, NothingForgotten
  <1> QED BY <1>1, ConvInvariant, PTL

(* In PostgreSQL nothing stored outlives its session, also when failed     *)
(* runs are resumed while a purge deletes.                                 *)
THEOREM NothingOutlives == Spec => []StoredIsLive
  <1>1. ConvInv => StoredIsLive
    BY DEF ConvInv
  <1> QED BY <1>1, ConvInvariant, PTL

(* Unless failed runs are resumed, a run that executes has its session     *)
(* too.                                                                    *)
THEOREM RunsHaveSessions == ASSUME ~ResumeFailed PROVE Spec => []NoOrphans
  <1>1. Spec => []PurgeInv
    BY InitConv, PurgeInvStep, ConvInvariant, PTL DEF Spec
  <1>2. ConvInv /\ PurgeInv => NoOrphans
    BY DEF ConvInv, PurgeInv, NoOrphans, StoredIsLive, DueIsUnfinished, Due, Unfinished
  <1> QED BY <1>1, <1>2, ConvInvariant, PTL

(* Unless failed runs are resumed, a purge deletes only what is idle at    *)
(* that moment, although it decided earlier.                               *)
THEOREM PurgeIsSafe == ASSUME ~ResumeFailed PROVE Spec => PurgesIdle
  <1>1. Spec => []PurgeInv
    BY InitConv, PurgeInvStep, ConvInvariant, PTL DEF Spec
  <1>2. ASSUME PurgeInv, [Next]_vars PROVE [\A s \in live \ live' : Idle(s)]_vars
    <2>1. ASSUME NEW q \in Runs, startRun(q) \/ postMessage(q) \/ Stamps(q) \/ Run(q)
          PROVE  live' = live
      <3>1. CASE Reads(q)
        BY <3>1, Zenon DEF Reads
      <3> QED BY <2>1, <3>1 DEF startRun, postMessage, Run, Checks, Prepares, Creates, Launches,
                 PostsEvent, Posts, Writes, Stamps, WritesSnapshot, Replies, StoresReply,
                 Ends, Crashes, Reopens, Requeues, stvars
    <2>2. CASE PurgeMemory
      BY <2>2 DEF PurgeMemory, Delete
    <2>3. CASE PurgeDeletes
      BY <2>3, <1>2 DEF PurgeDeletes, Delete, PurgeInv, CheckedIsIdle
    <2>4. CASE PurgePicks \/ PurgeLocks \/ PurgeChecks \/ \E s \in Sessions : Age(s)
      BY <2>4 DEF PurgePicks, PurgeLocks, PurgeChecks, Age
    <2> QED BY <1>2, <2>1, <2>2, <2>3, <2>4 DEF Next, PurgeStep
  <1> QED BY <1>1, <1>2, PTL DEF Spec, PurgesIdle

-----------------------------------------------------------------------------
(* Starts refine KeyedStarts.                                              *)

Exist == {r \in Runs : row[r] # "none"}

LEMMA KeysInit == Init => Keys!Init
  <1> SUFFICES ASSUME Init PROVE Keys!Init
    OBVIOUS
  <1>1. Exist = {}
    BY DEF Exist, Init, StoreInit
  <1>2. answer = [q \in Runs |-> "none"]
    BY DEF Init
  <1> QED BY <1>1, <1>2 DEF Keys!Init, Exist

(* The run that has a key is the one the key stands for.                   *)
LEMMA SameKey ==
    ASSUME NEW q \in Runs
    PROVE  FindByIdempotency(q) = Keys!Same(q)
  BY DEF FindByIdempotency, Keys!Same

(* Every step that is not of a request leaves the answers, and creates no  *)
(* run.                                                                    *)
LEMMA KeysStep ==
    ASSUME ConvInv, [Next]_vars
    PROVE  [Keys!Next]_<<Exist, answer>>
  <1>0. StoreTypes /\ RequestTypes /\ Answered
    BY TypeParts DEF ConvInv
  <1>1. ASSUME NEW q \in Runs, answer[q] = "none" \/ answer[q] = q, Answers(q, "error"),
               row' = row
        PROVE  Keys!Next
    <2>1. Keys!Tell(q, "error") /\ Exist' = Exist
      BY <1>1 DEF Answers, Keys!Tell, Exist
    <2>2. Keys!Fail(q)
      BY <1>1, <2>1 DEF Keys!Fail, Exist
    <2> QED BY <2>2 DEF Keys!Next
  <1>2. ASSUME NEW q \in Runs, Checks(q) \/ PostsEvent(q) \/ Posts(q)
        PROVE  Keys!Next \/ UNCHANGED <<Exist, answer>>
    <2>1. answer[q] = "none"
      BY <1>0, <1>2 DEF Checks, PostsEvent, Posts, Answered, Before
    <2>2. row' = row /\ (answer' = answer \/ Answers(q, "error"))
      BY <1>2 DEF Checks, PostsEvent, Posts, Writes, stvars
    <2> QED BY <1>1, <2>1, <2>2 DEF Exist
  <1>3. ASSUME NEW q \in Runs, Prepares(q)
        PROVE  Keys!Next \/ UNCHANGED <<Exist, answer>>
    <2>1. answer[q] = "none" /\ row' = row
      BY <1>0, <1>3 DEF Prepares, Answered, Before, stvars
    <2>2. ASSUME NEW r \in FindByIdempotency(q), Answers(q, r) PROVE Keys!Next
      <3>1. r \in Keys!Same(q) /\ Keys!Tell(q, r)
        BY <2>2, SameKey DEF Answers, Keys!Tell
      <3>2. Keys!Replay(q)
        BY <2>1, <3>1 DEF Keys!Replay
      <3> QED BY <3>2 DEF Keys!Next
    <2>3. \/ \E r \in FindByIdempotency(q) : Answers(q, r) \/ Answers(q, "error")
          \/ answer' = answer
      BY <1>3 DEF Prepares
    <2> QED BY <1>1, <2>1, <2>2, <2>3 DEF Exist
  <1>4. ASSUME NEW q \in Runs, Creates(q) PROVE Keys!Next
    <2>1. answer[q] = "none" /\ row[q] = "none"
      BY <1>0, <1>4 DEF Creates, Answered, Before
    <2>2. CASE CanCreate(q) /\ CreateRun(q) /\ Answers(q, q)
      <3>1. Exist' = Exist \cup {q}
        BY <1>0, <2>2 DEF CreateRun, Exist, StoreTypes
      <3>2. Keys!Same(q) = {}
        BY <2>2, SameKey DEF CanCreate
      <3>3. Keys!Tell(q, q)
        BY <2>2 DEF Answers, Keys!Tell
      <3>4. Keys!Create(q)
        BY <2>1, <3>1, <3>2, <3>3 DEF Keys!Create, Exist
      <3> QED BY <3>4 DEF Keys!Next
    <2>3. CASE Answers(q, "error") /\ row' = row
      BY <1>1, <2>1, <2>3
    <2> QED BY <1>4, <2>2, <2>3 DEF Creates
  <1>5. ASSUME NEW q \in Runs, Launches(q)
        PROVE  Keys!Next \/ UNCHANGED <<Exist, answer>>
    <2>1. answer[q] = q /\ row' = row /\ (answer' = answer \/ Answers(q, "error"))
      BY <1>0, <1>5 DEF Launches, Answered
    <2> QED BY <1>1, <2>1 DEF Exist
  <1>6. ASSUME NEW q \in Runs, NEW status, status # "none", UpdateRun(q, status)
        PROVE  Exist' = Exist
    BY <1>0, <1>6 DEF UpdateRun, Exist, StoreTypes
  <1>7. ASSUME NEW q \in Runs, Run(q) \/ Stamps(q)
        PROVE  UNCHANGED <<Exist, answer>>
    <2>1. CASE Reads(q)
      <3>1. UpdateRun(q, "active") /\ answer' = answer
        BY <2>1, Zenon DEF Reads
      <3> QED BY <1>6, <3>1
    <2>2. CASE Ends(q)
      BY <1>6, <2>2 DEF Ends
    <2>3. CASE Reopens(q)
      BY <1>6, <2>3 DEF Reopens
    <2>4. CASE \/ WritesSnapshot(q) \/ Replies(q) \/ StoresReply(q) \/ Crashes(q)
               \/ Requeues(q) \/ Stamps(q)
      BY <2>4 DEF WritesSnapshot, Replies, StoresReply, Crashes, Requeues, Stamps, Writes,
         Exist, stvars
    <2> QED BY <1>7, <2>1, <2>2, <2>3, <2>4 DEF Run
  <1>8. ASSUME NEW set, Delete(set), answer' = answer PROVE Keys!Next
    <2>1. Exist' = Exist \ {r \in Exist : SessionOf[r] \in set}
      BY <1>0, <1>8 DEF Delete, Exist, StoreTypes
    <2>2. Keys!Forget
      BY <1>8, <2>1 DEF Keys!Forget, Exist
    <2> QED BY <2>2 DEF Keys!Next
  <1>9. ASSUME PurgeStep \/ \E s \in Sessions : Age(s), Aside
        PROVE  Keys!Next \/ UNCHANGED <<Exist, answer>>
    <2>1. answer' = answer
      BY <1>9 DEF Aside
    <2>2. (\E set : Delete(set)) \/ row' = row
      BY <1>9 DEF PurgeStep, PurgeMemory, PurgePicks, PurgeLocks, PurgeChecks,
         PurgeDeletes, Age
    <2> QED BY <1>8, <2>1, <2>2 DEF Exist
  <1>10. CASE UNCHANGED vars
    BY <1>10 DEF vars, stvars, Exist
  <1> QED BY <1>2, <1>3, <1>4, <1>5, <1>7, <1>9, <1>10 DEF Next, startRun, postMessage

(* However requests with a key interleave, with each other and with        *)
(* purges, the key stands for at most one run at a time and every answer   *)
(* is that run or an error: starts implement KeyedStarts.                  *)
THEOREM KeysRefined == Spec => KeysStandForOneRun
  <1>1. ASSUME ConvInv, [Next]_vars
        PROVE  [Keys!Next]_<<{r \in Runs : row[r] # "none"}, answer>>
    BY <1>1, KeysStep DEF Exist
  <1> QED BY <1>1, KeysInit, ConvInvariant, PTL DEF Spec, KeysStandForOneRun, Keys!Spec

=============================================================================
